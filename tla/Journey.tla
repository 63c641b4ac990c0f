------------------------------- MODULE Journey -------------------------------
(***************************************************************************)
(* The overmap at the table: clicking a place asks for a trip, the rows     *)
(* below the map order a pace and a stance, studying the charts reveals     *)
(* places, and the scrubber shows the map of an earlier day.  Alone, the    *)
(* app rules and applies at once; hosting, it rules on its mirror and sends *)
(* events to the session; a joined app's clicks are looks.                  *)
(*                                                                          *)
(* Every handler is followed by the pumps of its dispatch, in the same      *)
(* step.  A game is [tokens, world, clocks, active, sites, charts]: tokens  *)
(* a sequence of [id, owner, stance, tired], sites the stored maps, charts  *)
(* the inventory of each token.                                             *)
(***************************************************************************)
EXTENDS World

CONSTANTS
  Games,     \* the games a sitting may open
  Errands,   \* what a sitting is about: [seat, acts, steps], acts from the
             \* actions' names and seat [net, host, viewer, origin]
  Marches,   \* what the rules may say of a march: [nav, tired, peril, forage]
  News,      \* world events the rest of the table may commit
  TickCap    \* SOURCE_TIME_TICKS

VARIABLES
  ui,        \* UiState, and what the app keeps of the session
  game,      \* the authority's game
  log,       \* and its history
  wire,      \* events on their way to the session
  origin,    \* the game as it was before the first event
  errand, steps

vars == <<ui, game, log, wire, origin, errand, steps>>

NoToken == 0
NoOne   == ""
Live    == 0 - 1   \* no cursor

PacePcts   == <<50, 100, 200>>
StanceKeys == <<"scout", "search", "forage", "">>

\* Whose party the app shows: the viewer's, and the DM's own without one.
Party(u) == IF u.viewer = NoOne THEN "dm" ELSE u.viewer

Owned(g, party) == SelectSeq(g.tokens, LAMBDA t : t.owner = party)

StanceOf(g, id) == LET found == SelectSeq(g.tokens, LAMBDA t : t.id = id)
                   IN  IF found = <<>> THEN "" ELSE found[1].stance

-----------------------------------------------------------------------------
(* The session *)

Accepts(g, e) ==
  CASE e.kind = "world"  -> AcceptsWorld(g.world, e.event)
    [] e.kind = "stance" -> \E t \in Range(g.tokens) : t.id = e.token
    [] e.kind = "travel" -> TRUE

Site(w, place) == IF place \in DOMAIN w.places THEN w.places[place].map ELSE NoId

\* TravelResolved: the party is there, the day is later there, its members
\* are at least so tired, and a peril puts the place's map up.
Arrived(g, e) ==
  LET there == DiscoverAround([g.world EXCEPT !.at = Put(@, e.party, e.to)], e.party, e.to)
      site  == Site(g.world, e.to)
  IN  [g EXCEPT
         !.world  = IF e.forage = 0 THEN there ELSE AddToStore(there, e.party, "food", e.forage),
         !.clocks = IF site = NoId THEN @ ELSE Put(@, site, Get(@, site, 0) + e.ticks),
         !.tokens = [n \in DOMAIN @ |-> IF @[n].owner # e.party THEN @[n]
                                        ELSE [@[n] EXCEPT !.tired = Max({@, e.tired})]],
         !.active = IF e.peril /\ site \in g.sites THEN site ELSE @]

Applied(g, e) ==
  CASE e.kind = "world"  -> [g EXCEPT !.world = AppliedWorld(@, e.event)]
    [] e.kind = "stance" -> [g EXCEPT !.tokens = [n \in DOMAIN @ |->
                               IF @[n].id = e.token THEN [@[n] EXCEPT !.stance = e.stance] ELSE @[n]]]
    [] e.kind = "travel" -> Arrived(g, e)

\* The game after the first n events: GameSourceHistory's prefix.
Replayed(n) == FoldLeft(Applied, origin, SubSeq(log, 1, n))

\* The threads of a dispatch: the app, the authority's game and log, the wire.
Here == [ui |-> ui, game |-> game, log |-> log, wire |-> wire]
Now(st) == ui' = st.ui /\ game' = st.game /\ log' = st.log /\ wire' = st.wire

Committed(st, e) ==
  IF Accepts(st.game, e) THEN [st EXCEPT !.game = Applied(@, e), !.log = Append(@, e)] ELSE st

-----------------------------------------------------------------------------
(* Source time.  u.source is the length of the history the view was given,  *)
(* Live without one; u.cursor a prefix or Live; u.slider the scrubber's     *)
(* value as <<numerator, denominator>>.                                     *)

\* Evenly spread prefixes, both ends among them.
SequenceTicks(live) ==
  IF TickCap = 1 \/ live = 0 THEN <<live>>
  ELSE LET points == Min({TickCap, live + 1})
       IN  [n \in 1..points |-> ((n - 1) * live) \div (points - 1)]

\* The scrubber stands where the cursor is among the ticks, else at the end.
Slid(u) ==
  LET cursor == IF u.cursor = Live THEN u.source ELSE u.cursor
      ticks  == SequenceTicks(u.source)
      last   == Max({Len(ticks) - 1, 1})
  IN  IF u.source = Live THEN [u EXCEPT !.slider = <<1, 1>>]
      ELSE [u EXCEPT !.slider = IF cursor \in Range(ticks) THEN <<SelectInSeq(ticks, LAMBDA t : t = cursor) - 1, last>>
                                ELSE <<1, 1>>]

\* set_overmap_source_history: a prefix still short of the end is kept.
Given(u, source) ==
  Slid([u EXCEPT !.source = source, !.cursor = IF @ # Live /\ source # Live /\ @ < source THEN @ ELSE Live])

\* refresh_source_history: only a log that has grown is handed over.
Refreshed(st) ==
  IF ~st.ui.origin \/ st.ui.source = st.ui.seen THEN st ELSE [st EXCEPT !.ui = Given(@, st.ui.seen)]

\* Mutant: the end of the scrubber is a prefix like any other.
ScrubbedToEnd(u) ==
  LET ticks == SequenceTicks(u.source)
      last  == Len(ticks) - 1
      index == (2 * u.slider[1] * last + u.slider[2]) \div (2 * u.slider[2])
  IN  IF u.source = Live THEN u ELSE Slid([u EXCEPT !.cursor = ticks[index + 1]])
\* sync_overmap_source_time, first thing in every dispatch: the nearest tick
\* becomes the cursor, and the last one means live.
Scrubbed(u) ==
  LET ticks == SequenceTicks(u.source)
      last  == Len(ticks) - 1
      index == (2 * u.slider[1] * last + u.slider[2]) \div (2 * u.slider[2])
      tick  == ticks[index + 1]
  IN  IF u.source = Live THEN u
      ELSE Slid([u EXCEPT !.cursor = IF tick < u.source THEN tick ELSE Live])

Historical(u) == u.cursor # Live

\* The world the map is drawn from.
SourceWorld(u) == IF Historical(u) THEN Replayed(u.cursor).world ELSE u.game.world

-----------------------------------------------------------------------------
(* The rows *)

PaceRow(w, party) ==
  IF Pace(w, party) \in Range(PacePcts) THEN SelectInSeq(PacePcts, LAMBDA p : p = Pace(w, party)) ELSE 2

\* Whose stance the stance row speaks of: the selected token, or the first.
LeadStance(u) ==
  IF u.selected # NoToken THEN StanceOf(u.game, u.selected)
  ELSE IF u.game.tokens = <<>> THEN "" ELSE u.game.tokens[1].stance

\* Mutant: the pace shown is the DM's party's.
SyncRowsForDm(u) ==
  [u EXCEPT !.pace   = PaceRow(u.game.world, "dm"),
            !.stance = SelectInSeq(StanceKeys, LAMBDA s : s = LeadStance(u))]
\* sync_selection_rows: truth into the rows.
SyncSelectionRows(u) ==
  [u EXCEPT !.pace   = PaceRow(u.game.world, Party(u)),
            !.stance = SelectInSeq(StanceKeys, LAMBDA s : s = LeadStance(u))]

\* apply_snapshot, as far as the overmap shows it.
Mirrored(u, g) ==
  LET shown == [u EXCEPT !.game = g]
  IN  SyncSelectionRows(IF \E t \in Range(g.tokens) : t.id = u.selected THEN shown
                        ELSE [shown EXCEPT !.selected = NoToken])

CopiedBack(st) == [st EXCEPT !.ui = Mirrored([@ EXCEPT !.seen = Len(st.log)], st.game)]

\* emit_host_events: applied and mirrored here, or sent as they are.
Emit(st, events) ==
  IF events = <<>> THEN st
  ELSE IF st.ui.net = "remote" THEN [st EXCEPT !.wire = @ \o events]
  ELSE Refreshed(CopiedBack(FoldLeft(Committed, st, events)))

-----------------------------------------------------------------------------
(* The pumps, in their order.  ask is [to, read], the one-shot requests a   *)
(* handler may have armed; march and lettered are what the rules will say.  *)

Nothing == [to |-> NoId, read |-> FALSE]

\* Only the authority answers; a joined app's requests are dropped.
Guides(u) == u.net = "solo" \/ u.host

\* pump_selection_rows: a row that differs from the truth is an order.
PaceOrder(u)   == IF PacePcts[u.pace] # Pace(u.game.world, Party(u)) THEN {PacePcts[u.pace]} ELSE {}
StanceOrder(u) == IF StanceKeys[u.stance] # LeadStance(u) THEN {StanceKeys[u.stance]} ELSE {}

WorldEvent(e) == [kind |-> "world", event |-> e]

\* resolve_travel: the route's cost at the party's pace, and what the road makes of it.
TravelResolved(w, party, to, march) ==
  [kind |-> "travel", party |-> party, to |-> to,
   ticks |-> Max({(TravelCost(w, party, w.at[party], to) * march.nav) \div 100, 1}),
   tired |-> march.tired, peril |-> march.peril, forage |-> march.forage]

\* pump_overmap, on the world the app shows: the first click sets the party
\* down, and a march needs a way.
TripEvents(w, party, to, march) ==
  IF party \notin DOMAIN w.at
  THEN <<WorldEvent([kind |-> "moved", party |-> party, place |-> to])>>
  ELSE IF w.at[party] = to \/ Route(WorldMap(w), w.at[party], to) = NoRoute THEN <<>>
  ELSE <<TravelResolved(w, party, to, march)>>

PumpOvermap(st, to, march) ==
  IF to = NoId \/ ~Guides(st.ui) THEN st
  ELSE Emit(st, TripEvents(st.ui.game.world, Party(st.ui), to, march))

\* pump_overmap_orders: a pace for the party, a stance for its first token.
OrderStance(st, lead, stances) ==
  IF lead = <<>> THEN st
  ELSE Emit(st, SetToSeq({[kind |-> "stance", token |-> lead[1].id, stance |-> s] : s \in stances}))
OrderLead(st, party, stances) == OrderStance(st, Owned(st.ui.game, party), stances)
OrderPace(st, party, paces) ==
  Emit(st, SetToSeq({WorldEvent([kind |-> "pace", party |-> party, pace |-> p]) : p \in paces}))

PumpOvermapOrders(st, paces, stances) ==
  IF Guides(st.ui) THEN OrderLead(OrderPace(st, Party(st.ui), paces), Party(st.ui), stances) ELSE st

\* pump_overmap_read: a lettered party learns what lies one route beyond what
\* it knows, and what the charts it carries name.
Frontier(w, party) == {n[1] : n \in UNION {Neighbours(WorldMap(w), place) : place \in Knows(w, party)}}

Unfound(g, party) ==
  (Frontier(g.world, party) \cup UNION {Get(g.charts, t.id, {}) : t \in Range(Owned(g, party))})
    \ Knows(g.world, party)
RevealEvents(party, places) ==
  [n \in DOMAIN places |-> WorldEvent([kind |-> "revealed", party |-> party, place |-> places[n]])]

PumpOvermapRead(st, asked, lettered) ==
  IF asked /\ lettered /\ Guides(st.ui)
  THEN Emit(st, RevealEvents(Party(st.ui), InOrder(Unfound(st.ui.game, Party(st.ui))))) ELSE st

\* after_dispatch, without what it mirrors (Mirror).  The rows are read first.
Pumped(st, ask, march, lettered) ==
  Refreshed(PumpOvermapRead(
    PumpOvermapOrders(PumpOvermap(st, ask.to, march), PaceOrder(st.ui), StanceOrder(st.ui)),
    ask.read, lettered))
AfterDispatch(u, ask, march, lettered) == Pumped([Here EXCEPT !.ui = Scrubbed(u)], ask, march, lettered)

-----------------------------------------------------------------------------
(* The app *)

Step(name) ==
  /\ name \in errand.acts /\ steps < errand.steps /\ steps' = steps + 1
  /\ UNCHANGED <<origin, errand>>

\* A handler that arms nothing; the rules are not asked.
Handled(u) == Now(AfterDispatch(u, Nothing, [nav |-> 100], FALSE))

\* What is drawn: the places found, and the routes between them in order.
Drawn(u) == MapFor(SourceWorld(u), Party(u))
DrawnRoutes(u) ==
  LET w == SourceWorld(u)
      shown == SelectSeq(InOrder(DOMAIN w.routes),
                         LAMBDA r : {w.routes[r].from, w.routes[r].to} \subseteq Knows(w, Party(u)))
  IN  [n \in DOMAIN shown |-> w.routes[shown[n]]]

\* overmap_relation_id: where a route stands among the drawn ones, and what it joins.
RelationId(n, route) == <<n, route.from, route.to, Max({route.weight, 1})>>
Relations(u) == {RelationId(n, DrawnRoutes(u)[n]) : n \in DOMAIN DrawnRoutes(u)}

OpenOvermap ==
  /\ Step("look") /\ ~ui.open
  /\ Handled([ui EXCEPT !.open = TRUE])

CloseOvermap ==
  /\ Step("look") /\ ui.open
  /\ Handled([ui EXCEPT !.open = FALSE])

\* activate_overmap_node, from a swatch that shows the present: the click
\* after a pull of the same place is the pull's own.
ClickPlace(place) ==
  /\ Step("travel") /\ ui.open /\ place \in Drawn(ui).nodes
  /\ LET clicked == [ui EXCEPT !.dragged = NoId]
     IN  IF Historical(ui) THEN Handled(ui)
         ELSE IF ui.dragged = place THEN Handled(clicked)
         ELSE \E march \in Marches : Now(AfterDispatch(clicked, [Nothing EXCEPT !.to = place], march, FALSE))

\* drag_overmap_node: down, moves of which far ones pass the slop, up.
PressPlace(place) ==
  /\ Step("drag") /\ ui.open /\ place \in Drawn(ui).nodes
  /\ Handled([ui EXCEPT !.drag = place, !.dragged = NoId])

DragPlace(far, up) ==
  /\ Step("drag") /\ ui.open /\ ui.drag # NoId
  /\ LET pulled == IF far \/ ui.dragged # NoId THEN [ui EXCEPT !.dragged = ui.drag, !.moved = @ \cup {ui.drag}]
                   ELSE ui
     IN  Handled(IF up THEN [pulled EXCEPT !.drag = NoId] ELSE pulled)

ClickRelation(id) ==
  /\ Step("relation") /\ ui.open /\ id \in Relations(ui)
  /\ Handled([ui EXCEPT !.relation = id])

\* The button on the card of the selected route, while it is drawn.
ClickHideRoute ==
  /\ Step("relation") /\ ui.open /\ ui.relation \in Relations(ui)
  /\ Handled([ui EXCEPT !.hidden = IF ui.relation \in @ THEN @ \ {ui.relation} ELSE @ \cup {ui.relation}])

ClickStudyMap ==
  /\ Step("read") /\ ui.open /\ ~Historical(ui)
  /\ \E lettered \in BOOLEAN : Now(AfterDispatch(ui, [Nothing EXCEPT !.read = TRUE], [nav |-> 100], lettered))

\* The rows write only themselves; the dispatch's pump does the rest.
ClickPace(n) ==
  /\ Step("pace") /\ ui.open /\ ~Historical(ui) /\ Drawn(ui).nodes # {}
  /\ Handled([ui EXCEPT !.pace = n])

ClickStance(n) ==
  /\ Step("stance") /\ ui.open /\ ~Historical(ui) /\ Drawn(ui).nodes # {}
  /\ Handled([ui EXCEPT !.stance = n])

\* The scrubber, wherever between its ends.
Scrub(value) ==
  /\ Step("scrub") /\ ui.open /\ ui.source > 0
  /\ Handled([ui EXCEPT !.slider = value])

ClickReturnLive ==
  /\ Step("scrub") /\ ui.open /\ Historical(ui)
  /\ Handled(Slid([ui EXCEPT !.cursor = Live]))

SelectToken(id) ==
  /\ Step("select") /\ \E t \in Range(ui.game.tokens) : t.id = id
  /\ Handled([ui EXCEPT !.selected = id])

\* cycle_viewer: the owners in the order of their first tokens, then nobody.
CycleViewer ==
  /\ Step("viewer")
  /\ LET owners == SelectSeq([n \in DOMAIN ui.game.tokens |-> ui.game.tokens[n].owner], LAMBDA o : o # NoOne)
         ring   == <<NoOne>> \o FoldLeft(LAMBDA seen, o : IF o \in Range(seen) THEN seen ELSE Append(seen, o), <<>>, owners)
         at     == IF ui.viewer \in Range(ring) THEN SelectInSeq(ring, LAMBDA o : o = ui.viewer) ELSE Len(ring)
     IN  Handled([ui EXCEPT !.viewer = ring[(at % Len(ring)) + 1]])

-----------------------------------------------------------------------------
(* The session *)

\* The rest of the table, through the authority.
TableActs(event) ==
  /\ Step("news")
  /\ IF ui.net = "solo" THEN Now(Emit(Here, <<WorldEvent(event)>>))
     ELSE Now(Committed(Here, WorldEvent(event)))

Commit ==
  /\ wire # <<>>
  /\ Now([Committed(Here, Head(wire)) EXCEPT !.wire = Tail(wire)])
  /\ UNCHANGED <<origin, errand, steps>>

\* pump_net, and the refresh that follows it.  Only a host hears its history.
Mirror ==
  /\ ui.net = "remote" /\ ui.seen # Len(log)
  /\ Now(Refreshed([Here EXCEPT !.ui = Mirrored([ui EXCEPT !.seen = Len(log)], game)]))
  /\ UNCHANGED <<origin, errand, steps>>

-----------------------------------------------------------------------------

NewUi(g, seat) ==
  SyncSelectionRows(
    [net |-> seat.net, host |-> seat.host, viewer |-> seat.viewer, origin |-> seat.origin,
     game |-> g, seen |-> 0, selected |-> NoToken, open |-> FALSE, pace |-> 2, stance |-> 4,
     drag |-> NoId, dragged |-> NoId, moved |-> {}, relation |-> NoId, hidden |-> {},
     source |-> IF seat.origin THEN 0 ELSE Live, cursor |-> Live, slider |-> <<1, 1>>])

Init ==
  \E g \in Games :
    /\ errand \in Errands
    /\ game = g /\ origin = g /\ log = <<>> /\ wire = <<>> /\ steps = 0
    /\ ui = NewUi(g, errand.seat)

Places == DOMAIN game.world.places

Next ==
  \/ OpenOvermap \/ CloseOvermap \/ ClickHideRoute \/ ClickStudyMap \/ ClickReturnLive \/ CycleViewer
  \/ \E place \in Places : ClickPlace(place)
  \/ \E place \in Places : PressPlace(place)
  \/ \E far, up \in BOOLEAN : DragPlace(far, up)
  \/ \E id \in Relations(ui) : ClickRelation(id)
  \/ \E n \in DOMAIN PacePcts : ClickPace(n)
  \/ \E n \in DOMAIN StanceKeys : ClickStance(n)
  \/ \E n \in 0..TickCap : Scrub(<<n, TickCap>>)
  \/ \E t \in Range(game.tokens) : SelectToken(t.id)
  \/ \E event \in News : TableActs(event)
  \/ Commit \/ Mirror

Spec == Init /\ [][Next]_vars

-----------------------------------------------------------------------------
(* Properties *)

\* The least weight of a way between two places, over every way that visits
\* no place twice: what the bounded searches of overmap.rs are for.
Ways(map, from, to) ==
  LET between == map.nodes \ {from, to}
      middles == {m \in UNION {[1..n -> between] : n \in 0..Cardinality(between)} : IsInjective(m)}
  IN  {w \in {<<from>> \o m \o <<to>> : m \in middles} :
         \A n \in 1..(Len(w) - 1) : \E e \in Neighbours(map, w[n]) : e[1] = w[n + 1]}
LeastCost(map, from, to) ==
  LET hop(a, b) == Min({e[2] : e \in {x \in Neighbours(map, a) : x[1] = b}})
  IN  Min({FoldLeft(+, 0, [n \in 1..(Len(w) - 1) |-> hop(w[n], w[n + 1])]) : w \in Ways(map, from, to)})

\* A trip costs what the cheapest way costs from where the party really is, at
\* the pace it really marches, and the search within a budget finds the place
\* from that budget on.
Priced(w, e) ==
  LET cost == LeastCost(WorldMap(w), w.at[e.party], e.to)
  IN  /\ e.to # w.at[e.party]
      /\ e.to \in DOMAIN ReachableWithin(WorldMap(w), w.at[e.party], cost)
      /\ e.to \notin DOMAIN ReachableWithin(WorldMap(w), w.at[e.party], cost - 1)
      /\ e.ticks >= Max({(cost * Pace(w, e.party)) \div 100, 1})

LandedTrips == {n \in DOMAIN log' \ DOMAIN log : log'[n].kind = "travel"}

\* Alone, no party gets anywhere for less than the cheapest way there, and the
\* place it reaches is so much later (pump_overmap, route, TravelResolved).
TripsPaid ==
  [][ui.net = "solo" => \A n \in LandedTrips :
       LET e == log'[n]
           site == Site(game.world, e.to)
       IN  Priced(game.world, e) /\ (site # NoId => game'.clocks[site] >= Get(game.clocks, site, 0) + e.ticks)]_vars

\* The same of a trip a host rules on its mirror: broken by a second click, or
\* a new pace, before the first is committed.
LegsTravelled == [][\A n \in LandedTrips : Priced(game.world, log'[n])]_vars

\* With nothing under way the pace row shows the pace of the party on the map,
\* whoever moved the row, the viewer or the world (sync_selection_rows: "after
\* this, any disagreement is the user having moved a control").
Settled == wire = <<>> /\ ui.seen = Len(log)
RowsTellTruth == Settled /\ Guides(ui) => PacePcts[ui.pace] = Pace(ui.game.world, Party(ui))

\* An order is given by the hand that moves its row: broken by whoever selects
\* a token of another stance or shows the party of another pace.
OrdersAreMoves ==
  [][ui.net = "solo" /\ (\E k \in DOMAIN log' \ DOMAIN log :
        log'[k].kind = "stance" \/ (log'[k].kind = "world" /\ log'[k].event.kind = "pace"))
      => \/ \E n \in DOMAIN PacePcts : ClickPace(n)
         \/ \E n \in DOMAIN StanceKeys : ClickStance(n)]_vars

\* The pace last chosen is the last one sent: broken by choosing the mirror's
\* own pace again before an earlier order is committed.
SentPaces == SelectSeq(wire, LAMBDA e : e.kind = "world" /\ e.event.kind = "pace")
PacesAreSent ==
  [][\A n \in DOMAIN PacePcts : ui.host /\ ClickPace(n) =>
       IF SentPaces' = <<>> THEN Pace(game.world, Party(ui)) = PacePcts[n]
       ELSE SentPaces'[Len(SentPaces')].event.pace = PacePcts[n]]_vars

\* A map that shows the present goes on showing the present while the log
\* grows, until the scrubber is pulled (source_time.rs: "Live stays live as the
\* log advances").
LiveStaysLive ==
  [][~Historical(ui) /\ Historical(ui') => \E n \in 0..TickCap : Scrub(<<n, TickCap>>)]_vars

\* And a past day stays the same day (source_time.rs: "A selected prefix
\* survives appended events"): broken once the log has more prefixes than ticks.
PrefixKept ==
  [][Historical(ui) /\ ui'.cursor # ui.cursor =>
       ClickReturnLive \/ \E n \in 0..TickCap : Scrub(<<n, TickCap>>)]_vars

\* A route that is hidden stays hidden while it is drawn (overmap.rs: relation
\* cells "keep their own stable local identity"): broken by a place found whose
\* routes come first.
HiddenNow == {r \in Range(DrawnRoutes(ui)) : \A n \in DOMAIN DrawnRoutes(ui) :
                DrawnRoutes(ui)[n] = r => RelationId(n, r) \in ui.hidden}
HiddenStaysHidden ==
  [][(\A r \in HiddenNow : r \in Range(DrawnRoutes(ui)') => r \in HiddenNow') \/ ClickHideRoute]_vars
=============================================================================
