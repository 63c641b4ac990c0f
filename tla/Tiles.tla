-------------------------------- MODULE Tiles --------------------------------
(***************************************************************************)
(* isometry-core as pure operators on a map document: the grid, the walk,   *)
(* sight, area templates, the projection, the board's reversible events     *)
(* and the notes kept per token.                                            *)
(*                                                                          *)
(* A tile is <<col, row>>, rows running south.  A document is               *)
(*   [width, height, kinds, ground, props, elevation, tokens, sheets,       *)
(*    defeated, conditions, mobility, counters, stances]                    *)
(* where ground and props hold indices into the sequence kinds, counting    *)
(* from 0, which is "empty" and the only one of that name.                  *)
(***************************************************************************)
EXTENDS Integers, FiniteSets, SequencesExt, Keyed

Unowned == "unowned"   \* owner: None

-----------------------------------------------------------------------------
(* The grid *)

Cells(m) == (0..(m.width - 1)) \X (0..(m.height - 1))

InBounds(m, at) == at \in Cells(m)

Step4 == {<<1, 0>>, <<-1, 0>>, <<0, 1>>, <<0, -1>>}

Shift(at, step) == <<at[1] + step[1], at[2] + step[2]>>

\* What a board is: every layer covers the grid, every token stands on it and
\* has an id of its own, and the numbers on sheets and in rulings are numbers.
IsList(s)  == s \in Seq(Range(s))
IsToken(t) ==
  /\ t = [id |-> t.id, at |-> t.at, facing |-> t.facing, sprite |-> t.sprite, owner |-> t.owner]
  /\ t.id \in Nat \ {0}
IsSheet(s) == \A k \in DOMAIN s : s[k] \in Int

Parts == {"width", "height", "kinds", "ground", "props", "elevation", "tokens", "sheets",
          "defeated", "conditions", "mobility", "counters", "stances"}

IsDocument(m) ==
  /\ DOMAIN m = Parts
  /\ m.width \in Nat /\ m.height \in Nat
  /\ IsList(m.kinds) /\ \A n \in DOMAIN m.kinds : m.kinds[n] = "empty" <=> n = 1
  /\ {m.ground, m.props} \subseteq [Cells(m) -> 0..(Len(m.kinds) - 1)]
  /\ m.elevation \in [Cells(m) -> Nat]
  /\ IsList(m.tokens)
  /\ \A n \in DOMAIN m.tokens : IsToken(m.tokens[n]) /\ m.tokens[n].at \in Cells(m)
  /\ \A n, k \in DOMAIN m.tokens : m.tokens[n].id = m.tokens[k].id => n = k
  /\ \A id \in DOMAIN m.sheets : IsSheet(m.sheets[id])
  /\ \A id \in DOMAIN m.mobility : m.mobility[id][1] \in Nat

\* The cells joined to start through 4-neighbours of its value.
FloodRegion(m, layer, start) ==
  LET alike  == {c \in Cells(m) : layer[c] = layer[start]}
      grow(r) == r \cup {c \in alike : \E s \in Step4 : Shift(c, s) \in r}
      reach[n \in 0..Cardinality(alike)] == IF n = 0 THEN {start} ELSE grow(reach[n - 1])
  IN  IF InBounds(m, start) THEN reach[Cardinality(alike)] ELSE {}

NewMap(width, height) ==
  LET cells == (0..(width - 1)) \X (0..(height - 1))
      blank == [c \in cells |-> 0]
  IN  [width |-> width, height |-> height, kinds |-> <<"empty">>,
       ground |-> blank, props |-> blank, elevation |-> blank, tokens |-> <<>>,
       sheets |-> <<>>, defeated |-> {}, conditions |-> <<>>, mobility |-> <<>>,
       counters |-> <<>>, stances |-> <<>>]

KindName(m, kind) == IF kind < Len(m.kinds) THEN m.kinds[kind + 1] ELSE "empty"

-----------------------------------------------------------------------------
(* Tokens and what is noted about them *)

Ids(m)        == {t.id : t \in Range(m.tokens)}
TokenOf(m, id) == CHOOSE t \in Range(m.tokens) : t.id = id
PlaceOf(m, id) == CHOOSE n \in DOMAIN m.tokens : m.tokens[n].id = id
TokensAt(m, at) == SelectSeq(m.tokens, LAMBDA t : t.at = at)

\* A magnitude of zero or less clears the condition, and the last one gone
\* clears the token's entry.
SetCondition(m, id, name, value) ==
  LET held == Get(m.conditions, id, <<>>)
      now  == IF value > 0 THEN Put(held, name, value) ELSE Drop(held, name)
  IN  [m EXCEPT !.conditions = IF now = <<>> THEN Drop(@, id) ELSE Put(@, id, now)]

SetMobility(m, id, ruling) ==
  [m EXCEPT !.mobility = IF ruling = <<>> THEN Drop(@, id) ELSE Put(@, id, ruling)]

ClearCounters(m, id) == [m EXCEPT !.counters = Drop(@, id)]

\* <<move budget, sight radius>>: the rules' ruling, else the sheet's
\* numbers, never below 0, else the caller's.
EffectiveMobility(m, id, defaults) ==
  LET sheet == Get(m.sheets, id, <<>>)
  IN  IF id \in DOMAIN m.mobility THEN m.mobility[id]
      ELSE <<Max({Get(sheet, "speed", defaults[1]), 0}), Max({Get(sheet, "sight", defaults[2]), 0})>>

-----------------------------------------------------------------------------
(* The walk: breadth first over the eight neighbours, one step each *)

Step8 == <<<<1, 0>>, <<-1, 0>>, <<0, 1>>, <<0, -1>>, <<1, 1>>, <<1, -1>>, <<-1, 1>>, <<-1, -1>>>>

StepUp   == 1
StepDown == 2

\* Mutant: only the climb is checked, never the drop.
ClimbsOnly(m, from, to) == m.elevation[to] <= m.elevation[from] + StepUp
\* At most StepUp higher and StepDown lower.
Climbs(m, from, to) ==
  /\ m.elevation[to] <= m.elevation[from] + StepUp
  /\ m.elevation[from] <= m.elevation[to] + StepDown

Impassable == {"water"}

\* A tile the mover may step on from a neighbour.
Enterable(m, from, to, mover) ==
  /\ InBounds(m, to)
  /\ m.ground[to] # 0 /\ KindName(m, m.ground[to]) \notin Impassable
  /\ Climbs(m, from, to)
  /\ \A t \in Range(m.tokens) : t.at = to => t.id = mover

\* The steps that may be made on the board.
Treads(m, mover) ==
  {step \in {<<c, Shift(c, Step8[k])>> : c \in Cells(m), k \in DOMAIN Step8} :
     Enterable(m, step[1], step[2], mover)}

\* A neighbour not met before is reached from here.
Meet(treads, walk, at, to) ==
  IF to \notin DOMAIN walk.prev /\ <<at, to>> \in treads
  THEN [prev |-> Put(walk.prev, to, at), next |-> Append(walk.next, to)]
  ELSE walk

\* One tile of the frontier: its neighbours in turn.
Explore(treads, walk, at) ==
  LET met[k \in 0..Len(Step8)] ==
        IF k = 0 THEN walk ELSE Meet(treads, met[k - 1], at, Shift(at, Step8[k]))
  IN  met[Len(Step8)]

\* The frontier, tile by tile: what it reaches is the next one.
Wave(treads, walk) ==
  LET met[n \in 0..Len(walk.next)] ==
        IF n = 0 THEN [prev |-> walk.prev, next |-> <<>>]
        ELSE Explore(treads, met[n - 1], walk.next[n])
  IN  met[Len(walk.next)]

\* The frontier after so many waves, and every tile met with the tile it is
\* reached from.
Walked(treads, from, budget) ==
  LET walk[n \in 0..budget] ==
        IF n = 0 THEN [prev |-> [c \in {from} |-> from], next |-> <<from>>]
        ELSE Wave(treads, walk[n - 1])
  IN  walk[budget]

\* Every tile within the budget, with the tile it is reached from.
Reachable(m, from, budget, mover) ==
  IF InBounds(m, from) THEN Walked(Treads(m, mover), from, budget).prev ELSE <<>>

\* The steps to a tile, the origin left out; <<>> when it is not reached.
PathTo(prev, to) ==
  LET path[at \in DOMAIN prev] ==
        IF prev[at] = at THEN <<>> ELSE Append(path[prev[at]], at)
  IN  IF to \in DOMAIN prev THEN path[to] ELSE <<>>

-----------------------------------------------------------------------------
(* Sight *)

Abs(n)  == IF n < 0 THEN -n ELSE n
Sign(n) == IF n > 0 THEN 1 ELSE IF n < 0 THEN -1 ELSE 0

\* Chebyshev: a diagonal step counts one.
Distance(a, b) == Max({Abs(a[1] - b[1]), Abs(a[2] - b[2])})

\* The cells of the drawn line from a to b, both ends included.
Bresenham(a, b) ==
  LET dx == Abs(b[1] - a[1])
      dy == -Abs(b[2] - a[2])
      sx == IF a[1] < b[1] THEN 1 ELSE -1
      sy == IF a[2] < b[2] THEN 1 ELSE -1
      step(pen) ==
        LET e2 == 2 * pen.err
            right == e2 >= dy
            down  == e2 <= dx
        IN  [at  |-> <<pen.at[1] + (IF right THEN sx ELSE 0), pen.at[2] + (IF down THEN sy ELSE 0)>>,
             err |-> pen.err + (IF right THEN dy ELSE 0) + (IF down THEN dx ELSE 0)]
      pen[n \in 0..Distance(a, b)] == IF n = 0 THEN [at |-> a, err |-> dx + dy] ELSE step(pen[n - 1])
  IN  [n \in 1..(Distance(a, b) + 1) |-> pen[n - 1].at]

Opaque == {"tree", "wall"}

\* What stops a line of sight: the edge of the board, an opaque prop, or
\* opaque ground.
Blocks(m, at) ==
  \/ ~InBounds(m, at)
  \/ m.props[at] # 0 /\ KindName(m, m.props[at]) \in Opaque
  \/ m.ground[at] # 0 /\ KindName(m, m.ground[at]) \in Opaque

\* Nothing strictly between the two tiles blocks: a wall itself is seen.
LosClear(m, from, to) ==
  LET line == Bresenham(from, to)
  IN  \A n \in 2..(Len(line) - 1) : ~Blocks(m, line[n])

Disc(origin, r) ==
  {Shift(origin, d) : d \in {d \in (-r..r) \X (-r..r) : d[1] * d[1] + d[2] * d[2] <= r * r}}

VisibleFrom(m, origin, radius) ==
  {origin} \cup {t \in Disc(origin, radius) : InBounds(m, t) /\ LosClear(m, origin, t)}

-----------------------------------------------------------------------------
(* Area templates *)

Burst(m, origin, size) == Disc(origin, size) \cap Cells(m)

\* round(d / length * size), halves away from zero.
Scaled(d, length2, size) ==
  Sign(d) * Max({n \in 0..size : n = 0 \/ (2 * n - 1) * (2 * n - 1) * length2 <= 4 * d * d * size * size})

Line(m, origin, size, toward) ==
  LET d  == <<toward[1] - origin[1], toward[2] - origin[2]>>
      l2 == d[1] * d[1] + d[2] * d[2]
      to == Shift(origin, <<Scaled(d[1], l2, size), Scaled(d[2], l2, size)>>)
  IN  Cells(m) \cap ({origin} \cup (IF l2 = 0 THEN {} ELSE Range(Bresenham(origin, to))))

\* Within 45 degrees of the aim.  A tile exactly on the edge is left out: the
\* doubles of the code round it out for offsets below three tiles, and either
\* way beyond.
Cone(m, origin, size, toward) ==
  LET aim(d) == d[1] * (toward[1] - origin[1]) + d[2] * (toward[2] - origin[2])
      len2(d) == d[1] * d[1] + d[2] * d[2]
      a2     == len2(<<toward[1] - origin[1], toward[2] - origin[2]>>)
      inside(d) == aim(d) > 0 /\ 2 * aim(d) * aim(d) > len2(d) * a2
  IN  Cells(m) \cap ({origin} \cup {t \in Disc(origin, size) :
                                      inside(<<t[1] - origin[1], t[2] - origin[2]>>)})

TemplateTiles(m, origin, kind, size, toward) ==
  CASE kind = "burst" -> Burst(m, origin, size)
    [] kind = "line"  -> Line(m, origin, size, toward)
    [] kind = "cone"  -> Cone(m, origin, size, toward)

-----------------------------------------------------------------------------
(* The projection, in half tiles: x grows by 1 per column, y by 1 per row    *)
(* and falls by 1 per unit of height.                                        *)

TileToScreen(at, elevation) == <<at[1] - at[2], at[1] + at[2] - elevation>>

\* Flat ground only; the halves round away from zero.
HalfUp(n) == Sign(n) * ((Abs(n) + 1) \div 2)
ScreenToTile(point) == <<HalfUp(point[1] + point[2]), HalfUp(point[2] - point[1])>>

DepthKey(at, elevation) == (at[1] + at[2]) * 64 + elevation

-----------------------------------------------------------------------------
(* The board's events, each with its inverse *)

IsEvent(e) ==
  \/ /\ e.kind = "TilePlaced" /\ DOMAIN e = {"kind", "layer", "at", "tile"}
     /\ e.layer \in {"ground", "prop"} /\ e.tile \in Nat
  \/ e.kind = "ElevationSet" /\ DOMAIN e = {"kind", "at", "height"} /\ e.height \in Nat
  \/ e.kind = "TokenPlaced" /\ IsToken(e.token)
  \/ e.kind = "TokenMoved" /\ DOMAIN e = {"kind", "id", "to"}
  \/ e.kind = "TokenFaced" /\ DOMAIN e = {"kind", "id", "facing"}
  \/ e.kind = "TokenRemoved"

Rejects(m, e) ==
  CASE e.kind = "TilePlaced"   -> e.tile >= Len(m.kinds) \/ ~InBounds(m, e.at)
    [] e.kind = "ElevationSet" -> ~InBounds(m, e.at)
    [] e.kind = "TokenPlaced"  -> e.token.id \in Ids(m) \/ ~InBounds(m, e.token.at)
    [] e.kind = "TokenMoved"   -> ~InBounds(m, e.to) \/ e.id \notin Ids(m)
    [] e.kind \in {"TokenFaced", "TokenRemoved"} -> e.id \notin Ids(m)

\* The one token of an id changed, every other token where it was.
Retoken(m, id, change(_)) ==
  [m EXCEPT !.tokens = [n \in DOMAIN @ |-> IF @[n].id = id THEN change(@[n]) ELSE @[n]]]

AppliedTo(m, e) ==
  CASE e.kind = "TilePlaced"   -> IF e.layer = "ground" THEN [m EXCEPT !.ground[e.at] = e.tile]
                                  ELSE [m EXCEPT !.props[e.at] = e.tile]
    [] e.kind = "ElevationSet" -> [m EXCEPT !.elevation[e.at] = e.height]
    [] e.kind = "TokenPlaced"  -> [m EXCEPT !.tokens = Append(@, e.token)]
    [] e.kind = "TokenMoved"   -> Retoken(m, e.id, LAMBDA t : [t EXCEPT !.at = e.to])
    [] e.kind = "TokenFaced"   -> Retoken(m, e.id, LAMBDA t : [t EXCEPT !.facing = e.facing])
    [] e.kind = "TokenRemoved" -> [m EXCEPT !.tokens = RemoveAt(@, PlaceOf(m, e.id))]

\* Mutant: a repainted tile remembers what it becomes, not what it was.
InverseForgets(m, e) ==
  CASE e.kind = "TilePlaced"   -> e
    [] e.kind = "ElevationSet" -> [e EXCEPT !.height = m.elevation[e.at]]
    [] e.kind = "TokenPlaced"  -> [kind |-> "TokenRemoved", id |-> e.token.id]
    [] e.kind = "TokenMoved"   -> [e EXCEPT !.to = TokenOf(m, e.id).at]
    [] e.kind = "TokenFaced"   -> [e EXCEPT !.facing = TokenOf(m, e.id).facing]
    [] e.kind = "TokenRemoved" -> [kind |-> "TokenPlaced", token |-> TokenOf(m, e.id)]
\* What undoes an event on the board it is about to be applied to.
InverseOf(m, e) ==
  CASE e.kind = "TilePlaced"   -> [e EXCEPT !.tile = IF e.layer = "ground" THEN m.ground[e.at]
                                                     ELSE m.props[e.at]]
    [] e.kind = "ElevationSet" -> [e EXCEPT !.height = m.elevation[e.at]]
    [] e.kind = "TokenPlaced"  -> [kind |-> "TokenRemoved", id |-> e.token.id]
    [] e.kind = "TokenMoved"   -> [e EXCEPT !.to = TokenOf(m, e.id).at]
    [] e.kind = "TokenFaced"   -> [e EXCEPT !.facing = TokenOf(m, e.id).facing]
    [] e.kind = "TokenRemoved" -> [kind |-> "TokenPlaced", token |-> TokenOf(m, e.id)]

\* One event of a batch, skipped when it is rejected: the board, and what undoes
\* the events so far, in their order.
After(r, e) ==
  IF Rejects(r.map, e) THEN r
  ELSE [map |-> AppliedTo(r.map, e), inverses |-> Append(r.inverses, InverseOf(r.map, e))]

Run(m, events) ==
  LET ran[n \in 0..Len(events)] ==
        IF n = 0 THEN [map |-> m, inverses |-> <<>>] ELSE After(ran[n - 1], events[n])
  IN  ran[Len(events)]

=============================================================================
