-------------------------------- MODULE World --------------------------------
(***************************************************************************)
(* CampaignWorld as a value: the insert-once registries, the chronicle of   *)
(* history, what the parties know and carry on the road, and the pure       *)
(* readings of it: which storylets can be played and with whom, what a      *)
(* faction does on its downtime turn, what the party's map shows.           *)
(*                                                                          *)
(* Registry entries are records of the fields the operations read; text is  *)
(* a model value where two entries of one id may differ.                    *)
(***************************************************************************)
EXTENDS Overmap, Keyed

\* The insert-once registries, and the numbers and positions beside them.
Registry == {"factions", "places", "characters", "routes", "laws", "storylets"}

EmptyWorld ==
  [r \in Registry \cup {"sheets", "control", "at", "pace", "known", "stores"} |-> <<>>]
    @@ [history |-> <<>>]

-----------------------------------------------------------------------------
(* Reading *)

\* A projection of the places and routes; an unweighted route costs 1.
WorldMap(w) ==
  [nodes |-> DOMAIN w.places,
   edges |-> {[from |-> r.from, to |-> r.to, weight |-> Max({r.weight, 1}), directed |-> FALSE] :
                r \in Range(w.routes)}]

Knows(w, party) == Get(w.known, party, {})

\* What a party has found, and the routes between two found places.
MapFor(w, party) ==
  IF party \notin DOMAIN w.known THEN EmptyOvermap
  ELSE [nodes |-> WorldMap(w).nodes \cap Knows(w, party),
        edges |-> {e \in WorldMap(w).edges : {e.from, e.to} \subseteq Knows(w, party)}]

Pace(w, party) == Get(w.pace, party, 100)

\* Ticks to a place at the party's pace, 0 when it cannot be reached.
TravelCost(w, party, from, to) ==
  LET route == Route(WorldMap(w), from, to)
  IN  IF route = NoRoute THEN 0
      ELSE Max({(route.cost * Max({Pace(w, party), 1})) \div 100, 1})

StoreOf(w, party, key) == Get(Get(w.stores, party, <<>>), key, 0)

Sheet(w, faction, key) == Get(Get(w.sheets, faction, <<>>), key, 0)

-----------------------------------------------------------------------------
(* Writing *)

\* Mutant: a later entry takes the place of an earlier one.
InsertsAny(map, id, value) == id # NoId
\* An entry under a known id must be the same entry.
InsertsSame(map, id, value) == id # NoId /\ (id \in DOMAIN map => map[id] = value)

AcceptsWorld(w, e) ==
  CASE e.kind \in Registry ->
         /\ InsertsSame(w[e.kind], e.id, e.value)
         /\ e.kind = "routes" => {e.value.from, e.value.to} \subseteq DOMAIN w.places
    [] e.kind = "history" -> \A h \in Range(w.history) : h.id = e.value.id => h = e.value
    [] OTHER -> TRUE

\* Pushed, then a stable sort by time.
Chronicled(history, event) ==
  IF event \in Range(history) THEN history
  ELSE SelectSeq(history, LAMBDA h : h.time <= event.time) \o <<event>>
         \o SelectSeq(history, LAMBDA h : h.time > event.time)

Reveal(w, party, places) == [w EXCEPT !.known = Put(@, party, Knows(w, party) \cup places)]

\* Arriving somewhere shows it and everywhere one route on.
DiscoverAround(w, party, place) ==
  Reveal(w, party, {place} \cup {n[1] : n \in Neighbours(WorldMap(w), place)})

\* A store that reaches zero is dropped, and so is a party with no stores.
AddToStore(w, party, key, delta) ==
  LET amount == StoreOf(w, party, key) + delta
      store  == Get(w.stores, party, <<>>)
      kept   == IF amount <= 0 THEN Drop(store, key) ELSE Put(store, key, amount)
  IN  [w EXCEPT !.stores = IF kept = <<>> THEN Drop(@, party) ELSE Put(@, party, kept)]

AppliedWorld(w, e) ==
  CASE e.kind \in Registry -> [w EXCEPT ![e.kind] = Put(@, e.id, e.value)]
    [] e.kind = "history"  -> [w EXCEPT !.history = Chronicled(@, e.value)]
    [] e.kind = "sheet"    -> [w EXCEPT !.sheets = Put(@, e.faction, e.sheet)]
    [] e.kind = "control"  -> [w EXCEPT !.control = IF e.player = NoId THEN Drop(@, e.faction)
                                                    ELSE Put(@, e.faction, e.player)]
    [] e.kind = "moved"    -> DiscoverAround([w EXCEPT !.at = Put(@, e.party, e.place)],
                                             e.party, e.place)
    [] e.kind = "pace"     -> [w EXCEPT !.pace = Put(@, e.party, e.pace)]
    [] e.kind = "revealed" -> Reveal(w, e.party, {e.place})

-----------------------------------------------------------------------------
(* Storylets: [needs, hidden, laws : sets; roles : sequence of             *)
(* [key, tags]; effects : sequence].                                        *)

\* The first character in id order that is free and carries every tag.
CastRole(w, used, role) ==
  SelectSeq(InOrder(DOMAIN w.characters),
            LAMBDA c : c \notin used /\ role.tags \subseteq Range(w.characters[c].tags))

\* Roles are cast one after another, with no second thoughts: the characters
\* cast so far, cut short at the first role nobody fits.
Cast(w, storylet) ==
  FoldLeft(LAMBDA cast, role :
             LET fits == CastRole(w, Range(cast), role)
             IN  IF fits = <<>> THEN cast ELSE Append(cast, Head(fits)),
           <<>>, storylet.roles)

Playable(w, storylet, hidden) ==
  /\ \A tag \in storylet.needs : \E f \in DOMAIN w.factions : tag \in Range(w.factions[f].tags)
  /\ storylet.hidden \subseteq hidden
  /\ storylet.laws \subseteq DOMAIN w.laws
  /\ Len(Cast(w, storylet)) = Len(storylet.roles)

-----------------------------------------------------------------------------
(* Faction turns *)

BankPerMove   == 10
MaxExtraMoves == 3

\* from_draw: the five verbs in the order a draw picks them.
Verb == <<"expand", "scheme", "raid", "court", "fracture">>

\* The last segment of an identifier a move mints, in their spelled order.
Ally == 1  Hold == 2  Demand == 3  Line == 4  Scheme == 5  Splinter == 6

Minted(faction, what, tick, nonce) == faction \o <<what, tick, nonce>>

MoveBudget(w, faction) ==
  LET extra == Sheet(w, faction, "banked_time") \div BankPerMove
  IN  1 + Max({0, Min({extra, MaxExtraMoves})})

\* The first of a faction's tags, the one a storylet of its asks for.
FirstTag(faction) == IF faction.tags = <<>> THEN {} ELSE {Head(faction.tags)}

OpenStorylet(faction) ==
  [needs |-> FirstTag(faction), hidden |-> {}, laws |-> {}, roles |-> <<>>, effects |-> <<>>]

NoChange == [kind |-> "none"]

\* What a move changes, if anything.  Names and texts are the nonce's.
MoveChange(w, id, verb, tick, nonce) ==
  LET faction == w.factions[id]
      entry(registry, what, value) ==
        [kind |-> registry, id |-> Minted(id, what, tick, nonce), value |-> value]
  IN  CASE verb = "court"    -> entry("characters", Ally, [tags |-> faction.tags])
        [] verb = "fracture" -> entry("factions", Splinter, [tags |-> Append(faction.tags, "splinter")])
        [] verb = "expand"   -> entry("places", Hold, [map |-> NoId])
        [] verb = "scheme"   -> entry("storylets", Scheme, OpenStorylet(faction))
        [] verb = "raid"     -> NoChange

BuildMove(w, id, verb, tick, nonce) ==
  [faction |-> id,
   history |-> [id |-> Minted(id, Line, tick, nonce), time |-> tick, text |-> verb],
   change  |-> MoveChange(w, id, verb, tick, nonce)]

\* Whose moves a turn makes: every faction in id order, once per move earned.
Movers(w) ==
  FlattenSeq([n \in DOMAIN InOrder(DOMAIN w.factions) |->
    [m \in 1..MoveBudget(w, InOrder(DOMAIN w.factions)[n]) |-> InOrder(DOMAIN w.factions)[n]]])

\* The batch for a tape of draws, one <<verb, nonce>> per move.
FactionTurn(w, tick, tape) ==
  [n \in DOMAIN Movers(w) |-> BuildMove(w, Movers(w)[n], Verb[tape[n][1]], tick, tape[n][2])]

\* The events a move commits: its line of history, then its change.
MoveEvents(move) ==
  <<[kind |-> "history", value |-> move.history]>>
    \o (IF move.change = NoChange THEN <<>> ELSE <<move.change>>)

\* A storylet per thing a standing faction wants more of than it has.
RadiantQuests(w, things) ==
  LET wanting(f) == {n \in DOMAIN things : /\ things[n].want \in DOMAIN w.sheets[f]
                                           /\ w.sheets[f][things[n].want] > Sheet(w, f, things[n].have)}
  IN  UNION {{[kind |-> "storylets", id |-> f \o <<Demand, n>>, value |-> OpenStorylet(w.factions[f])] :
                n \in wanting(f)} : f \in DOMAIN w.sheets \cap DOMAIN w.factions}

-----------------------------------------------------------------------------
(* Campaign drafts: [id, world, maps, secrets, rewards, start, final], maps  *)
(* a sequence of [id, sound] and sound a map that lowers.                    *)

RegistryEvents(w, registry) ==
  [n \in DOMAIN InOrder(DOMAIN w[registry]) |->
     LET id == InOrder(DOMAIN w[registry])[n]
     IN  [kind |-> registry, id |-> id, value |-> w[registry][id]]]

\* A world's public half as the events that rebuild it.
PublicEvents(w) ==
  RegistryEvents(w, "factions") \o RegistryEvents(w, "places") \o RegistryEvents(w, "characters")
    \o RegistryEvents(w, "routes") \o RegistryEvents(w, "laws")
    \o [n \in DOMAIN w.history |-> [kind |-> "history", value |-> w.history[n]]]
    \o RegistryEvents(w, "storylets")

\* Every event accepted where it stands, from w on.
AcceptsAll(w, events) ==
  LET worlds[n \in 0..Len(events)] == IF n = 0 THEN w ELSE AppliedWorld(worlds[n - 1], events[n])
  IN  \A n \in DOMAIN events : AcceptsWorld(worlds[n - 1], events[n])

SoundDraft(draft) ==
  /\ draft.id # NoId
  /\ \E n \in DOMAIN draft.maps : draft.maps[n].id = draft.start
  /\ draft.final \in DOMAIN draft.world.storylets
  /\ AcceptsAll(EmptyWorld, PublicEvents(draft.world))
  /\ \A n \in DOMAIN draft.maps : draft.maps[n].sound
  /\ IsInjective([n \in DOMAIN draft.maps |-> draft.maps[n].id])
=============================================================================
