------------------------------ MODULE Campaign ------------------------------
(***************************************************************************)
(* The campaign half of a host session: the items tokens carry, the        *)
(* host-private store of secrets, the game events that touch them, and the *)
(* commands that commit a batch of such events at once.                    *)
(*                                                                         *)
(* A game is what a snapshot holds of this; a session is a game with the   *)
(* private store and the committed events.  Every command is an operator   *)
(* from the session it finds to the one it leaves.                         *)
(***************************************************************************)
EXTENDS World

\* A Vec, whatever is in it.
IsList(s) == s \in Seq(Range(s))

(* An inventory is [items, equipped]: instances by item id, ids by slot.   *)
(* An instance is [template, charts, mods]: charts the places its reveals: *)
(* tags disclose, mods a sequence of [id, text].                           *)
IsInstance(item) == DOMAIN item = {"template", "charts", "mods"} /\ IsList(item.mods)
IsInventory(inv) ==
  DOMAIN inv = {"items", "equipped"} /\ \A id \in DOMAIN inv.items : IsInstance(inv.items[id])

NoItems == [items |-> <<>>, equipped |-> <<>>]

Carried(g, token) == Get(g.inventories, token, NoItems)

Inserted(inv, id, item) == [inv EXCEPT !.items = Put(@, id, item)]

Equipped(inv, slot, id) == [inv EXCEPT !.equipped = Put(@, slot, id)]

\* A whole instance leaves, and nothing it was worn in still names it.
Taken(inv, id) ==
  [items    |-> Drop(inv.items, id),
   equipped |-> [s \in {x \in DOMAIN inv.equipped : inv.equipped[x] # id} |-> inv.equipped[s]]]

\* Inventory::validate: what is worn is carried.
Worn(inv) == Range(inv.equipped) \subseteq DOMAIN inv.items

Holders(g, item) == {t \in DOMAIN g.inventories : item \in DOMAIN g.inventories[t].items}

ModifierIds(item) == {m.id : m \in Range(item.mods)}

\* Adding a revealed modifier: the same again is nothing new, another under
\* its id is a conflict.
Attaches(item, mod) == mod.id \in ModifierIds(item) => mod \in Range(item.mods)

Attached(item, mod) == IF mod.id \in ModifierIds(item) THEN item
                       ELSE [item EXCEPT !.mods = Append(@, mod)]

-----------------------------------------------------------------------------
(* Game events, through apply_game *)

\* Mutant: an inventory is set without looking at the others.
UnheldBefore(g, token, inv) == TRUE
\* Another owner may not hold any item of an inventory that is set.
Unheld(g, token, inv) ==
  \A other \in DOMAIN g.inventories \ {token} :
    DOMAIN inv.items \cap DOMAIN g.inventories[other].items = {}

Accepts(g, e) ==
  CASE e.kind = "world"      -> AcceptsWorld(g.world, e.event)
    [] e.kind = "fact"       -> e.fact.id = NoId \/ \A f \in Range(g.journal) :
                                                       f.id = e.fact.id => f = e.fact
    [] e.kind = "inventory"  -> /\ e.token \in g.board /\ IsInventory(e.inv)
                                /\ Worn(e.inv) /\ Unheld(g, e.token, e.inv)
    [] e.kind = "transfer"   -> /\ {e.from, e.to} \subseteq g.board /\ e.from # e.to
                                /\ e.item \in DOMAIN Carried(g, e.from).items
                                /\ e.item \notin DOMAIN Carried(g, e.to).items
    [] e.kind = "modifier"   -> /\ Holders(g, e.item) # {}
                                /\ Attaches(g.inventories[Min(Holders(g, e.item))].items[e.item], e.mod)
    [] e.kind = "generation" -> InsertsSame(g.generations, e.id, e.proposal)
    [] e.kind = "map"        -> InsertsSame(g.maps, e.id, {})
    [] e.kind = "activate"   -> e.id \in DOMAIN g.maps
    [] e.kind = "placed"     -> e.token \in Nat \ g.board
    [] e.kind = "sheet"      -> TRUE
    [] e.kind = "turn"       -> e.token \in g.board
    [] OTHER                 -> FALSE

Transferred(g, e) ==
  LET item  == Carried(g, e.from).items[e.item]
      taken == Put(g.inventories, e.from, Taken(Carried(g, e.from), e.item))
  IN  [g EXCEPT !.inventories = Put(taken, e.to, Inserted(Carried(g, e.to), e.item, item))]

Applied(g, e) ==
  CASE e.kind = "world"      -> [g EXCEPT !.world = AppliedWorld(@, e.event)]
    [] e.kind = "fact"       -> [g EXCEPT !.journal = IF e.fact.id # NoId /\ e.fact \in Range(@)
                                                      THEN @ ELSE Append(@, e.fact)]
    [] e.kind = "inventory"  -> [g EXCEPT !.inventories = Put(@, e.token, e.inv)]
    [] e.kind = "transfer"   -> Transferred(g, e)
    [] e.kind = "modifier"   -> [g EXCEPT !.inventories[Min(Holders(g, e.item))].items[e.item]
                                            = Attached(@, e.mod)]
    [] e.kind = "generation" -> [g EXCEPT !.generations = Put(@, e.id, e.proposal)]
    [] e.kind = "map"        -> [g EXCEPT !.maps = IF e.id \in DOMAIN @ THEN @ ELSE Put(@, e.id, {})]
    [] e.kind = "activate"   -> [g EXCEPT !.board = g.maps[e.id], !.active = e.id]
    [] e.kind = "placed"     -> [g EXCEPT !.board = @ \cup {e.token},
                                          !.maps = IF g.active = NoId THEN @
                                                   ELSE [@ EXCEPT ![g.active] = g.board \cup {e.token}]]
    [] e.kind = "sheet"      -> [g EXCEPT !.sheets = Put(@, e.token, e.sheet)]
    [] e.kind = "turn"       -> g   \* the turn order, which nothing here reads

World(event) == [kind |-> "world", event |-> event]

\* What a game is, as far as items, tokens and the journal go.
SoundGame(g) ==
  /\ DOMAIN g = {"world", "journal", "inventories", "generations", "maps", "active", "board", "sheets"}
  /\ g.board \subseteq Nat /\ \A id \in DOMAIN g.maps : g.maps[id] \subseteq Nat
  /\ IsList(g.journal)
  /\ DOMAIN g.inventories \subseteq Nat
  /\ \A t \in DOMAIN g.inventories : IsInventory(g.inventories[t])

-----------------------------------------------------------------------------
(* The session: [game, log, store]; the store is [secrets, pending,        *)
(* mods, pendingMods].                                                     *)

EmptyStore == [secrets |-> <<>>, pending |-> <<>>, mods |-> <<>>, pendingMods |-> <<>>]

TryCommit(s, e) == [s EXCEPT !.game = Applied(@, e), !.log = Append(@, e)]

\* The game a batch starts from, and the game after each of its events.
GamesAlong(g, events) ==
  LET games[n \in 0..Len(events)] == IF n = 0 THEN g ELSE Applied(games[n - 1], events[n])
  IN  games
AfterAll(g, events) == GamesAlong(g, events)[Len(events)]

\* Every event of a batch is tried on a copy of the game first.
AllAccepted(g, events) ==
  IsList(events) /\ \A n \in DOMAIN events : Accepts(GamesAlong(g, events)[n - 1], events[n])

\* Mutant: the events go straight to the log, and the first refused one stops them.
CommitAsGoes(s, events) ==
  FoldLeft(LAMBDA at, e : IF at.over \/ ~Accepts(at.s.game, e) THEN [at EXCEPT !.over = TRUE]
                          ELSE [at EXCEPT !.s = TryCommit(@, e)],
           [s |-> s, over |-> FALSE], events).s
\* A batch that passes its preview is committed, event by event.
CommitBatch(s, events) ==
  IF AllAccepted(s.game, events)
  THEN [s EXCEPT !.game = AfterAll(@, events), !.log = @ \o events] ELSE s

LocalEvent(s, e) == IF Accepts(s.game, e) THEN TryCommit(s, e) ELSE s

\* The public face of a secret.
RevealedFact(secret) == [id |-> secret.id, text |-> secret.text]

\* A reveal: prepared, committed, finished, or put back when it is refused.
BeginReveal(store, id) ==
  [store EXCEPT !.secrets = Drop(@, id), !.pending = Put(@, id, store.secrets[id])]
FinishReveal(store, id) == [store EXCEPT !.pending = Drop(@, id)]
AbortReveal(store, id) ==
  [store EXCEPT !.pending = Drop(@, id), !.secrets = Put(@, id, store.pending[id])]

\* Mutant: a refused reveal is finished like a committed one.
RevealForgets(s, id) ==
  IF id \notin DOMAIN s.store.secrets THEN s
  ELSE LET began == [s EXCEPT !.store = BeginReveal(@, id)]
           fact  == [kind |-> "fact", fact |-> RevealedFact(s.store.secrets[id])]
       IN  IF Accepts(began.game, fact)
           THEN [TryCommit(began, fact) EXCEPT !.store = FinishReveal(@, id)]
           ELSE [began EXCEPT !.store = FinishReveal(@, id)]
RevealSecret(s, id) ==
  IF id \notin DOMAIN s.store.secrets THEN s
  ELSE LET began == [s EXCEPT !.store = BeginReveal(@, id)]
           fact  == [kind |-> "fact", fact |-> RevealedFact(s.store.secrets[id])]
       IN  IF Accepts(began.game, fact)
           THEN [TryCommit(began, fact) EXCEPT !.store = FinishReveal(@, id)]
           ELSE [began EXCEPT !.store = AbortReveal(@, id)]

\* The same for a generated item's hidden modifier.
BeginModifier(store, id) ==
  [store EXCEPT !.mods = Drop(@, id), !.pendingMods = Put(@, id, store.mods[id])]
FinishModifier(store, id) == [store EXCEPT !.pendingMods = Drop(@, id)]
AbortModifier(store, id) ==
  [store EXCEPT !.pendingMods = Drop(@, id), !.mods = Put(@, id, store.pendingMods[id])]

RevealModifier(s, id) ==
  IF id \notin DOMAIN s.store.mods THEN s
  ELSE LET began == [s EXCEPT !.store = BeginModifier(@, id)]
           event == [kind |-> "modifier", item |-> s.store.mods[id].item, mod |-> s.store.mods[id].mod]
       IN  IF Accepts(began.game, event)
           THEN [TryCommit(began, event) EXCEPT !.store = FinishModifier(@, id)]
           ELSE [began EXCEPT !.store = AbortModifier(@, id)]

-----------------------------------------------------------------------------
(* Storylets.  Owner NoOwner stands for no recipient.                      *)

NoOwner == 0

PlainItem(template, charts) == [template |-> template, charts |-> charts, mods |-> <<>>]

\* The first unused id for the index-th effect of a storylet.
GrantId(inv, key, index) ==
  LET id(n) == IF n = 0 THEN <<"storylet", key, index>> ELSE <<"storylet", key, index, n>>
  IN  id(Min({n \in 0..Cardinality(DOMAIN inv.items) : id(n) \notin DOMAIN inv.items}))

\* The events an effect becomes, from the game as it was before the batch.
EffectEvents(g, key, index, effect, owner) ==
  CASE effect.kind = "fact"    -> <<[kind |-> "fact", fact |-> effect.fact]>>
    [] effect.kind = "history" -> <<World([kind |-> "history", value |-> effect.event])>>
    [] effect.kind = "map"     -> <<[kind |-> "map", id |-> effect.id]>>
    [] effect.kind = "item"    ->
         <<[kind |-> "inventory", token |-> owner,
            inv |-> Inserted(Carried(g, owner), GrantId(Carried(g, owner), key, index),
                             PlainItem(effect.template, effect.charts))]>>

\* An effect that cannot become an event at all fails the storylet.
EffectSound(effect, owner) ==
  /\ effect.kind = "map" => effect.sound
  /\ effect.kind = "item" => owner # NoOwner

CommitStorylet(s, key, owner) ==
  IF key \notin DOMAIN s.game.world.storylets THEN s
  ELSE LET storylet == s.game.world.storylets[key]
           effects  == storylet.effects
           events   == FlattenSeq([n \in DOMAIN effects |->
                                     EffectEvents(s.game, key, n, effects[n], owner)])
       IN  IF /\ Playable(s.game.world, storylet, DOMAIN s.store.secrets)
              /\ \A n \in DOMAIN effects : EffectSound(effects[n], owner)
           THEN CommitBatch(s, events) ELSE s

-----------------------------------------------------------------------------
(* Faction turns, quests, drafts *)

\* Mutant: the moves are committed and the bank is left as it was.
SpendsNothing(w, moves) == <<>>
\* The bank of every faction that acts and has anything banked is emptied.
Spends(w, moves) ==
  LET acted == {m.faction : m \in Range(moves)}
      banked == {f \in acted : Sheet(w, f, "banked_time") # 0}
  IN  [n \in DOMAIN InOrder(banked) |->
         World([kind |-> "sheet", faction |-> InOrder(banked)[n],
                sheet |-> Put(w.sheets[InOrder(banked)[n]], "banked_time", 0)])]

CommitFactionTurn(s, moves) ==
  LET events == FlattenSeq([n \in DOMAIN moves |-> MoveEvents(moves[n])])
  IN  CommitBatch(s, [n \in DOMAIN events |-> World(events[n])] \o Spends(s.game.world, moves))

CommitRadiantQuests(s, quests) == CommitBatch(s, [n \in DOMAIN quests |-> World(quests[n])])

\* The rewards of a draft, all in the owner's inventory at once.
RewardEvents(g, draft, owner) ==
  LET rewards == draft.rewards
      id(n)   == <<"reward", draft.id, n>>
      inv     == Carried(g, owner)
  IN  IF rewards = <<>> THEN <<>>
      ELSE <<[kind |-> "inventory", token |-> owner,
              inv |-> [inv EXCEPT !.items =
                         [i \in {id(n) : n \in DOMAIN rewards} |-> PlainItem(rewards[i[3]], {})] @@ @]]>>

DraftEvents(g, record, owner) ==
  LET draft == record.draft
  IN  <<[kind |-> "generation", id |-> record.id, proposal |-> draft.id]>>
        \o [n \in DOMAIN PublicEvents(draft.world) |-> World(PublicEvents(draft.world)[n])]
        \o [n \in DOMAIN draft.maps |-> [kind |-> "map", id |-> draft.maps[n].id]]
        \o RewardEvents(g, draft, owner)
        \o <<[kind |-> "activate", id |-> draft.start]>>

\* What keeps a draft out before any of its events is tried.
DraftRefused(s, draft, owner) ==
  \/ ~SoundDraft(draft)
  \/ \E id \in DOMAIN draft.secrets : id \in DOMAIN s.store.secrets /\ s.store.secrets[id] # draft.secrets[id]
  \/ draft.rewards # <<>> /\ owner = NoOwner
  \/ \E n \in DOMAIN draft.rewards : <<"reward", draft.id, n>> \in DOMAIN Carried(s.game, owner).items

\* Public half to the log, hidden facts to the private store, or neither.
CommitCampaign(s, record, owner) ==
  LET events == DraftEvents(s.game, record, owner)
  IN  IF DraftRefused(s, record.draft, owner) \/ ~AllAccepted(s.game, events) THEN s
      ELSE [CommitBatch(s, events) EXCEPT !.store.secrets = Join(s.store.secrets, record.draft.secrets)]
=============================================================================
