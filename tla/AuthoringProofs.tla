--------------------------- MODULE AuthoringProofs ---------------------------
(***************************************************************************)
(* Proofs about the host at the table (Authoring): in a session every item  *)
(* is in one pack, and no secret is lost on its way to the table.           *)
(***************************************************************************)
EXTENDS Authoring, Induction, SequenceTheorems

\* A list and one more is a list, with one more in it.
LEMMA ListAppend ==
  ASSUME NEW s, IsList(s), NEW e
  PROVE  IsList(Append(s, e)) /\ Range(Append(s, e)) = Range(s) \cup {e}
<1> DEFINE R == Range(s)
           T == R \cup {e}
<1>1. s \in Seq(R)
  BY DEF IsList
<1>2. DOMAIN s = 1..Len(s) => R = {s[i] : i \in 1..Len(s)}
  BY DEF Range
<1> HIDE DEF R
<1>3. Len(s) \in Nat /\ DOMAIN s = 1..Len(s)
  BY <1>1
<1>4. s \in Seq(T) /\ e \in T
  <2>1. R \subseteq T
    OBVIOUS
  <2> HIDE DEF T
  <2>2. s \in Seq(T)
    BY <1>1, <2>1
  <2> QED BY <2>2 DEF T
<1> HIDE DEF T
<1>5. /\ Append(s, e) \in Seq(T)
      /\ DOMAIN Append(s, e) = 1..(Len(s) + 1)
      /\ Append(s, e)[Len(s) + 1] = e
      /\ \A i \in 1..Len(s) : Append(s, e)[i] = s[i]
  BY <1>4, AppendProperties
<1>6. Range(Append(s, e)) = {Append(s, e)[i] : i \in 1..(Len(s) + 1)}
  BY <1>5 DEF Range
<1>7. 1..(Len(s) + 1) = 1..Len(s) \cup {Len(s) + 1}
  BY <1>3
<1>8. Range(Append(s, e)) = T
  BY <1>2, <1>3, <1>5, <1>6, <1>7 DEF T
<1> QED BY <1>5, <1>8 DEF IsList, T, R

-----------------------------------------------------------------------------
(* Inventories *)

\* The fields of a game that items, tokens and the journal are in.
Kept4(g, h) ==
  DOMAIN h = DOMAIN g /\ h.board = g.board /\ h.maps = g.maps /\ h.journal = g.journal

LEMMA CarriedIsInventory ==
  ASSUME NEW g, SoundGame(g), NEW t PROVE IsInventory(Carried(g, t))
<1>1. IsInventory(NoItems)
  BY DEF IsInventory, NoItems
<1> QED BY <1>1 DEF Carried, Get, SoundGame

LEMMA InsertedIsInventory ==
  ASSUME NEW inv, IsInventory(inv), NEW id, NEW item, IsInstance(item)
  PROVE  /\ IsInventory(Inserted(inv, id, item))
         /\ DOMAIN Inserted(inv, id, item).items = DOMAIN inv.items \cup {id}
         /\ Inserted(inv, id, item).equipped = inv.equipped
<1> DEFINE new == Inserted(inv, id, item)
<1>1. DOMAIN new = {"items", "equipped"} /\ new.items = Put(inv.items, id, item) /\ new.equipped = inv.equipped
  BY DEF Inserted, IsInventory
<1> HIDE DEF new
<1>2. DOMAIN new.items = DOMAIN inv.items \cup {id}
  BY <1>1 DEF Put
<1>3. \A i \in DOMAIN new.items : IsInstance(new.items[i])
  BY <1>1, <1>2 DEF IsInventory, Put
<1> QED BY <1>1, <1>2, <1>3 DEF IsInventory, new

LEMMA PlainIsInstance ==
  ASSUME NEW template, NEW charts PROVE IsInstance(PlainItem(template, charts))
<1>1. IsList(<<>>)
  BY DEF IsList
<1> QED BY <1>1 DEF IsInstance, PlainItem

\* Worn or taken off, the instances are the same.
LEMMA EquippedIsInventory ==
  ASSUME NEW inv, IsInventory(inv), NEW worn
  PROVE  IsInventory([inv EXCEPT !.equipped = worn])
<1> DEFINE new == [inv EXCEPT !.equipped = worn]
<1>1. DOMAIN new = {"items", "equipped"} /\ new.items = inv.items
  BY DEF IsInventory
<1> QED BY <1>1 DEF IsInventory

\* What is taken leaves the pack and nothing wears it.
LEMMA TakenIsInventory ==
  ASSUME NEW inv, IsInventory(inv), NEW id
  PROVE  /\ IsInventory(Taken(inv, id))
         /\ DOMAIN Taken(inv, id).items = DOMAIN inv.items \ {id}
         /\ Worn(inv) => Worn(Taken(inv, id))
<1> DEFINE new == Taken(inv, id)
           worn == [s \in {x \in DOMAIN inv.equipped : inv.equipped[x] # id} |-> inv.equipped[s]]
<1>1. DOMAIN new = {"items", "equipped"} /\ new.items = Drop(inv.items, id) /\ new.equipped = worn
  BY DEF Taken
<1>2. DOMAIN new.items = DOMAIN inv.items \ {id}
  BY <1>1 DEF Drop
<1>3. \A i \in DOMAIN new.items : new.items[i] = inv.items[i]
  BY <1>1, <1>2 DEF Drop
<1>4. IsInventory(new)
  BY <1>1, <1>2, <1>3 DEF IsInventory
<1>5. ASSUME Worn(inv) PROVE Worn(new)
  <2>1. \A s \in DOMAIN worn : worn[s] # id /\ worn[s] \in DOMAIN inv.items
    BY <1>5 DEF Worn, Range
  <2> QED BY <1>1, <1>2, <2>1 DEF Worn, Range
<1> QED BY <1>2, <1>4, <1>5

-----------------------------------------------------------------------------
(* One event *)

\* Inventories replaced by inventories leave a game a game.
LEMMA InventoriesSet ==
  ASSUME NEW g, SoundGame(g), NEW packs, DOMAIN packs \subseteq Nat,
         \A t \in DOMAIN packs : IsInventory(packs[t])
  PROVE  SoundGame([g EXCEPT !.inventories = packs])
<1> DEFINE h == [g EXCEPT !.inventories = packs]
<1>1. Kept4(g, h) /\ h.inventories = packs
  BY DEF SoundGame, Kept4
<1> HIDE DEF h
<1>2. SoundGame(h)
  BY <1>1 DEF SoundGame, Kept4
<1> QED BY <1>2 DEF h

\* A change that leaves all of that alone leaves a game a game and the items apart.
LEMMA OtherFields ==
  ASSUME NEW g, SoundGame(g), NEW h, Kept4(g, h), h.inventories = g.inventories
  PROVE  SoundGame(h) /\ (Apart(g) => Apart(h))
BY DEF SoundGame, Kept4, Apart, Disjoint

\* An inventory that holds no other's items and wears what it holds may be set.
LEMMA SetApart ==
  ASSUME NEW g, SoundGame(g), NEW h, NEW t \in Nat, NEW inv, IsInventory(inv), Worn(inv),
         Unheld(g, t, inv), Kept4(g, h), h.inventories = Put(g.inventories, t, inv)
  PROVE  SoundGame(h) /\ (Apart(g) => Apart(h))
<1>1. /\ DOMAIN h.inventories = DOMAIN g.inventories \cup {t}
      /\ h.inventories[t] = inv
      /\ \A u \in DOMAIN g.inventories \ {t} : h.inventories[u] = g.inventories[u]
  BY DEF Put
<1>2. SoundGame(h)
  BY <1>1 DEF SoundGame, Kept4
<1>3. ASSUME Apart(g) PROVE Apart(h)
  <2>1. \A u \in DOMAIN h.inventories : Worn(h.inventories[u])
    BY <1>1, <1>3 DEF Apart
  <2>2. ASSUME NEW u \in DOMAIN h.inventories, NEW v \in DOMAIN h.inventories, u # v
        PROVE  DOMAIN h.inventories[u].items \cap DOMAIN h.inventories[v].items = {}
    <3>1. CASE u = t
      BY <1>1, <2>2, <3>1 DEF Unheld
    <3>2. CASE v = t
      BY <1>1, <2>2, <3>2 DEF Unheld
    <3>3. CASE u # t /\ v # t
      BY <1>1, <1>3, <2>2, <3>3 DEF Apart, Disjoint
    <3> QED BY <3>1, <3>2, <3>3
  <2> QED BY <2>1, <2>2 DEF Apart, Disjoint
<1> QED BY <1>2, <1>3

\* A transfer moves an item from one pack to another.
LEMMA TransferApart ==
  ASSUME NEW g, SoundGame(g), NEW e, {e.from, e.to} \subseteq g.board, e.from # e.to,
         e.item \in DOMAIN Carried(g, e.from).items
  PROVE  LET h == Transferred(g, e)
         IN  /\ SoundGame(h) /\ (Apart(g) => Apart(h))
             /\ DOMAIN h.inventories \subseteq Nat
             /\ \A t \in DOMAIN h.inventories : IsInventory(h.inventories[t])
<1> DEFINE h     == Transferred(g, e)
           item  == Carried(g, e.from).items[e.item]
           gave  == Taken(Carried(g, e.from), e.item)
           got   == Inserted(Carried(g, e.to), e.item, item)
           taken == Put(g.inventories, e.from, gave)
           packs == Put(taken, e.to, got)
<1>1. IsInventory(Carried(g, e.from)) /\ IsInventory(Carried(g, e.to)) /\ IsInstance(item)
  <2>1. IsInventory(Carried(g, e.from)) /\ IsInventory(Carried(g, e.to))
    BY CarriedIsInventory
  <2> QED BY <2>1 DEF IsInventory
<1>2. h = [g EXCEPT !.inventories = packs]
  BY DEF Transferred
<1>3. /\ IsInventory(gave)
      /\ DOMAIN gave.items = DOMAIN Carried(g, e.from).items \ {e.item}
      /\ Worn(Carried(g, e.from)) => Worn(gave)
  BY <1>1, TakenIsInventory
<1>4. /\ IsInventory(got)
      /\ DOMAIN got.items = DOMAIN Carried(g, e.to).items \cup {e.item}
      /\ got.equipped = Carried(g, e.to).equipped
  BY <1>1, InsertedIsInventory
<1> HIDE DEF item, gave, got
<1>5. /\ DOMAIN packs = DOMAIN g.inventories \cup {e.from, e.to}
      /\ packs[e.from] = gave /\ packs[e.to] = got
      /\ \A u \in DOMAIN g.inventories \ {e.from, e.to} : packs[u] = g.inventories[u]
  <2>1. /\ DOMAIN taken = DOMAIN g.inventories \cup {e.from}
        /\ taken[e.from] = gave
        /\ \A u \in DOMAIN g.inventories \ {e.from} : taken[u] = g.inventories[u]
    BY DEF Put
  <2> HIDE DEF taken
  <2>2. /\ DOMAIN packs = DOMAIN taken \cup {e.to}
        /\ packs[e.to] = got
        /\ \A u \in DOMAIN taken \ {e.to} : packs[u] = taken[u]
    BY DEF Put
  <2> HIDE DEF packs
  <2> QED BY <2>1, <2>2
<1> HIDE DEF packs
<1>6. DOMAIN packs \subseteq Nat /\ \A t \in DOMAIN packs : IsInventory(packs[t])
  BY <1>3, <1>4, <1>5 DEF SoundGame
<1>7. h.inventories = packs
  BY <1>2 DEF SoundGame
<1>8. SoundGame(h)
  BY <1>2, <1>6, InventoriesSet
<1> HIDE DEF h
<1>9. ASSUME Apart(g) PROVE Apart(h)
  <2> DEFINE Pack(t) == Carried(g, t)
  <2>1. \A t \in DOMAIN packs : Worn(Pack(t))
    BY <1>9 DEF Apart, Carried, Get, NoItems, Worn, Range
  <2>2. \A t, u : t # u => DOMAIN Pack(t).items \cap DOMAIN Pack(u).items = {}
    BY <1>9 DEF Apart, Disjoint, Carried, Get, NoItems
  <2>3. \A u \in DOMAIN packs \ {e.from, e.to} : packs[u] = Pack(u)
    BY <1>5 DEF Carried, Get
  <2> HIDE DEF Pack
  <2>4. Worn(gave)
    BY <1>3, <1>5, <2>1 DEF Pack
  <2>5. Worn(got)
    BY <1>4, <1>5, <2>1 DEF Pack, Worn
  <2>6. \A u \in DOMAIN packs : Worn(packs[u])
    BY <1>5, <2>1, <2>3, <2>4, <2>5
  <2>7. /\ DOMAIN packs[e.from].items = DOMAIN Pack(e.from).items \ {e.item}
        /\ DOMAIN packs[e.to].items = DOMAIN Pack(e.to).items \cup {e.item}
    BY <1>3, <1>4, <1>5 DEF Pack
  <2>8. e.item \in DOMAIN Pack(e.from).items
    BY DEF Pack
  <2>9. ASSUME NEW u \in DOMAIN packs, NEW v \in DOMAIN packs, u # v
        PROVE  DOMAIN packs[u].items \cap DOMAIN packs[v].items = {}
    <3>1. \A t \in DOMAIN packs \ {e.from, e.to} : DOMAIN packs[t].items = DOMAIN Pack(t).items
      BY <2>3
    <3>2. \A t \in DOMAIN packs \ {e.to} : DOMAIN packs[t].items \subseteq DOMAIN Pack(t).items \ {e.item}
      BY <2>2, <2>7, <2>8, <3>1
    <3> QED BY <2>2, <2>7, <2>9, <3>2
  <2> QED BY <1>7, <2>6, <2>9 DEF Apart, Disjoint
<1> QED BY <1>6, <1>7, <1>8, <1>9 DEF h

\* The pack a revealed modifier goes to is one that holds the item.
LEMMA FirstHolder ==
  ASSUME NEW g, SoundGame(g), NEW item, Holders(g, item) # {}
  PROVE  Min(Holders(g, item)) \in Holders(g, item)
<1>1. Holders(g, item) \subseteq Nat
  BY DEF Holders, SoundGame
<1>2. \E m \in Holders(g, item) : \A i \in Holders(g, item) : m <= i
  BY <1>1, LeastOf
<1> QED BY <1>2 DEF Min

\* After the event the item has the modifier, and every pack what it had.
LEMMA ModifierLands ==
  ASSUME NEW g, SoundGame(g), NEW e, e.kind = "modifier", Accepts(g, e)
  PROVE  LET h == Applied(g, e)
         IN  /\ SoundGame(h) /\ (Apart(g) => Apart(h))
             /\ \E t \in Holders(h, e.item) : e.mod \in Range(h.inventories[t].items[e.item].mods)
<1> DEFINE m    == Min(Holders(g, e.item))
           old  == g.inventories[m].items[e.item]
           new  == Attached(old, e.mod)
           inv  == [g.inventories[m] EXCEPT !.items = [@ EXCEPT ![e.item] = new]]
           packs == [g.inventories EXCEPT ![m] = inv]
           h    == Applied(g, e)
<1>1. Holders(g, e.item) # {} /\ Attaches(old, e.mod)
  BY DEF Accepts
<1>2. h = [g EXCEPT !.inventories[m].items[e.item] = Attached(@, e.mod)]
  BY DEF Applied
<1>3. m \in DOMAIN g.inventories /\ e.item \in DOMAIN g.inventories[m].items
  BY <1>1, FirstHolder DEF Holders
<1>4. IsInventory(g.inventories[m]) /\ IsInstance(old)
  BY <1>3 DEF SoundGame, IsInventory
<1>5. h = [g EXCEPT !.inventories = packs]
  BY <1>2
<1>6. IsInstance(new) /\ e.mod \in Range(new.mods)
  <2>1. CASE e.mod.id \in ModifierIds(old)
    BY <1>1, <1>4, <2>1 DEF Attached, Attaches
  <2>2. CASE e.mod.id \notin ModifierIds(old)
    <3>1. new = [old EXCEPT !.mods = Append(@, e.mod)]
      BY <2>2, SMTT(60) DEF Attached
    <3>2. DOMAIN new = DOMAIN old /\ new.mods = Append(old.mods, e.mod)
      BY <1>4, <3>1 DEF IsInstance
    <3> HIDE DEF new, old
    <3> QED BY <1>4, <3>2, ListAppend DEF IsInstance
  <2> QED BY <2>1, <2>2
<1> HIDE DEF m, old, new, h
<1>7. /\ DOMAIN inv = {"items", "equipped"} /\ inv.equipped = g.inventories[m].equipped
      /\ DOMAIN inv.items = DOMAIN g.inventories[m].items
      /\ inv.items[e.item] = new
      /\ \A i \in DOMAIN inv.items \ {e.item} : inv.items[i] = g.inventories[m].items[i]
  BY <1>3, <1>4 DEF IsInventory
<1> HIDE DEF inv
<1>8. /\ DOMAIN packs = DOMAIN g.inventories /\ packs[m] = inv
      /\ \A t \in DOMAIN g.inventories \ {m} : packs[t] = g.inventories[t]
  BY <1>3
<1> HIDE DEF packs
<1>9. IsInventory(inv)
  BY <1>4, <1>6, <1>7 DEF IsInventory
<1>10. DOMAIN packs \subseteq Nat /\ \A t \in DOMAIN packs : IsInventory(packs[t])
  BY <1>8, <1>9 DEF SoundGame
<1>11. SoundGame(h) /\ h.inventories = packs
  BY <1>5, <1>10, InventoriesSet DEF SoundGame
<1>12. /\ \A t \in DOMAIN packs : DOMAIN packs[t].items = DOMAIN g.inventories[t].items
       /\ \A t \in DOMAIN packs : packs[t].equipped = g.inventories[t].equipped
  BY <1>7, <1>8
<1>13. Apart(g) => Apart(h)
  BY <1>8, <1>11, <1>12 DEF Apart, Disjoint, Worn
<1>14. m \in Holders(h, e.item) /\ e.mod \in Range(h.inventories[m].items[e.item].mods)
  BY <1>3, <1>6, <1>7, <1>8, <1>11, <1>12 DEF Holders
<1> QED BY <1>11, <1>13, <1>14 DEF h

\* An accepted event takes a game to a game, and items apart to items apart.
LEMMA AcceptedSound ==
  ASSUME NEW g, SoundGame(g), NEW e, Accepts(g, e)
  PROVE  SoundGame(Applied(g, e)) /\ (Apart(g) => Apart(Applied(g, e)))
<1> DEFINE h == Applied(g, e)
<1>1. CASE e.kind = "world"
  <2>1. h = [g EXCEPT !.world = AppliedWorld(@, e.event)]
    BY <1>1 DEF Applied
  <2>2. Kept4(g, h) /\ h.inventories = g.inventories
    BY <2>1 DEF Kept4, SoundGame
  <2> QED BY <2>2, OtherFields
<1>2. CASE e.kind = "fact"
  <2> DEFINE said == IF e.fact.id # NoId /\ e.fact \in Range(g.journal)
                     THEN g.journal ELSE Append(g.journal, e.fact)
  <2>1. h = [g EXCEPT !.journal = said]
    BY <1>2 DEF Applied
  <2>2. IsList(said)
    BY ListAppend DEF SoundGame
  <2> HIDE DEF said
  <2>3. /\ DOMAIN h = DOMAIN g /\ h.board = g.board /\ h.maps = g.maps /\ h.journal = said
        /\ h.inventories = g.inventories
    BY <2>1 DEF SoundGame
  <2> QED BY <2>2, <2>3 DEF SoundGame, Apart, Disjoint
<1>3. CASE e.kind = "inventory"
  <2>1. e.token \in Nat /\ IsInventory(e.inv) /\ Worn(e.inv) /\ Unheld(g, e.token, e.inv)
    BY <1>3 DEF Accepts, SoundGame
  <2>2. h = [g EXCEPT !.inventories = Put(@, e.token, e.inv)]
    BY <1>3 DEF Applied
  <2>3. Kept4(g, h) /\ h.inventories = Put(g.inventories, e.token, e.inv)
    BY <2>2 DEF Kept4, SoundGame
  <2> QED BY <2>1, <2>3, SetApart
<1>4. CASE e.kind = "transfer"
  <2>1. {e.from, e.to} \subseteq g.board /\ e.from # e.to /\ e.item \in DOMAIN Carried(g, e.from).items
    BY <1>4 DEF Accepts
  <2>2. h = Transferred(g, e)
    BY <1>4 DEF Applied
  <2> QED BY <2>1, <2>2, TransferApart
<1>5. CASE e.kind = "modifier"
  BY <1>5, ModifierLands
<1>6. CASE e.kind \in {"generation", "sheet"}
  <2>1. h = [g EXCEPT !.generations = Put(@, e.id, e.proposal)] \/ h = [g EXCEPT !.sheets = Put(@, e.token, e.sheet)]
    BY <1>6 DEF Applied
  <2>2. Kept4(g, h) /\ h.inventories = g.inventories
    BY <2>1 DEF Kept4, SoundGame
  <2> QED BY <2>2, OtherFields
<1>7. CASE e.kind = "map"
  <2> DEFINE maps == IF e.id \in DOMAIN g.maps THEN g.maps ELSE Put(g.maps, e.id, {})
  <2>1. h = [g EXCEPT !.maps = maps]
    BY <1>7 DEF Applied
  <2>2. \A id \in DOMAIN maps : maps[id] \subseteq Nat
    BY DEF SoundGame, Put
  <2> HIDE DEF maps
  <2>3. /\ DOMAIN h = DOMAIN g /\ h.board = g.board /\ h.maps = maps /\ h.journal = g.journal
        /\ h.inventories = g.inventories
    BY <2>1 DEF SoundGame
  <2> QED BY <2>2, <2>3 DEF SoundGame, Apart, Disjoint
<1>8. CASE e.kind = "activate"
  <2>1. e.id \in DOMAIN g.maps
    BY <1>8 DEF Accepts
  <2>2. h = [g EXCEPT !.board = g.maps[e.id], !.active = e.id]
    BY <1>8 DEF Applied
  <2>3. /\ DOMAIN h = DOMAIN g /\ h.board = g.maps[e.id] /\ h.maps = g.maps /\ h.journal = g.journal
        /\ h.inventories = g.inventories
    BY <2>2 DEF SoundGame
  <2> QED BY <2>1, <2>3 DEF SoundGame, Apart, Disjoint
<1>9. CASE e.kind = "placed"
  <2> DEFINE board == g.board \cup {e.token}
             maps  == IF g.active = NoId THEN g.maps ELSE [g.maps EXCEPT ![g.active] = board]
  <2>1. e.token \in Nat
    BY <1>9 DEF Accepts
  <2>2. h = [g EXCEPT !.board = board, !.maps = maps]
    BY <1>9 DEF Applied
  <2>3. board \subseteq Nat /\ \A id \in DOMAIN maps : maps[id] \subseteq Nat
    BY <2>1 DEF SoundGame
  <2> HIDE DEF board, maps
  <2>4. /\ DOMAIN h = DOMAIN g /\ h.board = board /\ h.maps = maps /\ h.journal = g.journal
        /\ h.inventories = g.inventories
    BY <2>2 DEF SoundGame
  <2> QED BY <2>3, <2>4 DEF SoundGame, Apart, Disjoint
<1>10. CASE e.kind = "turn"
  BY <1>10, OtherFields DEF Applied, Kept4
<1>11. e.kind \in {"world", "fact", "inventory", "transfer", "modifier", "generation", "map", "activate",
                   "placed", "sheet", "turn"}
  BY DEF Accepts
<1> QED BY <1>1, <1>2, <1>3, <1>4, <1>5, <1>6, <1>7, <1>8, <1>9, <1>10, <1>11

-----------------------------------------------------------------------------
(* Batches *)

\* The games along a batch exist, each the one before with one event more.
LEMMA GamesUnfold ==
  ASSUME NEW g, NEW events, Len(events) \in Nat
  PROVE  LET games == GamesAlong(g, events)
         IN  /\ games[0] = g
             /\ \A n \in 1..Len(events) : games[n] = Applied(games[n - 1], events[n])
<1> DEFINE L == Len(events)
           P(n, f) == f = [k \in 0..n |-> IF k = 0 THEN g ELSE Applied(f[k - 1], events[k])]
           S == {n \in Nat : \E f : P(n, f)}
<1>1. 0 \in S
  <2>1. P(0, [k \in 0..0 |-> g])
    OBVIOUS
  <2> QED BY <2>1
<1>2. ASSUME NEW n \in Nat, n \in S PROVE n + 1 \in S
  <2>1. PICK f : P(n, f)
    BY <1>2
  <2> DEFINE next == Applied(f[n], events[n + 1])
             h == [k \in 0..(n + 1) |-> IF k = n + 1 THEN next ELSE f[k]]
  <2> HIDE DEF next
  <2>2. ASSUME NEW k \in 0..(n + 1)
        PROVE  h[k] = IF k = 0 THEN g ELSE Applied(h[k - 1], events[k])
    <3>1. CASE k = n + 1
      <4>1. h[k] = next /\ h[k - 1] = f[n] /\ k # 0
        BY <3>1
      <4> QED BY <3>1, <4>1 DEF next
    <3>2. CASE k \in 1..n
      <4>1. h[k] = f[k] /\ h[k - 1] = f[k - 1] /\ k # 0 /\ k \in 0..n
        BY <3>2
      <4>2. f[k] = Applied(f[k - 1], events[k])
        BY <2>1, <4>1
      <4> QED BY <4>1, <4>2
    <3>3. CASE k = 0
      <4>1. h[0] = f[0] /\ f[0] = g
        BY <2>1
      <4> QED BY <3>3, <4>1
    <3> QED BY <3>1, <3>2, <3>3
  <2>3. h = [k \in 0..(n + 1) |-> h[k]]
    OBVIOUS
  <2> HIDE DEF h
  <2>4. P(n + 1, h)
    BY <2>2, <2>3
  <2>5. n + 1 \in Nat
    OBVIOUS
  <2> HIDE DEF P
  <2> QED BY <2>4, <2>5
<1> HIDE DEF S
<1>3. L \in S
  BY <1>1, <1>2, NatInduct
<1> DEFINE games == GamesAlong(g, events)
<1>4. \E f : P(L, f)
  BY <1>3 DEF S
<1>5. games = CHOOSE f : P(L, f)
  BY DEF GamesAlong
<1>6. P(L, games)
  <2> HIDE DEF P, games, L
  <2> QED BY <1>4, <1>5
<1> HIDE DEF games
<1>7. games[0] = g /\ \A n \in 1..L : games[n] = Applied(games[n - 1], events[n])
  BY <1>6
<1> QED BY <1>7 DEF games

\* A batch that passes its preview takes a game to a game and items apart to items apart.
LEMMA BatchSound ==
  ASSUME NEW g, SoundGame(g), NEW events, AllAccepted(g, events)
  PROVE  SoundGame(AfterAll(g, events)) /\ (Apart(g) => Apart(AfterAll(g, events)))
<1> DEFINE games == GamesAlong(g, events)
           Fit(h) == SoundGame(h) /\ (Apart(g) => Apart(h))
           S == {n \in Nat : n <= Len(events) => Fit(games[n])}
<1>1. Len(events) \in Nat /\ DOMAIN events = 1..Len(events)
  BY DEF AllAccepted, IsList
<1>2. games[0] = g /\ \A n \in 1..Len(events) : games[n] = Applied(games[n - 1], events[n])
  BY <1>1, GamesUnfold
<1>3. \A n \in 1..Len(events) : Accepts(games[n - 1], events[n])
  BY <1>1 DEF AllAccepted
<1> HIDE DEF games
<1>4. 0 \in S
  BY <1>2
<1>5. ASSUME NEW n \in Nat, n \in S PROVE n + 1 \in S
  <2>1. SUFFICES ASSUME n + 1 <= Len(events) PROVE Fit(games[n + 1])
    OBVIOUS
  <2>2. Fit(games[n])
    BY <1>1, <1>5, <2>1
  <2>3. n + 1 \in 1..Len(events) /\ (n + 1) - 1 = n
    BY <1>1, <2>1
  <2>4. Accepts(games[n], events[n + 1]) /\ games[n + 1] = Applied(games[n], events[n + 1])
    BY <1>2, <1>3, <2>3
  <2> QED BY <2>2, <2>4, AcceptedSound
<1> HIDE DEF S
<1>6. Len(events) \in S
  BY <1>1, <1>4, <1>5, NatInduct
<1>7. Fit(games[Len(events)])
  BY <1>1, <1>6, SMTT(60) DEF S
<1> QED BY <1>7 DEF AfterAll, games

-----------------------------------------------------------------------------
(* Sessions *)

SoundStore(store) == DOMAIN store = {"secrets", "pending", "mods", "pendingMods"}
SoundSession(s) == DOMAIN s = {"game", "log", "store"} /\ SoundGame(s.game) /\ SoundStore(s.store)

\* No secret is gone that the journal does not tell, no modifier that its item
\* does not carry: SecretsKept of two sessions.
Keeps(s, t) ==
  /\ \A id \in DOMAIN s.store.secrets :
        \/ id \in DOMAIN t.store.secrets
        \/ RevealedFact(s.store.secrets[id]) \in Range(t.game.journal)
  /\ \A id \in DOMAIN s.store.mods :
        \/ id \in DOMAIN t.store.mods
        \/ \E u \in Holders(t.game, s.store.mods[id].item) :
             s.store.mods[id].mod \in Range(t.game.inventories[u].items[s.store.mods[id].item].mods)

\* What every operation of the session makes sure of.
Serves(s, t) == SoundSession(t) /\ (Apart(s.game) => Apart(t.game)) /\ Keeps(s, t)

LEMMA Nought == ASSUME NEW s, SoundSession(s) PROVE Serves(s, s)
BY SMTT(60) DEF Serves, Keeps

\* A session with a new game that keeps its store.
LEMMA NewGame ==
  ASSUME NEW s, SoundSession(s), NEW t, DOMAIN t = DOMAIN s, t.store = s.store, SoundGame(t.game)
  PROVE  SoundSession(t) /\ Keeps(s, t)
BY DEF SoundSession, Keeps

LEMMA LocalEventServes ==
  ASSUME NEW s, SoundSession(s), NEW e PROVE Serves(s, LocalEvent(s, e))
<1>1. CASE Accepts(s.game, e)
  <2> DEFINE g == Applied(s.game, e)
             log == Append(s.log, e)
  <2>1. SoundGame(g) /\ (Apart(s.game) => Apart(g))
    BY <1>1, AcceptedSound DEF SoundSession
  <2> DEFINE t == LocalEvent(s, e)
  <2>2. t = [s EXCEPT !.game = g, !.log = log]
    BY <1>1 DEF LocalEvent, TryCommit
  <2> HIDE DEF g, log
  <2> HIDE DEF t
  <2>3. DOMAIN t = DOMAIN s /\ t.game = g /\ t.store = s.store
    BY <2>2 DEF SoundSession
  <2>4. SoundSession(t) /\ Keeps(s, t)
    BY <2>1, <2>3, NewGame
  <2> QED BY <2>1, <2>3, <2>4 DEF Serves, t
<1>2. CASE ~Accepts(s.game, e)
  BY <1>2, Nought DEF LocalEvent
<1> QED BY <1>1, <1>2

LEMMA BatchServes ==
  ASSUME NEW s, SoundSession(s), NEW events
  PROVE  Serves(s, CommitBatch(s, events)) /\ CommitBatch(s, events).store = s.store
<1>1. CASE AllAccepted(s.game, events)
  <2> DEFINE g == AfterAll(s.game, events)
             log == s.log \o events
  <2>1. SoundGame(g) /\ (Apart(s.game) => Apart(g))
    BY <1>1, BatchSound DEF SoundSession
  <2> DEFINE t == CommitBatch(s, events)
  <2>2. t = [s EXCEPT !.game = g, !.log = log]
    BY <1>1 DEF CommitBatch
  <2> HIDE DEF g, log
  <2> HIDE DEF t
  <2>3. DOMAIN t = DOMAIN s /\ t.game = g /\ t.store = s.store
    BY <2>2 DEF SoundSession
  <2>4. SoundSession(t) /\ Keeps(s, t)
    BY <2>1, <2>3, NewGame
  <2> QED BY <2>1, <2>3, <2>4 DEF Serves, t
<1>2. CASE ~AllAccepted(s.game, events)
  BY <1>2, Nought DEF CommitBatch
<1> QED BY <1>1, <1>2

LEMMA StoryletServes ==
  ASSUME NEW s, SoundSession(s), NEW key, NEW owner PROVE Serves(s, CommitStorylet(s, key, owner))
BY Nought, BatchServes DEF CommitStorylet

LEMMA CampaignServes ==
  ASSUME NEW s, SoundSession(s), NEW record, NEW owner PROVE Serves(s, CommitCampaign(s, record, owner))
<1> DEFINE events == DraftEvents(s.game, record, owner)
           b == CommitBatch(s, events)
           more == Join(s.store.secrets, record.draft.secrets)
           t == [b EXCEPT !.store.secrets = more]
<1>1. CommitCampaign(s, record, owner) = s \/ CommitCampaign(s, record, owner) = t
  BY DEF CommitCampaign
<1>2. Serves(s, b) /\ b.store = s.store
  BY BatchServes
<1> HIDE DEF events, b
<1>3. DOMAIN s.store.secrets \subseteq DOMAIN more
  BY DEF Join
<1> HIDE DEF more
<1>4. /\ DOMAIN t = DOMAIN b /\ t.game = b.game
      /\ DOMAIN t.store = DOMAIN b.store /\ t.store.secrets = more /\ t.store.mods = b.store.mods
  BY <1>2 DEF Serves, SoundSession, SoundStore
<1> HIDE DEF t
<1>5. SoundSession(t)
  BY <1>2, <1>4, SMTT(60) DEF Serves, SoundSession, SoundStore
<1>6. Keeps(s, t)
  BY <1>2, <1>3, <1>4 DEF Serves, Keeps
<1>7. Serves(s, t)
  BY <1>2, <1>4, <1>5, <1>6 DEF Serves
<1> QED BY <1>1, <1>7, Nought

\* A secret becomes the journal's fact, or stays.
LEMMA RevealServes ==
  ASSUME NEW s, SoundSession(s), NEW id PROVE Serves(s, RevealSecret(s, id))
<1> DEFINE began == [s EXCEPT !.store = BeginReveal(@, id)]
           told  == RevealedFact(s.store.secrets[id])
           fact  == [kind |-> "fact", fact |-> told]
           t     == RevealSecret(s, id)
<1>1. CASE id \notin DOMAIN s.store.secrets
  BY <1>1, Nought DEF RevealSecret
<1>2. CASE id \in DOMAIN s.store.secrets
  <2>1. /\ DOMAIN began = DOMAIN s /\ began.game = s.game
        /\ SoundStore(began.store)
        /\ DOMAIN began.store.secrets = DOMAIN s.store.secrets \ {id}
        /\ began.store.mods = s.store.mods
    BY DEF SoundSession, SoundStore, BeginReveal, Drop
  <2>2. t = IF Accepts(began.game, fact)
            THEN [TryCommit(began, fact) EXCEPT !.store = FinishReveal(@, id)]
            ELSE [began EXCEPT !.store = AbortReveal(@, id)]
    BY <1>2 DEF RevealSecret
  <2> HIDE DEF began, t
  <2>3. CASE Accepts(began.game, fact)
    <3> DEFINE g == Applied(s.game, fact)
    <3>1. SoundGame(g) /\ (Apart(s.game) => Apart(g))
      BY <2>1, <2>3, AcceptedSound DEF SoundSession
    <3>2. told \in Range(g.journal)
      <4>1. g.journal = IF told.id # NoId /\ told \in Range(s.game.journal)
                        THEN s.game.journal ELSE Append(s.game.journal, told)
        BY DEF Applied, SoundSession, SoundGame
      <4>2. IsList(s.game.journal)
        BY DEF SoundSession, SoundGame
      <4> HIDE DEF g, told
      <4> QED BY <4>1, <4>2, ListAppend
    <3>3. t = [[began EXCEPT !.game = Applied(began.game, fact), !.log = Append(began.log, fact)]
                 EXCEPT !.store = FinishReveal(@, id)]
      BY <2>2, <2>3 DEF TryCommit
    <3> HIDE DEF g
    <3>4. DOMAIN t = DOMAIN s /\ t.game = g /\ t.store = FinishReveal(began.store, id)
      BY <2>1, <3>3 DEF SoundSession, g
    <3>5. /\ SoundStore(t.store)
          /\ DOMAIN t.store.secrets = DOMAIN s.store.secrets \ {id}
          /\ t.store.mods = s.store.mods
      BY <2>1, <3>4 DEF SoundStore, FinishReveal
    <3>6. SoundSession(t)
      BY <3>1, <3>4, <3>5 DEF SoundSession
    <3>7. Keeps(s, t)
      BY <3>2, <3>4, <3>5, SMTT(60) DEF Keeps, told
    <3> QED BY <3>1, <3>4, <3>6, <3>7 DEF Serves, t
  <2>4. CASE ~Accepts(began.game, fact)
    <3>1. t = [began EXCEPT !.store = AbortReveal(@, id)]
      BY <2>2, <2>4
    <3>2. DOMAIN t = DOMAIN s /\ t.game = s.game /\ t.store = AbortReveal(began.store, id)
      BY <2>1, <3>1 DEF SoundSession
    <3>3. /\ SoundStore(t.store)
          /\ DOMAIN t.store.secrets = DOMAIN s.store.secrets
          /\ t.store.mods = s.store.mods
      BY <1>2, <2>1, <3>2 DEF SoundStore, AbortReveal, Put
    <3> QED BY <3>2, <3>3 DEF Serves, SoundSession, Keeps, t
  <2> QED BY <2>3, <2>4, SMTT(60)
<1> QED BY <1>1, <1>2


\* A hidden modifier comes to be on its item, or stays.
LEMMA RevealModServes ==
  ASSUME NEW s, SoundSession(s), NEW id PROVE Serves(s, RevealModifier(s, id))
<1> DEFINE began == [s EXCEPT !.store = BeginModifier(@, id)]
           held  == s.store.mods[id]
           event == [kind |-> "modifier", item |-> held.item, mod |-> held.mod]
           t     == RevealModifier(s, id)
<1>1. CASE id \notin DOMAIN s.store.mods
  BY <1>1, Nought DEF RevealModifier
<1>2. CASE id \in DOMAIN s.store.mods
  <2>1. /\ DOMAIN began = DOMAIN s /\ began.game = s.game
        /\ SoundStore(began.store)
        /\ DOMAIN began.store.mods = DOMAIN s.store.mods \ {id}
        /\ began.store.secrets = s.store.secrets
    BY DEF SoundSession, SoundStore, BeginModifier, Drop
  <2>2. t = IF Accepts(began.game, event)
            THEN [TryCommit(began, event) EXCEPT !.store = FinishModifier(@, id)]
            ELSE [began EXCEPT !.store = AbortModifier(@, id)]
    BY <1>2 DEF RevealModifier
  <2> HIDE DEF began, t
  <2>3. CASE Accepts(began.game, event)
    <3> DEFINE g == Applied(s.game, event)
    <3>1. /\ SoundGame(g) /\ (Apart(s.game) => Apart(g))
          /\ \E u \in Holders(g, event.item) : event.mod \in Range(g.inventories[u].items[event.item].mods)
      <4>1. event.kind = "modifier" /\ Accepts(s.game, event) /\ SoundGame(s.game)
        BY <2>1, <2>3 DEF SoundSession
      <4> HIDE DEF event
      <4> QED BY <4>1, ModifierLands
    <3>2. t = [[began EXCEPT !.game = Applied(began.game, event), !.log = Append(began.log, event)]
                 EXCEPT !.store = FinishModifier(@, id)]
      BY <2>2, <2>3 DEF TryCommit
    <3> HIDE DEF g
    <3>3. DOMAIN t = DOMAIN s /\ t.game = g /\ t.store = FinishModifier(began.store, id)
      BY <2>1, <3>2 DEF SoundSession, g
    <3>4. /\ SoundStore(t.store)
          /\ DOMAIN t.store.mods = DOMAIN s.store.mods \ {id}
          /\ t.store.secrets = s.store.secrets
      BY <2>1, <3>3 DEF SoundStore, FinishModifier
    <3>5. SoundSession(t)
      BY <3>1, <3>3, <3>4, SMTT(60) DEF SoundSession
    <3>6. Keeps(s, t)
      BY <3>1, <3>3, <3>4 DEF Keeps
    <3> QED BY <3>1, <3>3, <3>5, <3>6 DEF Serves, t
  <2>4. CASE ~Accepts(began.game, event)
    <3>1. t = [began EXCEPT !.store = AbortModifier(@, id)]
      BY <2>2, <2>4
    <3>2. DOMAIN t = DOMAIN s /\ t.game = s.game /\ t.store = AbortModifier(began.store, id)
      BY <2>1, <3>1 DEF SoundSession
    <3>3. /\ SoundStore(t.store)
          /\ DOMAIN t.store.mods = DOMAIN s.store.mods
          /\ t.store.secrets = s.store.secrets
      BY <1>2, <2>1, <3>2 DEF SoundStore, AbortModifier, Put
    <3> QED BY <3>2, <3>3 DEF Serves, SoundSession, Keeps, t
  <2> QED BY <2>3, <2>4, SMTT(60)
<1> QED BY <1>1, <1>2

LEMMA PerformedServes ==
  ASSUME NEW s, SoundSession(s), NEW cmd PROVE Serves(s, Performed(s, cmd))
<1>1. \/ Performed(s, cmd) = CommitCampaign(s, cmd.record, cmd.owner)
      \/ Performed(s, cmd) = CommitStorylet(s, cmd.key, cmd.owner)
      \/ Performed(s, cmd) = CommitFactionTurn(s, cmd.moves)
      \/ Performed(s, cmd) = LocalEvent(s, cmd.event)
  BY DEF Performed
<1> QED BY <1>1, CampaignServes, StoryletServes, BatchServes, LocalEventServes DEF CommitFactionTurn

-----------------------------------------------------------------------------
(* The steps of the sitting *)

\* What a step does to the session: one operation of it; or, alone, an edit of
\* the sheet, which keeps the store.
Edited ==
  /\ mode = "solo" /\ SoundSession(session') /\ session'.store = session.store
Served == Serves(session, session') \/ Edited

\* A command of the host is its operation, or waits.
LEMMA CommandServes ==
  ASSUME SoundSession(session), NEW cmd, NEW after, Serves(session, after), Command(cmd, after)
  PROVE  Serves(session, session')
BY Nought DEF Command

\* An edit of the sheet leaves inventories.
LEMMA EditsServe ==
  ASSUME SoundSession(session), NEW packs, NEW e, Edits(packs, e),
         mode = "solo" => DOMAIN packs \subseteq Nat /\ \A t \in DOMAIN packs : IsInventory(packs[t])
  PROVE  Served
<1>1. CASE mode # "solo"
  BY <1>1, Nought DEF Edits, Served
<1>2. CASE mode = "solo"
  <2> DEFINE g == [session.game EXCEPT !.inventories = packs]
  <2>1. SoundGame(g)
    BY <1>2, InventoriesSet DEF SoundSession
  <2>2. session' = [session EXCEPT !.game = g]
    BY <1>2 DEF Edits
  <2> HIDE DEF g
  <2>3. DOMAIN session' = DOMAIN session /\ session'.game = g /\ session'.store = session.store
    BY <2>2 DEF SoundSession
  <2> QED BY <1>2, <2>1, <2>3 DEF Served, Edited, SoundSession
<1> QED BY <1>1, <1>2

LEMMA SetEditServes ==
  ASSUME SoundSession(session), NEW t, NEW inv, SetEdit(t, inv),
         mode = "solo" => t \in Nat /\ IsInventory(inv)
  PROVE  Served
<1> DEFINE packs == Put(Shown.game.inventories, t, inv)
<1>1. ASSUME mode = "solo" PROVE DOMAIN packs \subseteq Nat /\ \A u \in DOMAIN packs : IsInventory(packs[u])
  <2>1. Shown.game.inventories = session.game.inventories
    BY <1>1 DEF Shown
  <2> QED BY <1>1, <2>1 DEF Put, SoundSession, SoundGame
<1> HIDE DEF packs
<1>2. Edits(packs, [kind |-> "inventory", token |-> t, inv |-> inv])
  BY DEF SetEdit, packs
<1> QED BY <1>1, <1>2, EditsServe

\* The game the app works on alone is the session's.
LEMMA ShownAlone == ASSUME SoundSession(session), mode = "solo" PROVE Shown.game = session.game /\ SoundGame(Shown.game)
BY DEF Shown, SoundSession

LEMMA AddServes ==
  ASSUME SoundSession(session), NEW t, NEW template, AddItem(t, template) PROVE Served
<1> DEFINE inv == Carried(Shown.game, t)
           item == PlainItem(template, {})
           id == MintId(t, inv)
           new == Inserted(inv, id, item)
<1>1. t \in Shown.game.board /\ SetEdit(t, new)
  BY DEF AddItem
<1>2. ASSUME mode = "solo" PROVE t \in Nat /\ IsInventory(new)
  <2>1. SoundGame(Shown.game)
    BY <1>2, ShownAlone
  <2>2. IsInventory(inv) /\ IsInstance(item)
    BY <2>1, CarriedIsInventory, PlainIsInstance
  <2> HIDE DEF inv, item, id
  <2>3. IsInventory(new)
    BY <2>2, InsertedIsInventory
  <2> QED BY <1>1, <2>1, <2>3 DEF SoundGame
<1> HIDE DEF new
<1> QED BY <1>1, <1>2, SetEditServes

LEMMA WearServes ==
  ASSUME SoundSession(session), NEW t \in DOMAIN Shown.game.inventories, NEW item,
         Equip(t, item) \/ Unequip(t)
  PROVE  Served
<1> DEFINE inv == Carried(Shown.game, t)
<1>1. \E worn : SetEdit(t, [inv EXCEPT !.equipped = worn])
  BY DEF Equip, Unequip, Equipped
<1>2. PICK worn : SetEdit(t, [inv EXCEPT !.equipped = worn])
  BY <1>1
<1> DEFINE new == [inv EXCEPT !.equipped = worn]
<1>3. ASSUME mode = "solo" PROVE t \in Nat /\ IsInventory(new)
  <2>1. SoundGame(Shown.game)
    BY <1>3, ShownAlone
  <2>2. IsInventory(inv)
    BY <2>1, CarriedIsInventory
  <2> HIDE DEF inv
  <2>3. IsInventory(new)
    BY <2>2, EquippedIsInventory
  <2> QED BY <2>1, <2>3 DEF SoundGame
<1> HIDE DEF new
<1> QED BY <1>2, <1>3, SetEditServes DEF new

LEMMA TransferServes ==
  ASSUME SoundSession(session), NEW from \in Shown.game.board, NEW to \in Shown.game.board, NEW item,
         Transfer(from, to, item)
  PROVE  Served
<1> DEFINE event == [kind |-> "transfer", from |-> from, to |-> to, item |-> item]
           packs == Transferred(Shown.game, event).inventories
<1>1. Edits(packs, event) /\ from # to /\ item \in DOMAIN Carried(Shown.game, from).items
  BY DEF Transfer
<1>2. event.from = from /\ event.to = to /\ event.item = item
  OBVIOUS
<1> HIDE DEF event
<1>3. ASSUME mode = "solo" PROVE DOMAIN packs \subseteq Nat /\ \A u \in DOMAIN packs : IsInventory(packs[u])
  <2>1. SoundGame(Shown.game)
    BY <1>3, ShownAlone
  <2> QED BY <1>1, <1>2, <2>1, TransferApart
<1> HIDE DEF packs
<1> QED BY <1>1, <1>3, EditsServe


LEMMA PlainServes ==
  ASSUME SoundSession(session), NEW record, NEW owner, CommitPlain(record, owner)
  PROVE  Serves(session, session')
<1> DEFINE events == Lowered(Shown.game, record, owner)
           g == AfterAll(session.game, events)
<1>1. \/ session' = session
      \/ AllAccepted(session.game, events) /\ session' = [session EXCEPT !.game = g]
  BY DEF CommitPlain
<1>2. CASE session' = session
  BY <1>2, Nought
<1>3. CASE AllAccepted(session.game, events) /\ session' = [session EXCEPT !.game = g]
  <2>1. SoundGame(g) /\ (Apart(session.game) => Apart(g))
    BY <1>3, BatchSound DEF SoundSession
  <2> HIDE DEF g
  <2>2. DOMAIN session' = DOMAIN session /\ session'.game = g /\ session'.store = session.store
    BY <1>3 DEF SoundSession
  <2>3. SoundSession(session') /\ Keeps(session, session')
    BY <2>1, <2>2, NewGame
  <2> QED BY <2>1, <2>2, <2>3 DEF Serves
<1> QED BY <1>1, <1>2, <1>3

LEMMA DraftServes ==
  ASSUME SoundSession(session), NEW record, NEW owner, CommitDraft(record, owner)
  PROVE  Serves(session, session')
<1> DEFINE draft == [id |-> record.id, draft |-> record.proposal.draft]
           after == CommitCampaign(session, draft, owner)
<1>1. Command([kind |-> "campaign", record |-> draft, owner |-> owner], after)
  BY DEF CommitDraft
<1>2. Serves(session, after)
  BY CampaignServes
<1> HIDE DEF draft, after
<1> QED BY <1>1, <1>2, CommandServes

LEMMA StepServes == ASSUME SoundSession(session), [Next]_vars PROVE Served
<1>1. CASE PlaySome
  <2>1. PICK key \in rows.ready : PlayStorylet(key)
    BY <1>1 DEF PlaySome
  <2>2. PICK owner \in Recipients : Command([kind |-> "storylet", key |-> key, owner |-> owner],
                                            CommitStorylet(session, key, owner))
    BY <2>1 DEF PlayStorylet
  <2>3. Serves(session, CommitStorylet(session, key, owner))
    BY StoryletServes
  <2> QED BY <2>2, <2>3, CommandServes DEF Served
<1>2. CASE RevealSome \/ RevealModSome
  <2>1. \E id : session' = RevealSecret(session, id) \/ session' = RevealModifier(session, id)
    BY <1>2 DEF RevealSome, RevealModSome, RevealFact, RevealMod
  <2> QED BY <2>1, RevealServes, RevealModServes DEF Served
<1>3. CASE CommitTurn
  <2>1. Command([kind |-> "turn", moves |-> Kept], CommitFactionTurn(session, Kept))
    BY <1>3 DEF CommitTurn
  <2>2. Serves(session, CommitFactionTurn(session, Kept))
    BY BatchServes DEF CommitFactionTurn
  <2> QED BY <2>1, <2>2, CommandServes DEF Served
<1>4. CASE OfferQuests
  <2>1. \E quests : session' = CommitRadiantQuests(session, quests)
    BY <1>4 DEF OfferQuests
  <2> QED BY <2>1, BatchServes DEF CommitRadiantQuests, Served
<1>5. CASE CommitGeneration
  <2>1. \E owner : CommitDraft(preview, owner) \/ CommitPlain(preview, owner)
    BY <1>5 DEF CommitGeneration
  <2> QED BY <2>1, DraftServes, PlainServes DEF Served
<1>6. CASE AddSome
  BY <1>6, AddServes DEF AddSome
<1>7. CASE EquipSome
  BY <1>7, WearServes DEF EquipSome
<1>8. CASE UnequipSome
  BY <1>8, WearServes DEF UnequipSome
<1>9. CASE TransferSome
  BY <1>9, TransferServes DEF TransferSome
<1>10. CASE HostStep
  <2>1. session' = Performed(session, Head(queue))
    BY <1>10 DEF HostStep
  <2> QED BY <2>1, PerformedServes DEF Served
<1>11. CASE RefreshStoryletRows \/ PassTime \/ RollTurn \/ StrikeSome \/ GenerateSome \/ Publish \/ Mirror
             \/ UNCHANGED vars
  <2>1. session' = session
    BY <1>11 DEF RefreshStoryletRows, PassTime, RollTurn, StrikeSome, ToggleStrike, GenerateSome, Generate,
       Publish, Mirror, vars
  <2> QED BY <2>1, Nought DEF Served
<1> QED BY <1>1, <1>2, <1>3, <1>4, <1>5, <1>6, <1>7, <1>8, <1>9, <1>10, <1>11 DEF Next

LEMMA ModeStays == ASSUME [Next]_vars PROVE mode' = mode
BY DEF Next, vars, PlaySome, PlayStorylet, RevealSome, RevealFact, RevealModSome, RevealMod, CommitTurn,
   OfferQuests, CommitGeneration, AddSome, AddItem, EquipSome, Equip, UnequipSome, Unequip, TransferSome,
   Transfer, HostStep, RefreshStoryletRows, PassTime, RollTurn, StrikeSome, ToggleStrike, GenerateSome,
   Generate, Publish, Mirror, Step

-----------------------------------------------------------------------------
(* Theorems *)

\* The session is one, and a hosted one's items are apart.
Holds == SoundSession(session) /\ ItemsApart

LEMMA HoldsInvariant == Spec => []Holds
<1>1. Init => Holds
  <2> SUFFICES ASSUME Init PROVE Holds
    OBVIOUS
  <2>1. PICK g \in Games, s \in Stores : session = [game |-> g, log |-> <<>>, store |-> s]
    BY DEF Init
  <2>2. SoundGame(g) /\ Apart(g) /\ SoundStore(s)
    BY GamesAssumption, StoresAssumption DEF SoundStore
  <2>3. DOMAIN session = {"game", "log", "store"} /\ session.game = g /\ session.store = s
    BY <2>1
  <2> QED BY <2>2, <2>3 DEF Holds, SoundSession, ItemsApart
<1>2. Holds /\ [Next]_vars => Holds'
  <2> SUFFICES ASSUME Holds, [Next]_vars PROVE Holds'
    OBVIOUS
  <2>1. Served /\ mode' = mode
    BY StepServes, ModeStays DEF Holds
  <2>2. SoundSession(session')
    BY <2>1 DEF Served, Serves, Edited
  <2>3. mode = "hosted" /\ Apart(session.game) => Apart(session'.game)
    BY <2>1 DEF Served, Serves, Edited
  <2>4. SoundSession(session)'
    BY <2>2 DEF SoundSession, SoundGame, SoundStore, IsList, Range, IsInventory, IsInstance
  <2>5. ItemsApart'
    BY <2>1, <2>3, SMTT(60) DEF Holds, ItemsApart, Apart, Disjoint, Worn, Range
  <2> QED BY <2>4, <2>5 DEF Holds
<1> QED BY <1>1, <1>2, PTL DEF Spec

\* In a session that is opened with every item in one pack, every item stays in
\* one pack and what is worn is carried, whatever grants, rewards, transfers and
\* stale edits of the sheet reach the session, in whatever order (apply_game).
THEOREM ItemsKept == Spec => []ItemsApart
BY HoldsInvariant, PTL DEF Holds

\* No secret and no hidden modifier is ever lost: a refused reveal puts it back,
\* and a committed one is told (reveal_secret, reveal_item_modifier).
THEOREM Secrets == Spec => SecretsKept
<1>1. Holds /\ [Next]_vars => Keeps(session, session')
  <2> SUFFICES ASSUME Holds, [Next]_vars PROVE Keeps(session, session')
    OBVIOUS
  <2>1. Served
    BY StepServes, SMTT(60) DEF Holds
  <2> QED BY <2>1 DEF Served, Serves, Edited, Keeps
<1>2. Keeps(session, session') =>
        /\ \A id \in DOMAIN session.store.secrets :
             \/ id \in DOMAIN session'.store.secrets
             \/ RevealedFact(session.store.secrets[id]) \in Range(session'.game.journal)
        /\ \A id \in DOMAIN session.store.mods :
             \/ id \in DOMAIN session'.store.mods
             \/ \E t \in Holders(session'.game, session.store.mods[id].item) :
                  session.store.mods[id].mod
                    \in Range(session'.game.inventories[t].items[session.store.mods[id].item].mods)
  BY DEF Keeps
<1>3. Spec => [][Keeps(session, session')]_vars
  BY <1>1, HoldsInvariant, PTL DEF Spec
<1> QED BY <1>2, <1>3, PTL DEF SecretsKept
=============================================================================
