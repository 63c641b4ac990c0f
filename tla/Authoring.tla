------------------------------ MODULE Authoring ------------------------------
(***************************************************************************)
(* The host at the table between scenes: storylets played from their rows,  *)
(* downtime turns rolled, struck and committed, generated proposals         *)
(* previewed and committed, items minted and moved, secrets revealed.       *)
(*                                                                          *)
(* Alone, the app holds the game and builds a session around it for each    *)
(* command.  Hosting, the session lives in the bridge actor: commands and   *)
(* events queue to it, and the app works on the mirror of its last          *)
(* snapshot, which its item edits change before the session has seen them.  *)
(***************************************************************************)
EXTENDS Campaign

CONSTANTS
  Games,      \* the games a sitting may start from
  Stores,     \* and the private stores
  Errands,    \* what a sitting may be about: sets of the actions' names
  Modes,      \* "solo", "hosted"
  Proposals,  \* what a generator may return: [kind, ...]
  Templates,  \* compendium items
  Nonces,     \* the nonces a draw may give
  MaxSteps,   \* bound on the app's operations
  MaxClock    \* bound on the active map's clock

Disjoint(g) == \A t, u \in DOMAIN g.inventories : t # u =>
                 DOMAIN g.inventories[t].items \cap DOMAIN g.inventories[u].items = {}
Apart(g) == Disjoint(g) /\ \A t \in DOMAIN g.inventories : Worn(g.inventories[t])

\* The games are games, opened with every item in one pack, and the stores stores.
ASSUME GamesAssumption == \A g \in Games : SoundGame(g) /\ Apart(g)
ASSUME StoresAssumption == \A s \in Stores : DOMAIN s = {"secrets", "pending", "mods", "pendingMods"}

VARIABLES
  mode,       \* net_mode, for the whole sitting
  errand,     \* the actions of this sitting
  session,    \* the authority: the bridge's session, or the app's own state
  view,       \* the app's mirror when hosting: [game, store]
  published,  \* snapshots on their way to the mirror
  queue,      \* commands and events on their way to the session
  clock,      \* the active map's clock
  batch,      \* App.faction_turn_batch, with the row's strike: [move, struck]
  rows,       \* UiState.storylets that are ready, and the inputs they came from
  preview,    \* UiState.generator_preview
  ordinal,    \* App.generation_ordinal
  steps

app  == <<view, batch, rows, preview, ordinal>>
net  == <<published, queue>>
vars == <<mode, errand, session, app, net, clock, steps>>

\* What the app works on: its own state, or the mirror.
Shown == IF mode = "solo" THEN [game |-> session.game, store |-> session.store] ELSE view

Step(name) ==
  /\ name \in errand /\ steps < MaxSteps /\ steps' = steps + 1
  /\ UNCHANGED <<mode, errand>>

\* The token a grant goes to: the active one, or the first, or none.
Recipients == IF Shown.game.board = {} THEN {NoOwner} ELSE Shown.game.board

\* A command of the host: a session built around the app's state and copied
\* back, or a message to the actor.
Command(cmd, after) ==
  IF mode = "solo" THEN session' = after /\ UNCHANGED net
  ELSE queue' = Append(queue, cmd) /\ UNCHANGED <<session, published>>

-----------------------------------------------------------------------------
(* Storylets *)

\* storylet_rows: the keys that are ready, for a world and the secrets' ids.
ReadyRows(w, ids) == {key \in DOMAIN w.storylets : Playable(w, w.storylets[key], ids)}

Inputs == <<Shown.game.world, DOMAIN Shown.store.secrets>>

\* The gate of refresh_storylet_rows: either input has moved.
RowsStale == rows.seen # Inputs

\* pump_storylets with the surface open.
RefreshStoryletRows ==
  /\ Step("refresh")
  /\ RowsStale
  /\ rows' = [seen |-> Inputs, ready |-> ReadyRows(Inputs[1], Inputs[2])]
  /\ UNCHANGED <<session, view, batch, preview, ordinal, net, clock>>

\* A ready row is played; the authority matches it again.
PlayStorylet(key) ==
  /\ Step("play")
  /\ key \in rows.ready
  /\ \E owner \in Recipients :
       Command([kind |-> "storylet", key |-> key, owner |-> owner],
               CommitStorylet(session, key, owner))
  /\ UNCHANGED <<app, clock>>

\* The session's own reveals, offered to the host.
RevealFact(id) ==
  /\ Step("reveal")
  /\ id \in DOMAIN session.store.secrets
  /\ session' = RevealSecret(session, id)
  /\ UNCHANGED <<app, net, clock>>

RevealMod(id) ==
  /\ Step("revealMod")
  /\ id \in DOMAIN session.store.mods
  /\ session' = RevealModifier(session, id)
  /\ UNCHANGED <<app, net, clock>>

-----------------------------------------------------------------------------
(* Downtime *)

PassTime ==
  /\ Step("time") /\ clock < MaxClock
  /\ clock' = clock + 1
  /\ UNCHANGED <<session, app, net>>

\* A fresh tick replaces the batch; its rows start unstruck.
RollTurn ==
  /\ Step("roll")
  /\ \E tape \in [DOMAIN Movers(Shown.game.world) -> (DOMAIN Verb) \X Nonces] :
       batch' = [n \in DOMAIN tape |->
                   [move |-> FactionTurn(Shown.game.world, clock, tape)[n], struck |-> FALSE]]
  /\ UNCHANGED <<session, view, rows, preview, ordinal, net, clock>>

ToggleStrike(n) ==
  /\ Step("strike")
  /\ batch' = [batch EXCEPT ![n].struck = ~@]
  /\ UNCHANGED <<session, view, rows, preview, ordinal, net, clock>>

Kept == LET kept == SelectSeq(batch, LAMBDA row : ~row.struck)
        IN  [n \in DOMAIN kept |-> kept[n].move]

CommitTurn ==
  /\ Step("commit")
  /\ Kept # <<>>
  /\ Command([kind |-> "turn", moves |-> Kept], CommitFactionTurn(session, Kept))
  /\ batch' = <<>>
  /\ UNCHANGED <<view, rows, preview, ordinal, clock>>

\* The quests the factions' wants make, offered together.
OfferQuests ==
  /\ Step("quests")
  /\ LET things == <<[want |-> "want_grain", have |-> "have_grain"]>>
     IN  session' = CommitRadiantQuests(session, SetToSeq(RadiantQuests(session.game.world, things)))
  /\ UNCHANGED <<app, net, clock>>

-----------------------------------------------------------------------------
(* Generators *)

NoPreview == [kind |-> "nothing"]

\* The next ordinal whose id no generation has.
Generate(proposal) ==
  /\ Step("generate")
  /\ LET next == Min({n \in (ordinal + 1)..(ordinal + 1 + MaxSteps) :
                        <<n>> \notin DOMAIN Shown.game.generations})
     IN  /\ ordinal' = next
         /\ preview' = [kind |-> proposal.kind, id |-> <<next>>, proposal |-> proposal]
  /\ UNCHANGED <<session, view, batch, rows, net, clock>>

\* New over the board, the stored maps and the packs of those that have left.
NextSnapshotId(g) == 1 + Max({0} \cup g.board \cup UNION Range(g.maps) \cup DOMAIN g.inventories)

\* What a committed proposal becomes, from the game the app sees; an item that
\* has nobody to go to becomes nothing.
Lowered(g, record, owner) ==
  <<[kind |-> "generation", id |-> record.id, proposal |-> record.proposal]>> \o
  CASE record.kind = "map"  -> <<[kind |-> "map", id |-> record.id],
                                 [kind |-> "activate", id |-> record.id]>>
    [] record.kind = "fact" -> <<[kind |-> "fact", fact |-> record.proposal.fact]>>
    [] record.kind = "item" -> <<[kind |-> "inventory", token |-> owner,
                                  inv |-> Inserted(Carried(g, owner), <<"generated", record.id>>,
                                                   PlainItem(record.proposal.template, {}))]>>
    [] record.kind = "npc"  -> LET id == NextSnapshotId(g)
                               IN  <<[kind |-> "placed", token |-> id],
                                     [kind |-> "sheet", token |-> id, sheet |-> record.proposal.key],
                                     [kind |-> "turn", token |-> id]>>
    [] OTHER -> <<>>

\* Alone the events are folded over the app's game, all or none, and logged
\* nowhere; hosting, they are queued one by one.
CommitPlain(record, owner) ==
  LET events == Lowered(Shown.game, record, owner)
  IN  IF mode = "solo"
      THEN IF AllAccepted(session.game, events)
           THEN /\ session' = [session EXCEPT !.game = AfterAll(@, events)]
                /\ preview' = NoPreview /\ UNCHANGED net
           ELSE UNCHANGED <<session, preview, net>>
      ELSE /\ queue' = queue \o [n \in DOMAIN events |-> [kind |-> "event", event |-> events[n]]]
           /\ preview' = NoPreview
           /\ UNCHANGED <<session, published>>

\* A draft goes to the session whole; alone, a refused one stays in preview.
CommitDraft(record, owner) ==
  LET draft == [id |-> record.id, draft |-> record.proposal.draft]
      after == CommitCampaign(session, draft, owner)
  IN  /\ Command([kind |-> "campaign", record |-> draft, owner |-> owner], after)
      /\ preview' = IF mode = "solo" /\ after = session THEN preview ELSE NoPreview

CommitGeneration ==
  /\ Step("accept")
  /\ preview # NoPreview
  /\ \E owner \in Recipients :
       IF preview.kind = "draft" THEN CommitDraft(preview, owner)
       ELSE /\ preview.kind = "item" => owner # NoOwner
            /\ CommitPlain(preview, owner)
  /\ UNCHANGED <<view, batch, rows, ordinal, clock>>

-----------------------------------------------------------------------------
(* Items, from the open sheet: the app's inventories change at once, and    *)
(* hosting the event is queued.                                             *)

Edits(inventories, e) ==
  IF mode = "solo"
  THEN session' = [session EXCEPT !.game.inventories = inventories] /\ UNCHANGED <<view, net>>
  ELSE /\ view' = [view EXCEPT !.game.inventories = inventories]
       /\ queue' = Append(queue, [kind |-> "event", event |-> e])
       /\ UNCHANGED <<session, published>>

SetEdit(token, inv) ==
  Edits(Put(Shown.game.inventories, token, inv), [kind |-> "inventory", token |-> token, inv |-> inv])

\* The first ordinal free in this token's own pack, from its size up.
MintId(token, inv) ==
  LET size == Cardinality(DOMAIN inv.items)
  IN  <<"minted", token, Min({n \in size..(2 * size) : <<"minted", token, n>> \notin DOMAIN inv.items})>>

AddItem(token, template) ==
  /\ Step("add") /\ token \in Shown.game.board
  /\ LET inv == Carried(Shown.game, token)
     IN  SetEdit(token, Inserted(inv, MintId(token, inv), PlainItem(template, {})))
  /\ UNCHANGED <<batch, rows, preview, ordinal, clock>>

Equip(token, item) ==
  /\ Step("equip") /\ item \in DOMAIN Carried(Shown.game, token).items
  /\ SetEdit(token, Equipped(Carried(Shown.game, token), "main_hand", item))
  /\ UNCHANGED <<batch, rows, preview, ordinal, clock>>

Unequip(token) ==
  /\ Step("unequip") /\ token \in DOMAIN Shown.game.inventories
  /\ SetEdit(token, [Carried(Shown.game, token) EXCEPT !.equipped = Drop(@, "main_hand")])
  /\ UNCHANGED <<batch, rows, preview, ordinal, clock>>

Transfer(from, to, item) ==
  /\ Step("transfer") /\ from # to
  /\ item \in DOMAIN Carried(Shown.game, from).items \ DOMAIN Carried(Shown.game, to).items
  /\ LET event == [kind |-> "transfer", from |-> from, to |-> to, item |-> item]
     IN  Edits(Transferred(Shown.game, event).inventories, event)
  /\ UNCHANGED <<batch, rows, preview, ordinal, clock>>

-----------------------------------------------------------------------------
(* The bridge *)

Performed(s, cmd) ==
  CASE cmd.kind = "campaign" -> CommitCampaign(s, cmd.record, cmd.owner)
    [] cmd.kind = "storylet" -> CommitStorylet(s, cmd.key, cmd.owner)
    [] cmd.kind = "turn"     -> CommitFactionTurn(s, cmd.moves)
    [] OTHER                 -> LocalEvent(s, cmd.event)

\* The actor takes the next command.
HostStep ==
  /\ queue # <<>>
  /\ queue' = Tail(queue)
  /\ session' = Performed(session, Head(queue))
  /\ UNCHANGED <<mode, errand, app, published, clock, steps>>

\* It publishes a snapshot once the event count has moved.
Publish ==
  /\ mode = "hosted" /\ queue = <<>>
  /\ (IF published = <<>> THEN view.at ELSE Last(published).at) # Len(session.log)
  /\ published' = Append(published, [game |-> session.game, store |-> session.store,
                                     at |-> Len(session.log)])
  /\ UNCHANGED <<mode, errand, session, app, queue, clock, steps>>

\* Mutant: the private store stays as it was.
MirrorPublic ==
  /\ published # <<>>
  /\ view' = [Last(published) EXCEPT !.store = view.store] /\ published' = <<>>
  /\ UNCHANGED <<mode, errand, session, batch, rows, preview, ordinal, queue, clock, steps>>

\* pump_net mirrors the newest snapshot, the private store with it.
Mirror ==
  /\ published # <<>>
  /\ view' = Last(published) /\ published' = <<>>
  /\ UNCHANGED <<mode, errand, session, batch, rows, preview, ordinal, queue, clock, steps>>

-----------------------------------------------------------------------------
Init ==
  /\ mode \in Modes /\ errand \in Errands
  /\ \E g \in Games, s \in Stores :
       /\ session = [game |-> g, log |-> <<>>, store |-> s]
       /\ view = [game |-> g, store |-> s, at |-> 0]
  /\ published = <<>> /\ queue = <<>> /\ clock = 0 /\ batch = <<>>
  /\ rows = [seen |-> <<>>, ready |-> {}]
  /\ preview = NoPreview /\ ordinal = 0 /\ steps = 0

PlaySome == \E key \in rows.ready : PlayStorylet(key)
RevealSome == \E id \in DOMAIN session.store.secrets : RevealFact(id)
RevealModSome == \E id \in DOMAIN session.store.mods : RevealMod(id)
StrikeSome == \E n \in DOMAIN batch : ToggleStrike(n)
GenerateSome == \E proposal \in Proposals : Generate(proposal)
AddSome == \E token \in Shown.game.board, template \in Templates : AddItem(token, template)
EquipSome == \E token \in DOMAIN Shown.game.inventories :
               \E item \in DOMAIN Carried(Shown.game, token).items : Equip(token, item)
UnequipSome == \E token \in DOMAIN Shown.game.inventories : Unequip(token)
TransferSome == \E from, to \in Shown.game.board :
                  \E item \in DOMAIN Carried(Shown.game, from).items : Transfer(from, to, item)

Next ==
  \/ RefreshStoryletRows \/ PlaySome \/ RevealSome \/ RevealModSome
  \/ PassTime \/ RollTurn \/ StrikeSome \/ CommitTurn \/ OfferQuests
  \/ GenerateSome \/ CommitGeneration
  \/ AddSome \/ EquipSome \/ UnequipSome \/ TransferSome
  \/ HostStep \/ Publish \/ Mirror

Spec == Init /\ [][Next]_vars
-----------------------------------------------------------------------------
(* What it promises *)

\* In a session an item id is in one pack at most and what is worn is carried,
\* however the sheet's edits, grants, rewards and transfers interleave
\* (item.rs:11-12, "Globally stable campaign identity for one item instance").
ItemsApart == mode = "hosted" => Apart(session.game)

\* The same of any game, the app's own included.
OneItemOnePack == Disjoint(session.game)

\* Nothing is underway between the session and the app.
Settled ==
  /\ queue = <<>> /\ published = <<>>
  /\ mode = "hosted" => view.at = Len(session.log)

\* Once nothing is underway and the gate has nothing to refresh, the surface
\* offers the storylets that the session itself matches, no more and no less: the
\* snapshots bring all that the rows are made of, the private half included, and
\* nothing of it moves without an event.  Mirrored without the store, "a
\* mid-session reveal would leave a secret-gated storylet wrongly locked, or a
\* removed secret wrongly playable" (dispatch.rs:284-285).
RowsFollow ==
  Settled /\ ~RowsStale => rows.ready = ReadyRows(session.game.world, DOMAIN session.store.secrets)

\* The events a step of the session logs.
Logged == SubSeq(session'.log, Len(session.log) + 1, Len(session'.log))

WholeTurn(moves) ==
  \A n \in DOMAIN moves : \A m \in DOMAIN MoveEvents(moves[n]) : World(MoveEvents(moves[n])[m]) \in Range(Logged)

\* A command of the host leaves all of its events or no trace: a turn all its
\* moves and changes, a storylet one event an effect, a draft everything up to
\* the map it opens on; refused, not even a secret stays.
BatchesWhole ==
  [][(queue # <<>> /\ queue' = Tail(queue)) =>
       LET cmd == Head(queue)
       IN  IF Logged = <<>> THEN session' = session
           ELSE /\ cmd.kind = "turn" => WholeTurn(cmd.moves)
                /\ cmd.kind = "storylet" =>
                     Len(Logged) = Len(session.game.world.storylets[cmd.key].effects)
                /\ cmd.kind = "campaign" =>
                     /\ Last(Logged) = [kind |-> "activate", id |-> cmd.record.draft.start]
                     /\ DOMAIN cmd.record.draft.secrets \subseteq DOMAIN session'.store.secrets]_vars

\* Playing a storylet leaves its recipient one more item per item effect
\* (host.rs:180-183: it commits all effects).
EffectsDelivered ==
  [][(queue # <<>> /\ queue' = Tail(queue) /\ Head(queue).kind = "storylet" /\ Logged # <<>>) =>
       LET cmd   == Head(queue)
           items == SelectSeq(session.game.world.storylets[cmd.key].effects, LAMBDA e : e.kind = "item")
       IN  Cardinality(DOMAIN Carried(session'.game, cmd.owner).items)
             = Cardinality(DOMAIN Carried(session.game, cmd.owner).items) + Len(items)]_vars

\* A secret leaves the private store only by becoming the journal's fact, and a
\* hidden modifier only by being on its item: a refused reveal loses neither.
SecretsKept ==
  [][/\ \A id \in DOMAIN session.store.secrets :
          \/ id \in DOMAIN session'.store.secrets
          \/ RevealedFact(session.store.secrets[id]) \in Range(session'.game.journal)
     /\ \A id \in DOMAIN session.store.mods :
          \/ id \in DOMAIN session'.store.mods
          \/ \E t \in Holders(session'.game, session.store.mods[id].item) :
               session.store.mods[id].mod
                 \in Range(session'.game.inventories[t].items[session.store.mods[id].item].mods)]_vars

\* How many moves of a faction a step logs.
MovesOf(f) == Cardinality({n \in DOMAIN Logged :
                /\ Logged[n].kind = "world" /\ Logged[n].event.kind = "history"
                /\ IsPrefix(Append(f, Line), Logged[n].event.value.id)})

\* Banked time buys its extra moves once: a faction moves no more often than the
\* bank it has at the commit earns, and acting empties the bank
\* (host.rs:270-273).
BankBuysOnce ==
  [][\A f \in DOMAIN session.game.world.sheets :
       MovesOf(f) > 0 => /\ MovesOf(f) <= MoveBudget(session.game.world, f)
                         /\ Sheet(session'.game.world, f, "banked_time") = 0]_vars

\* The same of a game without a session, where nothing waits in a queue.
BankBuysOnceAlone ==
  [][mode = "solo" => \A f \in DOMAIN session.game.world.sheets :
       MovesOf(f) > 0 => /\ MovesOf(f) <= MoveBudget(session.game.world, f)
                         /\ Sheet(session'.game.world, f, "banked_time") = 0]_vars

\* The world only grows: no committed entry changes, and the lines of history
\* stay in the order they were in, by time.
WorldRemembers ==
  [][/\ \A r \in Registry : \A id \in DOMAIN session.game.world[r] :
          /\ id \in DOMAIN session'.game.world[r]
          /\ session'.game.world[r][id] = session.game.world[r][id]
     /\ session.game.world.history
          = SelectSeq(session'.game.world.history, LAMBDA h : h \in Range(session.game.world.history))
     /\ \A n, m \in DOMAIN session'.game.world.history :
          n < m => session'.game.world.history[n].time <= session'.game.world.history[m].time]_vars
=============================================================================
