# Isometry, specified

A TLA+ development of *Isometry*, a virtual tabletop for isometric tactics: one
player's program hosts a session, the others join it, and everything the table
sees is one ordered log of events replayed by all. The modules model that log
and its replication, the rulings the host makes on it (actions, crossings between
maps, storylets, downtime turns, travel), the campaign's life across restarts,
the collaboration of several hosts on one campaign, and the app a player or a
DM sits at, from the click to the picture. TLC checks them on small tables;
TLAPS proves the safety of the replication, of the crossings between maps, of the
rulings on actions, of checkpoints, of the governance of shared campaigns, of most
of authoring and of the app at the table for every table.

Paths are relative to `src/crates/`.

## 1. The system

| component | state | operations | what is hard |
|---|---|---|---|
| **session replication** (`isometry-net/src/session/{host,messages,client}.rs`, `protocol.rs`) | host: snapshot, private campaign, `Codicil` history, `seq`, `log_hash`, names, refused peers, queued asks; client: optional snapshot, `applied`, hash, out-of-order buffer, inbox | connect, hello, intent, action, commit (one, a batch), whisper; snapshot, applied, drain | messages are produced under the session lock and sent after it: three kinds of task race |
| **iroh transport** (`iroh_link.rs`) | peer map, one writer and one reader per connection | accept, dispatch, read, close, join | registration before the snapshot; nothing orders two dispatches |
| **application bridge** (`isometry-genet/src/net.rs`) | command and update channels, last seq and players reported, last report | drain commands, commit, take asks, notice, report; poll | two threads, three separately locked readings per report |
| **action adjudication** (`isometry-genet/src/{adjudicate,sheets}.rs`) | the app's mirror, its own request counter, asks taken from the bridge | rule on an ask, swing, fold the verdict locally | rulings read a mirror and are committed later |
| **travel and the door sweep** (`session/travel.rs`, `dispatch.rs`) | active map, the registry of stored maps, clocks, inventories, requests applied, the list of tokens emitted | sweep, rule a crossing, apply it; put up a map, pass time, travel | several rulings from one swept board, switches in between |
| **checkpoints and source time** (`isometry-genet/src/{campaign_store,host,source_time}.rs`, `isometry-net/src/source_time.rs`) | app's copies, history and its origin, the checkpoint slot | start, save, load, stop, replay a prefix | restarts, torn reports, copies of different ages |
| **collaboration and governance** (`campaign_space/*.rs`, `campaign_moot.rs`, `campaign_sync.rs`) | signed operations per author and branch; views folded from them | insert, author, materialize, statuses of recognition, admission, change and resolution | any order of arrival, memberships that change |
| **two-phase reveals** (`isometry-campaign/src/store.rs`, `session/host.rs`) | secrets, pending reveals, hidden modifiers | begin, commit, finish or abort | the secret has left the store when its fact is refused |
| **storylets, factions, quests** (`storylets.rs`, `faction.rs`, `chronicle.rs`) | world registries, faction sheets with banked time; rows, a batch rolled and struck | stage a batch, preview it, commit it | batches built from the state before the batch, on a mirror |
| **campaign world** (`world/*.rs`, `map.rs`) | insert-once registries, party positions, known places, pace, stores, history | apply a world event, cast and play, draw the party's map | idempotent inserts against conflicts |
| **overmap and travel** (`isometry-core/src/overmap.rs`, `isometry-genet/src/{overmap,selection_rows}.rs`, `isometry-views/src/overmap.rs`) | the graph, the rows below it, drags, hidden routes, the scrubber | click a place, order a pace or a stance, study the charts, scrub | rows that are both what is shown and what is wanted |
| **items and inventories** (`item.rs`, `sheets.rs`) | items and slots per token | set, transfer, equip, reveal a modifier, mint an id | one item in one place, ids minted at several places |
| **content packs and generators** (`pack.rs`, `generator.rs`, `generators.rs`) | a preview and an ordinal | generate, accept | a draft is many events and a private half |
| **turn order** (`isometry-core/src/turn.rs`) | entries, cursor, rounds | add, remove, advance, advance skipping, set order | the cursor across removals, everyone down |
| **board, paths, sight** (`isometry-core/src/*.rs`) | map document | session events and their inverses, reach, visibility, templates, picking | pure functions with boundaries |
| **view state** (`isometry-views/src/state/*.rs`) | the mirror and everything local: selection, reach, fog, undo, lanes, sheets | edit, play, undo, mirror a snapshot | two roads for every edit: session or local; what is computed and kept |
| **rendering and input** (`board.rs`, `overmap.rs`, `panel.rs`, `input.rs`, `host.rs`) | mouse and drag | the order keys and clicks are tried in; what is drawn | nothing hidden may be drawn |
| **rules systems** (`isometry-system`) | none (Lua) | resolve, travel, schema, generate | opaque to the session |
| dice, sheets, narration; voxel; graphshell; simulated transport | | | little or no state |

How they meet. A player's app sends an *intent* (a move, an end of turn) or an
*ask* (an action) over its connection. The reader task of that connection takes
the session lock, checks ownership against the host's board, and commits the
event or queues the ask. The host's app never touches the session: it talks to
a bridge thread over two channels, sees snapshots, rules on asks and on tokens
that stand on doors, and sends events and commands back. The bridge loop drains its
commands, commits them, hands over asks, and reports the session when its seq or
its players changed. Saving writes the last report. Every input of the app is one
handler followed by the pumps of its dispatch, which turn the one-shot requests
a handler left into events: applied at once without a session, sent with one.

What makes each part correct:

* replication: whatever the schedule, a replica is a true prefix of the host's
  history and catches up; whispers stay private; refused builds leave no trace.
* travel between maps: every creature is in exactly one place, the crossing moves
  whom it ruled on, the board goes with the players, carried things go with the
  carrier.
* adjudication: each ask is ruled on once, and comes to be; rulings hold the cap, the budget, the
  turn and the ownership they were made under; the mirror settles.
* checkpoints: a saved campaign is of one past and only grows; nothing public
  lacks its private half or its record; source time shows what was played.
* governance: views agree once the operations do; what is decided stays decided when
  operations come late; a destination cannot admit its own takeover; the branches of
  one resolution stay apart.
* authoring: a batch lands whole or not at all; no secret is lost; an item is in
  one pack; the rows offered are those the session would match; banked time is spent
  once; no registry entry changes.
* the road: a trip costs the cheapest way; the controls show what is, and what
  they order is what the hand chose; a past day stays the same day.
* the table: undo brings the board back; nothing in the fog is drawn; the
  highlighted reach can be walked; whoever is up stays up.

## 2. The modules and the code

Which module uses which (a module and those it extends, indented):

```
ReplicationProofs -> Replication -> SharedLog (instance, the abstract log)
MCReplication     -> Replication, Board
Crossing   Adjudication   Checkpoint   Governance   (each with its MC module)
CrossingProofs     -> Crossing, Induction
AdjudicationProofs -> Adjudication, Induction
CheckpointProofs   -> Checkpoint
GovernanceProofs   -> Governance
Overmap, Keyed -> World -> Campaign -> Authoring -> MCAuthoring
                        -> Journey -> MCJourney
AuthoringProofs    -> Authoring, Induction
Keyed -> Tiles -> View -> Screen -> Table -> MCTable
TableProofs        -> Table, Induction
```

**`Replication`** — `HostSession`, `ClientSession` and `iroh_link.rs`. A
snapshot is represented by the sequence of events materialised in it:
`apply_game` is deterministic, so equal sequences are equal boards, and a hash is
the sequence of what was folded into it (collisions of the 64-bit fold are left
out). `Task` is the accept loop, the bridge and one reader per connection;
each holds an `outbox` between producing messages under the session lock
(`OnConnect`, `Read`, `LocalCommit`, `Whisper`) and handing them to the peers'
channels (`Dispatch`). `toClient` and `toHost` are a peer's channel and stream
together: QUIC keeps the order within one. `Accept` registers the sender before
the snapshot exists, as the code does. `Deliver` is `ClientSession::on_message`
with its drain; `Drained` is the loop of `drain_pending` in closed form, the longest
run of consecutive buffered events that applies. A failed apply takes the event
off the buffer and stops, as the code in release builds does.

**`Board`** — what the accepting and permitting operators of `Replication` are
instantiated with: tokens moved and removed, dice rolled, factions granted to a
player; intents are checked as `intent_refusal` and `peer_owns` check them, the
owner's name or the grant that stands when the intent is read.

**`SharedLog`** — the abstract specification: one log that grows, and readers
that each see a growing prefix of it. `Replication!ImplementsSharedLog` is the
refinement.

**`Crossing`** — `resolve_transition` is the operator `Ruling`, `apply_transition`
is `Cross`, the sweep of `pump_net` is `Pump`, and `queue` is the channel to the
session together with the commit order. Creatures are told apart by `who`, tokens
by the ids the code uses, so that a minted id, a re-keyed inventory and a
ruling overtaken by another are visible. `Travel` is the `TravelResolved` arm,
`Activate` the map switch, `Elapse` the clock.

**`Adjudication`** — `Ask`, `EndTurn` and `Announce` are what readers do to the
session; `Ready` through `Emit` are the stations of `run_host`; `Look`, `Attend`,
`Rule`, `Swing`, `PassTurn` and `Pump` the app. `pump_sheets` turns back at once unless
the host itself asks for something, or a sheet is open and changed or has no computed
view (`sheets.rs:43-54`): `Look` is a pass of an idle turn, which only a missing view
lets by, `Attend` one after the DM did something with a sheet, `Swing` one with the
DM's own action. Each takes all asks that wait in `intents` (`TakeAsks`) into `queued`,
which `Rule` then answers one by one; `sheet` is what the early return reads. `Pump` is
the poll and the mirror of a turn and goes on whatever waits; it drops the computed view,
as `apply_snapshot` does. A verdict folds into the app's mirror (`Fold`) and is sent; the
session applies it once per request (`Apply`).

**`Checkpoint`** — the trio of board, private store and history that
`HostState`, the app and the checkpoint all carry, copied from one to another:
`Read` and `Report` are the three readings and the update, `Pump` the mirror,
`Save`, `Load`, `Start` and `Stop` the life of the program. `SoloEdit` and
`SoloPublish` are play without a session, where only batched commits reach the
history. `Replay` is `GameSourceHistory::snapshot_at`.

**`Governance`** — a space per peer, with a set of stored operations for the logs
(the fold does not read their order). `Inserts` is `CampaignSpace::insert` with the
`validate` of each body; `Operations`, `Endorsers`, `Claims` are the view;
`Accepts` is `RecognitionContext::evaluate`; `ApplicableHeads`, `IsBound`,
`Admitted`, `Changed`, `IsResolved`, `ResolvedAtFirst`, `ResolvedLater` are the
statuses of `view.rs`. A context carries its roster, so that equal contexts are
what the code compares by fingerprint. `AuthorOp` and `Deliver` are
`CampaignSyncSession`; `Load`, `Bind`, `Rebind`, `Apply` are
`CampaignMootContext`. The Moot itself (`Join`, `Leave`) and what a host does
with a status (`Resolve`) are external, modelled as the callers in `src/` use
them.

**`Overmap`**, **`World`**, **`Keyed`** — the campaign world as a value.
`ReachableWithin` and `Route` are the two Dijkstra searches, heap order included;
`AcceptsWorld` and `AppliedWorld` are `CampaignWorld::apply`, `Cast` and
`Playable` the casting of storylets, `FactionTurn` and `RadiantQuests` the
downtime draw, `PublicEvents` and `SoundDraft` a campaign draft as the events that
rebuild it. An identifier is a sequence of numbers, so that the order of the
code's `BTreeMap`s (greedy casting, first holder, routes drawn) is there.

**`Campaign`** — the host session's commands on that world, each an operator from
the session it finds to the one it leaves: `Accepts` and `Applied` are
`apply_game` for world events, facts, inventories, transfers, modifiers, maps
and sheets; `CommitBatch` the preview on a clone and the commit; `RevealSecret`,
`RevealModifier`, `CommitStorylet`, `CommitFactionTurn`, `CommitRadiantQuests`,
`CommitCampaign` the methods of `HostSession` of those names.

**`Authoring`** — the app around it: rows and their gate, the batch that is
rolled, struck and committed, a generated proposal previewed and accepted, the
sheet's item edits. `mode` is whether a session is up: alone, a command builds a
session around the app's state and copies it back; hosting, it queues to the
bridge (`HostStep`, `Publish`, `Mirror`) and the app goes on with its mirror.

**`Journey`** — the overmap at the table. A dispatch is one step: a handler
(`ClickPlace`, `ClickPace`, `Scrub`, ...), then `Pumped`, which is
`after_dispatch`: `sync_overmap_source_time`, `pump_selection_rows`,
`pump_overmap`, `pump_overmap_orders`, `pump_overmap_read`, and the history handed
to the view. `Arrived` is the `TravelResolved` arm. A drag follows the pointer's
slop; a route's identity is its place among the routes drawn, as in
`overmap_relation_id`.

**`Tiles`** — `isometry-core` as operators on a map document: bounds, flood,
board events with their inverses (`Run`), the bounded walk (`Reachable`,
`PathTo`), sight (`VisibleFrom`), templates, the projection and the notes kept
for a token. The walk is the code's breadth-first search: `Treads` are the steps the
terrain and the others admit, `Meet` looks at one neighbour, `Explore` at the eight of
a tile in the code's order, `Wave` takes the queue one distance further, and
`Reachable` takes as many waves as the speed allows. `IsDocument` is the shape of a map document: both layers
over the tiles it has, tokens on the board under different ids (0 is the id of no
token), and one kind named "empty", the first, because `intern_tile_kind` adds no name
twice (`map.rs:282-289`).

**`View`** — `UiState` as a record, its methods as operators from view to view:
the turn order (initiative puts a token behind those that `Before` says rolled
higher), fog, selection and reach, editing as undoable steps, play,
initiative, dice, time, beats, the bestiary, the command line, whispers, the
compendium, sheets, and `Mirrored`, the snapshot that replaces what a session
replicates.

**`Screen`** — `board_root` as facts about what is emitted: tiles with their
marks and columns, props, tokens, markers, the rows of menu, turn list and index,
and which controls act.

**`Table`** — the app: each action is a winit event, taken in the order `input.rs`
and `host.rs` try it (a press runs its control, closes the menu, starts a drag; a
key goes to the lane that is open first), followed by the sheet pump and the
outbox. With a session, `Rules` is the host ruling the app's events in order,
`OthersPlay` everyone else's, `Mirror` the poll.

The `MC` modules give the constants values. Definitions marked *Mutant* are
single plausible mistakes; with a definition replaced by its mutant, the property
paired with it in `PROJECT.json` is violated.

## 3. What the runs show

| run | instance | properties |
|---|---|---|
| `replication` | two connections, an intent each, one commit of the DM (one event or a batch), one whisper; both may drop and the tasks interleave freely | `TypeOK`, `Converged` (a replica is the host's board as of its own `applied`), `NothingLost` (every event a client lacks is buffered or underway, the next one always underway), `WhispersStayPrivate`, `ImplementsSharedLog` |
| `catch_up` | a served client and one of another build, a knight of a faction that the DM may grant to the player meanwhile, fair tasks | `CatchesUp`, `EntriesWereAllowed` (every entry of the log was committed by the host's app or proposed by a served client whose name could propose it there) |
| `crossing` | two players, one resident sharing an id with one of them, two maps with a door each, four steps, one DM command, one closing round | `BoardMirrored`, `EveryoneOnce`, `TurnsOnBoard`, `CrossesAsRuled`, `DoorsAreWalked` |
| `adjudication` | two asks or swings by two players and the DM, one ended turn | `AskHeldOnce`, `MirrorSettles`, `BatchHoldsCap`, `HeardWhenAttended` (a host that passes `pump_sheets` again and again comes to have ruled on every ask), `ViewFollows` |
| `checkpoint` | three starts, three events in all, one draft, with and without a session | `CopiesNested`, `LineageKept`, `ReportsSettle` |
| `governance` | two peers, three authors, two Moots; six agendas: content with two heads, a member who leaves, one who joins, a takeover, a conflict settled for all, one that branches | `BranchesApart`, `MootConsents` (no binding changes and no head is applied without as many really signed endorsements of members as the deciding Moot's policy asks), `DecisionsStand` (what is decided under a context stays decided whatever operation arrives after it), `ViewsMeet` |
| `authoring` | one world, alone and hosting; four sittings: storylets, secrets and turns; turns rolled, struck, rolled again; generated drafts; items minted, worn, moved, revealed | `ItemsApart`, `RowsFollow` (once nothing is underway and the gate is content, the rows are what the session matches), `BatchesWhole`, `SecretsKept`, `BankBuysOnceAlone`, `WorldRemembers` |
| `journey` | four places of which the short way to one is not the direct one; nine sittings of one, host or guest | `TripsPaid` (against the least cost over all simple ways), `RowsTellTruth`, `LiveStaysLive` |
| `table` | two boards with a wall, water, heights and three owners; a DM alone, a player's preview, a host, a guest; some thirty sittings of two to five acts | `UndoRestores`, `FogFollows`, `ReachHolds`, `WalksFit`, `TurnKept`, `FreshIds`, `RemoteFollows` |

Three runs in which the code disagrees with its documentation:

* `last_out` — "The board follows the last player out" (`travel.rs:120`) fails
  when the last two players stand on doors at one sweep: each ruling sees the
  other remain.
* `party_cap` — a snapshot that left the bridge before a recruit was committed
  undoes the app's fold of it, and the next recruit passes the cap
  (`dispatch.rs:289`).
* `reopened` — a reopened campaign numbers its own requests from one over a
  history that already has them; source time skips the second verdict
  (`host.rs:138`).

The type invariants of `Crossing`, `Adjudication` and `Governance` are theorems; that
of `Checkpoint` has a configuration of its own, `MCCheckpointTypes.cfg`.

## 4. More disagreements, stated and replayable

Each is a property of its module and a configuration beside it; run, for
example, `tlc -config MCTorn.cfg MCCheckpoint.tla`.

| property | configuration | what happens |
|---|---|---|
| `Replication!NamesAreConnected` | `MCNames.cfg` | a reader that ends removes the peer's sender and keeps its name (`iroh_link.rs:322`), although `peer_names` is documented as the names connected |
| `Crossing!PackFollows` | `MCPacks.cfg` | two crossings ruled in one sweep can be minted the same arrival id, and one traveler's inventory overwrites the other's (`travel.rs:84`). `CrossesAsRuled` fails in the same instance: the two come to stand on one board under one id, and a ruling for one may move the other |
| `Crossing!SwitchKeepsResidents` | `MCPeril.cfg` | an encounter on the road switches the active map without loading its document; the old board is stored over it (`apply.rs:335`) |
| `Crossing!NobodyArrivesEarly` | `MCEarlyArrival.cfg` | the destination's clock is set to what the ruling computed, whatever the clocks did since; the clock can run behind the one the traveler left by |
| `Crossing!OnlyWalkersCross` | `MCBounce.cfg` | a token set down on a door by the map switch is swept through it without a step |
| `Adjudication!BudgetHeld` | `MCBudget.cfg` | the same stale mirror as `party_cap`, on the action economy |
| `Adjudication!OnlyActiveActs` | `MCOutOfTurn.cfg` | a ruling made in turn is committed after a player's own end of turn |
| `Adjudication!OnlyOwnersAct` | `MCTurncoat.cfg` | an ask is checked for ownership when it arrives, and its actor can change sides before the verdict |
| `Adjudication!AsksAreHeard` | `MCUnheard.cfg` | asks that wait are not among what lets `pump_sheets` by (`sheets.rs:43-54`): with no sheet open and nothing of the host's own, a player's ask waits for as long as that lasts, although "The host also adjudicates its players' requests, through this same path" (`sheets.rs:317`) |
| `Checkpoint!CheckpointReplays` | `MCTorn.cfg` | a player's move between the readings of one report, followed by a save: the saved history is ahead of the saved board. With `Solo = TRUE` local play breaks it too |
| `Authoring!EffectsDelivered` | `MCAuthoringDisputed.cfg` | each item effect of a storylet builds its inventory from the state before the batch, and the second overwrites the first (`host.rs:210-245`) |
| `Authoring!BankBuysOnce` | same | hosting, a downtime turn is rolled on the mirror and committed later; rolled again before the first lands, it spends the same banked time twice |
| `Authoring!OneItemOnePack` | same | without a session nothing looks for a second holder: an id minted from a pack's size can be minted again after the first was handed over |
| `Journey!LegsTravelled` | `MCJourneyDisputed.cfg` | hosting, a second click before the first trip is committed is priced from where the party no longer is |
| `Journey!OrdersAreMoves` | same | selecting a token of another stance, or cycling the viewer, makes a row differ from the truth and is taken for an order |
| `Journey!PacesAreSent` | same | choosing the mirror's own pace again before an earlier order is committed sends nothing, and the earlier one stands |
| `Journey!PrefixKept` | same | a cursor on a past day moves once the log has more prefixes than the scrubber has ticks |
| `Journey!HiddenStaysHidden` | same | a hidden route is known by its place among those drawn, and a route found before it takes that place |

## 5. Found in reading, without a property

What a model could not hold, or what has no second reading to check against:

* an event at or below `applied` stays in the pending buffer for good
  (`client.rs:155`); the accept loop serves one joiner's handshake at a time
  (`iroh_link.rs:188`); the client never sends the `VersionRefused` it builds;
* `path.rs:1` says of the walk "BFS over 4-connected tiles"; the loop takes all eight
  neighbours and argues for it (`path.rs:46-60`). The model walks as the loop does, and
  `WalksFit` and its proof take one diagonal step for one step: they hold of the code
  and would fail of that line;
* `advance_skipping` runs a whole lap and counts a round when everyone is down,
  where its comment has the cursor move one step (`turn.rs:96-108`);
  `TurnAdvance` clears counters without mirroring the board into the registry
  (`apply.rs:81`); a token removed from the board stays in the turn order, and the
  tokens of the board are added to the turns at each start, outside the log
  (`host.rs:98`);
* stances and per-turn counters stay behind under the old id when a token crosses
  (`travel.rs:173`); a door to its own map is ruled like any other (`travel.rs:168`);
  activating a map keeps the inventories of the map left (`apply.rs:264-276`);
* `adjudicate.rs:283`: hit points, conditions and displacement are not folded into
  the mirror, so two verdicts of one pass are both reckoned from the older board;
* a load under a running session replaces the app's view and history while the
  session keeps its own (`dispatch.rs:126-140`), and nobody else is told: until the next
  snapshot that app shows another board (`RemoteFollows` exempts the step by name); moves, turns and swings of a game
  without a session change the board and log nothing (`state/session.rs:303`);
* `SheetSet` overwrites a whole sheet (`sheets.rs:77-94`), an action on a sheet
  stays queued until the next pump (`sheets.rs:198-222`), Enter falls through to
  ending the turn (`input.rs:160`), a right click reaches a token that fog hides;
* two resolutions may give one branch name to different candidates: `types.rs:136-146`
  looks at the branches of one resolution only, so peers that went along with different
  resolutions can meet on a branch, and `BranchesApart` does not speak of them;
* a roster that a join and a leave restore makes claims of the earlier one apply again:
  a context is known by what it contains (`view.rs:151`);
* `space.rs:161-174` reads an author's latest operation and inserts the next in two
  steps; a generation that lands on a used nonce loses a whole faction turn
  (`faction.rs:177`).

## 6. Bounds

Everything unbounded in the code has a named bound. `MaxLocal`, `MaxAsk`,
`MaxWhisper` (replication), `MaxWalk`, `MaxCommand`, `MaxRound` (crossing),
`MaxAsk`, `MaxTurns` (adjudication), `MaxStarts`, `MaxEvents` (checkpoint),
`Agendas` (governance: each operation of an agenda is issued at most once),
`MaxSteps`, `MaxClock` and the `steps` of an errand (authoring, journey, table)
bound how often the environment acts, in the guards of its own actions; nothing
the program does is cut off. Where the code itself has a cap, the model has it as
a constant with a small value: `TickCap` (64 ticks on the scrubber), `RollCap`,
`MessageCap`, `FindCap` (the lengths of the lists the table shows), `PartyCap`.

Why they are enough. A dispatch inversion needs two tasks with one message
each; a snapshot overtaken by its tail needs one commit next to a join; two
connections with intents, a commit and a whisper have all of these at once. The
proofs take the bounds away for the safety of replication. Door rulings
interact in pairs: two players and a resident with a colliding id on two
two-door maps give the double ruling, the collision, the overtaken switch and
the return. Adjudication's mirror is wrong for at most one round trip, which
two verdicts and an ended turn span. Three starts give a save, a crash, a
reopening and a save again before and after the first report. Governance: two
peers are what it takes for two rosters and two orders of one log to exist, three
authors in two Moots give a member who leaves, one who joins, and one who never
belonged; the proofs take the agendas away. The four places of the journey give a
route that beats the direct one and a place nobody can reach yet; the nine
sittings give every pair of an order and an answer underway, alone and
hosting. The two boards of the table have one of each thing that stops a walk or
a sight; a sitting of two to five acts is a selection, a change and its undo, with
somebody else's event in between.

An *errand* is a sitting at the table with a few kinds of act. The acts of all
errands together are all acts; the runs would not finish if every sitting could
do everything, and TLC examines no interaction of acts of different errands. The
proofs about `Table` and `Authoring` do: their theorems hold for any errands.
`Next` itself admits any errand: a larger set is a change of the MC module only.

`CHECK_DEADLOCK FALSE` is set where a table really may fall silent: once the
players' bounded acts are done and every message is delivered, or the program
has stopped for good. `MCCrossing` always has a pump to take and checks it.

## 7. Fairness

* `Replication!FairSpec`: weak fairness of the host's tasks (the tokio runtime
  polls every task that is ready) and of delivery while a connection stands
  (QUIC retransmits). Nobody is obliged to play, whisper, dial or hang up.
* `Crossing!FairSpec`, `Adjudication!FairSpec`, `Checkpoint!FairSpec`: the app
  pumps on every turn of its event loop (`about_to_wait`), the bridge's loop
  turns every 80 ms, and nothing else is assumed. In `Adjudication` that is weak
  fairness of the bridge, of `Pump` and of `Look`, the idle pass that goes by its
  early return when an open sheet changed, and of `Rule`, since a pass once
  begun is run to its end. Nobody is obliged to ask, to swing, to end a turn or to open
  a sheet: that the host looks at its sheets again and again is the premise of
  `HeardWhenAttended`, not a fairness. `Checkpoint` lets the program
  stop at any moment, so what it promises is only for a session that stays up.
* `Governance!FairSpec`: weak fairness, peer by peer, of the delivery of logged
  operations and of loading the roster. The exchange of logs is the
  space's business and goes on while both peers are up; nobody is obliged to
  propose, endorse, claim, join or leave.
* `Authoring`, `Journey` and `Table` are checked for safety only: nobody at a table
  is obliged to do anything.

## 8. What is proved

`ReplicationProofs` proves for any set of connections, events, names and
bounds, and any deterministic `Accepts` and `Permits`:

* `TypeCorrect`: `Spec => []TypeOK`.
* `Convergence`: `Spec => []Converged`.
* `Refinement`: `Spec => ImplementsSharedLog`.

`Converged` alone is not inductive: it speaks of what a replica holds, and the
next step may apply anything a channel brings. The strengthening `Truth` says
of every message, in an outbox or a channel, and of every buffered event, that
it is true of the history: `Applied n` carries the n-th entry, a snapshot carries
the prefix of its seq and that prefix's hash. History only grows by appending, so
truths stay true (`PrefixKept`). With it a drained run of consecutive events
extends a prefix to a longer prefix. A second strengthening (`Once`) says that a
connection is registered and greeted once and so receives one snapshot: without
it a late snapshot could take a replica back, and the growing prefix of
`SharedLog` would not grow. The refinement then has the host's commits as the
log's growth, one entry at a time or a batch, and a delivery as a reader's
progress or a stutter. That every entry of the history applied where it stands,
which the abstract log also promises, is an invariant of the commits.

Assumed: `NamesAssumption`, `StrangersAssumption`, `AsksAssumption`,
`TasksAssumption`, `BatchAssumption` and `BoundsAssumption` of `Replication`, all
evaluated by TLC in the runs.

From the same invariants and assumptions it also proves:

* `Privacy`: `Spec => []WhispersStayPrivate`.
* `Authority`: `Spec => []EntriesWereAllowed`.
* `Delivered`: `Spec => []NothingLost`.

`NothingLost` speaks of clients that are synced; what makes it true is settled
before the snapshot arrives. `Whole` says of every snapshot in the accept loop's
outbox or in the client's channel that each event after it is buffered or underway.
That holds when the snapshot is made because a connection is registered
before (`Serving`: whoever is online has a sender), so every later commit is
addressed to it, and it is kept when the tail overtakes the snapshot, because the
buffer takes early events and a drain removes only what it applies. It removes one it
cannot apply too, and stops; that this never happens is `HistoryFits` (each entry
of the history applies where it stands) together with `Truth`: what a client
replays is the history itself. `Once` gives the single snapshot. For privacy, the
messages of an outbox that holds a whisper go to the addressee alone
(`Addressed`). For authority, a client's stream starts with its Hello until that is
read, and reading it either announces the client or puts it on the refused list
(`Introduced`); so the reader of an intent knows which of the two it was.

`Induction` holds what the next proofs share: induction over the naturals for a
set (from the library's well-founded minimum), the unfolding of a function
defined step by step (`RecUpTo`, `RecAgree`) and the greatest of finitely many
numbers (`FiniteMax`).

`CrossingProofs` proves, for any creatures, finite set of maps, doors, landings,
commands and bounds:

* `TypeCorrect`: `Spec => []TypeOK`, and `Turns`: `Spec => []TurnsOnBoard`.
* `Mirrored`: `Spec => []BoardMirrored`, where no door leads to its own map
  (`DoorsLeadOn`).
* `Once`: `Spec => []EveryoneOnce`, where in addition no road holds an encounter
  (`Peril = {}`).

`IInv` adds to `TypeOK` that tokens and ids are finite, which `Arrival` needs to
mint an id above all others. `Mirror` says that the registry's copy is the board
and that every ruling underway leads to another map than it starts from.
`EveryoneOnce` then is inductive: a crossing takes one token off the active document and puts
it on another. The hypotheses are where the code itself gives way. A door to its own
map makes `apply_transition` take the traveler off the document it puts it on
(`travel.rs:168`); an encounter stores one map over another (`MCPeril.cfg`). The run
`crossing` has `Peril = {}` and no such door.

`CrossesAsRuled` is not among the theorems. It holds in the run `crossing`, where a
resident shares an id with one player, and fails where residents share ids with both:
then two crossings of one sweep can be minted the same id (`MCPacks.cfg`) and the
next ruling on it may take either. A theorem would have to exclude the shared ids that
`travel.rs:83` reckons with, and would say nothing of what the property is about.

`AdjudicationProofs` proves for any tokens, players, owners, turn order, cap,
budget and bounds:

* `TypeCorrect`: `Spec => []TypeOK`.
* `HeldOnce`: `Spec => []AskHeldOnce`.
* `Settles`: `Spec => []MirrorSettles`.
* `HoldsCap`: `Spec => []BatchHoldsCap`.

`AskHeldOnce` is about the concatenation of the session's queue, the asks inside the
bridge's updates, the app's queue and what a pass took of it; `AsksStepwise` unfolds the gathering of
asks out of the updates, and each step of an ask from one to the next leaves the
concatenation as it is. `Settles` rests on `Flow`: snapshots travel in the
order of their seq, and one that carries the session's seq carries its board; the
app's view is the board of the seq it last mirrored once nothing of its own is
underway; and the seq the bridge last counted has been reported, to the app or into an
update, by a snapshot at least that new, unless the names differ and one more report
is due. `HoldsCap` rests on `Folded`: who owns what in the app's view is what the pass
began with and, folded into it, the verdicts in the outbox (`AfterStepwise`), so that
what a ruling counts is what the earlier rulings of the pass made.

Assumed: the named assumptions of `Crossing` and of `Adjudication`, evaluated by TLC in the
runs.

`CheckpointProofs` proves for any drafts and any bounds, and without an assumption:

* `Lineage`: `Spec => LineageKept`.
* `Nesting`: `Spec => []CopiesNested`.

`Lineage` goes along `Descent`: the checkpoint's history is a prefix of what the
Save button would write (the last report if there is one, the app's own copy
before), which is a prefix of every report on its way, and those are prefixes of the
session's history. A start from the checkpoint makes all of them equal; a load gives
the app the checkpoint's own copy, which lies at the bottom of that order, under
whatever session is up. `Shape` is the part of the type invariant the argument needs.
`Nesting` goes along the readings of one report (`InHand`): each part read is at
most as new as the session (`Behind`), and read in an order in which what publishes
is read before the private half and the record that it needs, so that whatever commits
fall in between only add to the latter.

`GovernanceProofs` proves for any peers, authors, Moots, policies and agendas:

* `TypeCorrect`: `Spec => []TypeOK`.
* `Consent`: `Spec => MootConsents`.
* `Standing`: `Spec => DecisionsStand`.
* `Apart`: `Spec => []BranchesApart`.

All rest on `IInv == TypeOK /\ Sound /\ turnover \in Nat`. `Sound` says that a peer
stores only signed operations, that the proposals among them are sound, and that a
campaign is bound by a sound binding only. For `Consent` it gives that counted
endorsers, members of the roster the view has loaded, really signed, so that
those who signed are at least as many as the policy asks for. `Standing` is about an
operation that arrives, whichever it is: under one context the endorsers that count
only grow in number (`FewMembers`), so what was accepted stays so (`AcceptsMore`), and a
claim or a head that applied still does (`MoreDecidesMore`). It says nothing across
rosters: a new roster is a new context, and one that a join and a leave restore is
the earlier context with the claims made under it. `Apart` adds `OnItsBranch`: a peer that
went along with a candidate of a resolution is on the branch that this resolution, which
is a valid one, gives that candidate, and a valid one gives no branch twice
(`types.rs:136-146`). Of two resolutions that give one name to different candidates
neither the code nor the theorem says anything.

Assumed: `GovernanceAssumption`, `PolicyAssumption`, `AgendaAssumption` of
`Governance`, evaluated by TLC in the run.

`AuthoringProofs` proves for any games, stores, sets of errands, generated proposals,
templates and nonces:

* `ItemsKept`: `Spec => []ItemsApart`.
* `Secrets`: `Spec => SecretsKept`.

Both rest on `Holds`, that the session's game
is a game (`SoundGame`), its store a store, and a hosted one's items apart. Every
operation of the session, from a local event to the reveals, `Serves`: it leaves a
session, keeps apart what was apart, and loses no secret. At the bottom is one lemma
about one event (`AcceptedSound`, all kinds of `apply_game` that the module has): the
inventory an event brings is written only if no other token holds one of its items,
a transfer moves one item, a modifier touches the one that holds it. A batch that is
accepted is accepted event by event (`GamesUnfold`, by induction along the batch), so it
does what its events do (`BatchSound`), and one that is refused changes nothing. A
reveal takes the secret out, commits, and puts it back when the commit is refused; what
is proved is that on the other branch the fact is in the journal, and the modifier on
the item of whoever holds it then. None of this asks that what the app works on is
fresh: the mirror, the rows and the draft may be any old ones, and the session's own
checks carry the argument.

Assumed: `GamesAssumption` and `StoresAssumption` of `Authoring`, evaluated by TLC in the
runs: a sitting begins with a game and a store of the right fields, and with every item
in one pack and what is worn carried. The code does not ask the latter of a
game it hosts: a save made without a session may break it (`OneItemOnePack`,
`MCAuthoringDisputed.cfg`), and then the session keeps what it was given.

`TableProofs` proves for any documents, errands, die faces, words, events of others,
any book of monsters and any caps:

* `UndoSafe`, `FogSafe`, `ReachSafe`, `WalkSafe`: `Spec => []UndoRestores`,
  `[]FogFollows`, `[]ReachHolds` and `[]WalksFit`.
* `TurnSafe`, `IdsSafe`, `RemoteSafe`: `Spec => TurnKept`, `FreshIds` and
  `RemoteFollows`.

All seven come from one fact, `Always == Spec => []IInv /\ [][Tidy]_vars`. None of the
invariants is inductive: undoing everything restores the board only if each batch of
the history takes back what it did on the board it was done on, a fog is right after
a handler only if it was right before, and a snapshot replaces all of it. `IInv` says
that the view is `Sound` (its map is a document, its turn order points into itself, its
history consists of batches of well-formed events, what the history may take up or put down is
apart from the ids of `held`, there is no history in a session, and what it asks of the
pumps is of the right shape); that the session's snapshot and what is on the
wire are of the right shape too; that a fresh snapshot exists only in a session;
that the board with every batch undone (`Unwound`) is the board as opened; and that
fog and reach are right unless `opened` says that they have been left old by
something the code does not recompute them after.

What a step may do is put in one relation, `Plays(u, v)`: `v` is sound, the board under
the history and the ids held are those of `u`, nobody who stays in the order loses
the turn, a new token has a fresh id, in a session the board stays as it is (all of it
`Deed`), the fog is recomputed or nothing it follows has changed (`FogStep`), and so
with the reach (`ReachStep`). Each handler plays, each pump plays, and plays
compose, which is what an action is: a press or a key in the order its guards are
tried, then the sheet pump and the outbox. Undo is at the bottom: `Undone` says that an
event followed by the inverse the code computed for it gives the board back, for each
of the kinds of event, `RunBack` that a batch followed by its inverses in reverse
order does (by induction along the batch), and `UndoneAgain` that redoing what was undone gives the board it was
undone on. A fill is one batch, so it comes back whole.

`WalkSafe` is about an algorithm. `Stands` is its invariant over the waves: there is
a distance for every tile met, one more than that of the tile it was met from by
an admissible step; the queue holds exactly the tiles at the greatest distance; of
every nearer tile all admissible neighbours have been met. A wave keeps it
(`WaveStands`); at the end it says both that the path read back from a highlighted tile is a walk
within the speed (`StandsTrails`, `PathUnfold`) and that no tile within the speed was
missed. `TreadSteps` then relates the search's own guard to `Steps`, the rule as the
property states it, which takes the eight neighbours of the loop, not the four of
`path.rs:1` (section 5).

In a session `TurnKept` allows a new order set by an initiative roll, the app's own on
the wire or another's, and `RemoteFollows` the loading of a file, which puts the file's board before the app until
the next snapshot (`dispatch.rs:126-140`): the property names that step (`ClickLoad`)
and has no other exception.

Assumed: `DocumentsAssumption`, `ErrandsAssumption`, `ForeignAssumption`,
`FacesAssumption`, `BookAssumption` and `CapsPositive` of `Table` and `View`, evaluated
by TLC in the run `table`: the boards are documents, what was held before is finite,
the events of others are of the kinds a session sends, dice show numbers, and the lists
that the table shows have room for one.

## 9. Only model-checked

Every invariant and action property that the runs check of `Replication`,
`Crossing`, `Adjudication`, `Checkpoint`, `Governance` and `Table` is proved, under the
hypotheses named above, except `CrossesAsRuled`; and two of `Authoring`. Left to TLC are

* the liveness properties (`CatchesUp`, `DoorsAreWalked`, `HeardWhenAttended`,
  `ViewFollows`, `ReportsSettle`, `ViewsMeet`), which need fairness and ENABLED;
* `CrossesAsRuled`, which holds of the run's tables and not of all (section 8);
* the type invariant of `Checkpoint`;
* of `Authoring`, `RowsFollow`, `BatchesWhole`, `BankBuysOnceAlone` and `WorldRemembers`: they compare
  what several events of one batch did, flattened and filtered out of the move or the
  storylet, with what it meant; the sequences that `FlattenSeq`, `SelectSeq` and
  `SetToSeq` give are opaque to the provers;
* every property of `Journey` (`RowsTellTruth`, `TripsPaid`, `LiveStaysLive`): they
  compare what the pumps wrote with the cheapest of all ways or with a replay of the
  log, folded over selected sequences, which are opaque to the provers.

No module declares a RECURSIVE operator: the recursions of `Overmap`, `World`
and `Campaign` are recursive functions, so theorems can be stated about all of them.

## 10. Not modelled, and why

* Postcard encoding, frame lengths and hash collisions: data below the messages.
* The `VersionRefused` answer of a client, which the transport never sends, and
  `run_client`'s loop around the handlers modelled in `Replication`.
* Doors to maps that are not stored (the sweep refuses them), conditions and
  sheets that move with a token, per-turn ledgers.
* Dice, reach, hit points and conditions in adjudication: the outcome is free, so
  every property holds whatever the rules system answers. The rules systems
  themselves are arithmetic without state.
* Legacy checkpoints without an origin, legacy map files and their versions, and the
  map export.
* Two-phase reveals of the pending kind (`reconcile_pending_reveals`): begin, commit
  and finish share one lock and nothing is saved in between.
* Of the table: the wording of moves and log lines, weather, the angle of cones,
  quantities of items, colours, layout and the GPU; the surfaces that only show
  (governance, item detail).
* Lua packs, voxel sprites, the graphshell endpoint and the simulated transport: pure
  functions, wrappers of code modelled elsewhere, or test scaffolding.
