------------------------------ MODULE Crossing ------------------------------
(***************************************************************************)
(* Doorways.  The session keeps one active board and a registry of maps;   *)
(* players walk by moving their token, the host app sweeps the board it    *)
(* last saw and rules a crossing for every token that stands on a door     *)
(* (resolve_transition), and the ruling is committed later, behind whatever *)
(* the app queued before it and whatever the players did meanwhile         *)
(* (apply_transition).                                                     *)
(*                                                                         *)
(* A token is a record of the creature it stands for (`who`, which the     *)
(* code does not have), its TokenId and its tile; a document's Vec of      *)
(* tokens is the set of them, so which of two tokens that share an id      *)
(* `position` finds is left open.  The app's copy of the session is not a  *)
(* variable: it is only read by the sweep, right after it is refreshed, so *)
(* every commit the app has not seen yet can be taken to come later.       *)
(***************************************************************************)
EXTENDS Integers, Sequences, FiniteSets

CONSTANTS
  Who,          \* the creatures in play
  Player,       \* those whose token has an owner
  Map,          \* the ids of the stored maps
  Tile,
  DoorsOf,      \* the tiles of each map that hold a transition
  TargetOf,     \* where each door leads, by map and tile
  LandingsOf,   \* the tiles tried for an arrival, the anchor first
  Start,        \* the tokens of each document
  StartMap,     \* the map the session starts on
  Carrier,      \* creatures whose token has an inventory
  Request,      \* the app's Activate, Elapse and Travel commands
  Peril,        \* destinations the road to which holds an encounter
  MaxWalk,      \* bound on the players' moves
  MaxCommand,   \* bound on the DM's commands
  MaxRound      \* bound on rounds closed by the players

Token == [who : Who, id : Nat, at : Tile]

ASSUME PlayersAssumption == Player \subseteq Who /\ Carrier \subseteq Who
ASSUME DoorsAssumption ==
  /\ DoorsOf \in [Map -> SUBSET Tile]
  /\ \A m \in Map : \A d \in DoorsOf[m] :
       /\ TargetOf[m][d] \in Map
       /\ LandingsOf[m][d] \in Seq(Tile) /\ LandingsOf[m][d] # <<>>
ASSUME StartAssumption ==
  /\ StartMap \in Map /\ Start \in [Map -> SUBSET Token]
  /\ IsFiniteSet(Map) /\ \A m \in Map : IsFiniteSet(Start[m])
  /\ \A w \in Who : \E m \in Map : \E t \in Start[m] :
       t.who = w /\ \A n \in Map : \A u \in Start[n] : u.who = w => n = m /\ u = t
ASSUME PerilAssumption == Peril \subseteq Map
ASSUME RequestAssumption ==
  Request \subseteq [kind : {"Activate", "Travel"}, map : Map] \cup [kind : {"Elapse"}]

VARIABLES
  board,     \* GameSnapshot.map: the tokens on the active board
  active,    \* GameSnapshot.active_map
  maps,      \* GameSnapshot.maps: each document's tokens
  turns,     \* the ids in the turn order
  clocks,    \* GameSnapshot.clocks
  packs,     \* GameSnapshot.inventories: whose things lie under each id
  applied,   \* GameSnapshot.applied_actions
  queue,     \* the app's outbox and the bridge's command channel
  emitted,   \* the app's travel_emitted
  requests,  \* the app's own_requests
  afoot,     \* creatures moved by hand since they last came through a door
  walks, commands, rounds    \* counters behind the bounds

session  == <<board, active, maps, turns, clocks, packs, applied>>
counters == <<walks, commands, rounds>>
vars     == <<session, queue, emitted, requests, afoot, counters>>

OnBoard(id) == {t \in board : t.id = id}
IdsOf(tokens) == {t.id : t \in tokens}
OnDoors == {t \in board : t.at \in DoorsOf[active]}

-----------------------------------------------------------------------------
(* resolve_transition: the ruling *)

\* The first free tile outward, or the anchor when all are taken.
Landing(tiles, occupied) ==
  LET free == {i \in 1..Len(tiles) : tiles[i] \notin occupied}
  IN  IF free = {} THEN tiles[1] ELSE tiles[CHOOSE i \in free : \A j \in free : i <= j]

AllIds == (UNION {IdsOf(maps[m]) : m \in Map}) \cup IdsOf(board) \cup DOMAIN packs

\* The id it arrives under: its own, or one above every id there is.
Arrival(id, to) ==
  IF id \notin IdsOf(maps[to]) THEN id
  ELSE 1 + CHOOSE i \in AllIds : \A j \in AllIds : j <= i

Later(a, b) == IF a <= b THEN b ELSE a

\* "The board follows the last player out."
OthersRemain(id) == \E t \in board : t.id # id /\ t.who \in Player

Ruling(t, request) ==
  LET to == TargetOf[active][t.at] IN
  [kind |-> "Crossing", request |-> request, who |-> t.who, id |-> t.id,
   from |-> active, to |-> to,
   landing |-> Landing(LandingsOf[active][t.at], {u.at : u \in maps[to]}),
   arrival |-> Arrival(t.id, to),
   remap |-> Arrival(t.id, to) # t.id /\ t.id \in DOMAIN packs,
   clock |-> Later(clocks[to], clocks[active]),
   activates |-> ~OthersRemain(t.id)]

Orderings(S) == {s \in [1..Cardinality(S) -> S] : \A i, j \in DOMAIN s : s[i] = s[j] => i = j}

\* Mutant: a token is put on the emitted list before the list is consulted.
PumpMarksFirst ==
  /\ emitted' = IdsOf(OnDoors)
  /\ \E order \in Orderings({t \in OnDoors : t.id \notin emitted'}) :
       /\ queue' = queue \o [i \in 1..Len(order) |-> Ruling(order[i], requests + i)]
       /\ requests' = requests + Len(order)
  /\ UNCHANGED <<session, afoot, counters>>

\* pump_net on the host: every token on a door of the board just mirrored,
\* and not on one at the last sweep, is ruled against that same board.
Pump ==
  /\ \E order \in Orderings({t \in OnDoors : t.id \notin emitted}) :
       /\ queue' = queue \o [i \in 1..Len(order) |-> Ruling(order[i], requests + i)]
       /\ requests' = requests + Len(order)
  /\ emitted' = IdsOf(OnDoors)
  /\ UNCHANGED <<session, afoot, counters>>

-----------------------------------------------------------------------------
(* apply_game: what is committed *)

\* Mutant: the move is not mirrored into the registry.
WalkUnmirrored(t, tile) ==
  /\ walks < MaxWalk /\ t.who \in Player /\ tile # t.at
  /\ walks' = walks + 1 /\ afoot' = afoot \cup {t.who}
  /\ board' = (board \ {t}) \cup {[t EXCEPT !.at = tile]}
  /\ UNCHANGED <<active, maps, turns, clocks, packs, applied, queue, emitted, requests,
                 commands, rounds>>

\* A player's TokenMoved, and sync_active_map after it.
Walk(t, tile) ==
  /\ walks < MaxWalk /\ t.who \in Player /\ tile # t.at
  /\ walks' = walks + 1 /\ afoot' = afoot \cup {t.who}
  /\ board' = (board \ {t}) \cup {[t EXCEPT !.at = tile]}
  /\ maps' = [maps EXCEPT ![active] = board']
  /\ UNCHANGED <<active, turns, clocks, packs, applied, queue, emitted, requests,
                 commands, rounds>>

\* A player's TurnAdvance that closes a round.
CloseRound ==
  /\ rounds < MaxRound
  /\ \E t \in board : t.who \in Player /\ t.id \in turns
  /\ rounds' = rounds + 1
  /\ clocks' = [clocks EXCEPT ![active] = @ + 1]
  /\ UNCHANGED <<board, active, maps, turns, packs, applied, queue, emitted, requests,
                 afoot, walks, commands>>

Switch(m, tokens) == active' = m /\ board' = tokens /\ turns' = IdsOf(tokens)

Rekey(v) ==
  IF v.remap /\ v.id \in DOMAIN packs
  THEN [i \in (DOMAIN packs \ {v.id}) \cup {v.arrival} |->
          IF i = v.arrival THEN packs[v.id] ELSE packs[i]]
  ELSE packs

\* Mutant: the crossing is applied whatever board is up.
RefusedAnywhere(v) == v.request \in applied \/ OnBoard(v.id) = {}

Refused(v) ==
  v.request \in applied \/ OnBoard(v.id) = {} \/ active # v.from

\* The traveler under the id and on the tile the ruling named.
Arrived(v, t) == [t EXCEPT !.id = v.arrival, !.at = v.landing]

\* Mutant: the departure is not mirrored into the registry.
CrossUnmirrored(v) ==
  /\ ~Refused(v)
  /\ \E t \in OnBoard(v.id) :
       /\ maps' = [maps EXCEPT ![v.to] = @ \cup {Arrived(v, t)}]
       /\ IF v.activates THEN Switch(v.to, maps'[v.to])
          ELSE board' = board \ {t} /\ turns' = turns \ {v.id} /\ UNCHANGED active
  /\ packs' = Rekey(v)
  /\ clocks' = [clocks EXCEPT ![v.to] = v.clock]
  /\ applied' = applied \cup {v.request}

\* Mutant: the traveler keeps its place in the turn order it left.
CrossKeepsTurn(v) ==
  /\ ~Refused(v)
  /\ \E t \in OnBoard(v.id) :
       /\ maps' = [maps EXCEPT ![active] = board \ {t}, ![v.to] = @ \cup {Arrived(v, t)}]
       /\ IF v.activates THEN Switch(v.to, maps'[v.to])
          ELSE board' = board \ {t} /\ UNCHANGED <<active, turns>>
  /\ packs' = Rekey(v)
  /\ clocks' = [clocks EXCEPT ![v.to] = v.clock]
  /\ applied' = applied \cup {v.request}

\* apply_transition.
Cross(v) ==
  /\ ~Refused(v)
  /\ \E t \in OnBoard(v.id) :
       /\ maps' = [maps EXCEPT ![active] = board \ {t}, ![v.to] = @ \cup {Arrived(v, t)}]
       /\ IF v.activates THEN Switch(v.to, maps'[v.to])
          ELSE board' = board \ {t} /\ turns' = turns \ {v.id} /\ UNCHANGED active
  /\ packs' = Rekey(v)
  /\ clocks' = [clocks EXCEPT ![v.to] = v.clock]
  /\ applied' = applied \cup {v.request}

\* MapActivated.
Activate(m) == Switch(m, maps[m]) /\ UNCHANGED <<maps, clocks, packs, applied>>

\* TimeAdvanced.
Elapse ==
  /\ clocks' = [clocks EXCEPT ![active] = @ + 1]
  /\ UNCHANGED <<board, active, maps, turns, packs, applied>>

\* TravelResolved to a place with a map: its clock takes the march, and a
\* peril on the road makes it the active one; the board is then mirrored.
Travel(m) ==
  /\ clocks' = [clocks EXCEPT ![m] = @ + 1]
  /\ active' = IF m \in Peril THEN m ELSE active
  /\ maps' = [maps EXCEPT ![active'] = board]
  /\ UNCHANGED <<board, turns, packs, applied>>

\* The bridge commits the app's next command; one that is refused is dropped.
Commit ==
  /\ queue # <<>> /\ queue' = Tail(queue)
  /\ LET c == Head(queue) IN
       \/ c.kind = "Crossing" /\ Cross(c)
       \/ c.kind = "Crossing" /\ Refused(c) /\ UNCHANGED session
       \/ c.kind = "Activate" /\ Activate(c.map)
       \/ c.kind = "Elapse" /\ Elapse
       \/ c.kind = "Travel" /\ Travel(c.map)
  /\ afoot' = IF applied' = applied THEN afoot ELSE afoot \ {Head(queue).who}
  /\ UNCHANGED <<emitted, requests, counters>>

\* The DM gives the app a command.
Command(c) ==
  /\ commands < MaxCommand
  /\ commands' = commands + 1
  /\ queue' = Append(queue, c)
  /\ UNCHANGED <<session, emitted, requests, afoot, walks, rounds>>

-----------------------------------------------------------------------------
PackIds == {t.id : t \in {u \in UNION {Start[m] : m \in Map} : u.who \in Carrier}}

Init ==
  /\ board = Start[StartMap] /\ active = StartMap /\ maps = Start
  /\ turns = IdsOf(Start[StartMap])
  /\ clocks = [m \in Map |-> 0]
  /\ packs \in [PackIds -> Carrier]
  /\ \A i \in PackIds : \E m \in Map : \E t \in Start[m] : t.id = i /\ t.who = packs[i]
  /\ applied = {} /\ queue = <<>> /\ emitted = {} /\ requests = 0 /\ afoot = {}
  /\ walks = 0 /\ commands = 0 /\ rounds = 0

Next ==
  \/ Pump
  \/ Commit
  \/ CloseRound
  \/ \E t \in board : \E tile \in Tile : Walk(t, tile)
  \/ \E c \in Request : Command(c)

Spec == Init /\ [][Next]_vars

\* The app pumps every frame and the bridge drains its channel every 80 ms.
FairSpec == Spec /\ WF_vars(Pump) /\ WF_vars(Commit)

-----------------------------------------------------------------------------
(* Properties *)

Crossing ==
  [kind : {"Crossing"}, request : Nat, who : Who, id : Nat, from : Map, to : Map,
   landing : Tile, arrival : Nat, remap : BOOLEAN, clock : Nat, activates : BOOLEAN]

\* Every variable has its type.
TypeOK ==
  /\ board \subseteq Token /\ active \in Map /\ maps \in [Map -> SUBSET Token]
  /\ turns \subseteq Nat /\ clocks \in [Map -> Nat]
  /\ DOMAIN packs \subseteq Nat /\ \A i \in DOMAIN packs : packs[i] \in Carrier
  /\ applied \subseteq Nat /\ queue \in Seq(Crossing \cup Request)
  /\ emitted \subseteq Nat /\ requests \in Nat /\ afoot \subseteq Who
  /\ walks \in Nat /\ commands \in Nat /\ rounds \in Nat

\* The registry's copy of the active map is the board (GameSnapshot.maps:
\* "edits mirror back into this registry when active_map is set").
BoardMirrored == maps[active] = board

\* No crossing, whatever it was overtaken by, loses a creature or leaves one
\* on both sides of a door: each stands on exactly one map, once.
EveryoneOnce ==
  \A w \in Who : \E m \in Map : \E t \in maps[m] :
    t.who = w /\ \A n \in Map : \A u \in maps[n] : u.who = w => n = m /\ u = t

\* Only tokens on the board hold a turn: who walked out waits for no turn.
TurnsOnBoard == turns \subseteq IdsOf(board)

Crossed == queue # <<>> /\ Head(queue).kind = "Crossing" /\ queue' = Tail(queue) /\ applied' # applied

\* The crossing that is committed moves the creature that was ruled, and no
\* other, although the ruling names it by a TokenId that another creature may
\* hold on another map (travel.rs:83), and both the board and the creature may
\* have moved on.  Where two rulings of one sweep were minted one id, as PackFollows
\* below has it, two creatures share it on one board and this fails too.
CrossesAsRuled ==
  [][Crossed => LET v == Head(queue) IN
       /\ \A m \in Map : {t \in maps'[m] : t.who # v.who} = {t \in maps[m] : t.who # v.who}
       /\ \E t \in maps'[v.to] : t.who = v.who /\ t.at = v.landing]_vars

Stands(w, m, tile) == active = m /\ \E t \in board : t.who = w /\ t.at = tile

\* A token that steps onto a door goes through it, unless it steps off again
\* or the DM puts up another board: a sweep that misses it is not the last.
DoorsAreWalked ==
  \A w \in Who : \A m \in Map : \A d \in DoorsOf[m] :
    (Stands(w, m, d) /\ \A t \in board : t.who = w => t.id \notin emitted) ~> ~Stands(w, m, d)

\* "The board follows the last player out" (travel.rs:120): a crossing that
\* leaves no player on the board takes the board along.
BoardFollows ==
  [][Crossed /\ Head(queue).who \in Player =>
       active' = Head(queue).to \/ \E t \in board' : t.who \in Player]_vars

\* "Nobody arrives before they left" (protocol.rs:117): after a crossing the
\* destination's clock is not behind the clock of the map it left.
NobodyArrivesEarly == [][Crossed => clocks'[Head(queue).to] >= clocks[Head(queue).from]]_vars

\* "A client walks through a door by simply walking" (protocol.rs:384): a
\* player's token crosses because it was moved, and is not taken through
\* another door for having been set down on one.
OnlyWalkersCross == [][Crossed /\ Head(queue).who \in Player => Head(queue).who \in afoot]_vars

\* "The sword follows the knight through the door" (protocol.rs:279): what a
\* creature carries lies under the id its token has now.
PackFollows ==
  \A w \in Carrier : \A m \in Map : \A t \in maps[m] :
    t.who = w => t.id \in DOMAIN packs /\ packs[t.id] = w

\* "The same map switch a door makes" (apply.rs:333): the board that comes up
\* still holds everyone who was on that map.
SwitchKeepsResidents ==
  [][active' # active => \A t \in maps[active'] : \E u \in board' : u.who = t.who]_vars
=============================================================================
