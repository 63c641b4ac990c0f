--------------------------- MODULE CrossingProofs ---------------------------
(***************************************************************************)
(* Theorems about Crossing, for any maps, doors, creatures and bounds.     *)
(***************************************************************************)
EXTENDS Crossing, Induction

\* No door leads to the map it stands on.  The code rules such a door like any
\* other (travel.rs:168), and a traveler through it is lost to the board.
DoorsLeadOn == \A m \in Map : \A d \in DoorsOf[m] : TargetOf[m][d] # m

\* The shapes the steps rely on.
IInv ==
  /\ TypeOK
  /\ \A m \in Map : IsFiniteSet(maps[m])
  /\ IsFiniteSet(board) /\ IsFiniteSet(AllIds)

-----------------------------------------------------------------------------
(* The ruling *)

LEMMA LandingIs ==
  ASSUME NEW tiles \in Seq(Tile), tiles # <<>>, NEW occupied
  PROVE  Landing(tiles, occupied) \in Tile
<1> DEFINE free == {i \in 1..Len(tiles) : tiles[i] \notin occupied}
<1>1. CASE free = {}
  BY <1>1 DEF Landing
<1>2. CASE free # {}
  <2>1. \E h \in free : \A j \in free : h <= j
    <3> DEFINE K == {Len(tiles) - i : i \in free}
    <3>1. K \subseteq Nat /\ Len(tiles) \in Nat /\ K # {} /\ \A k \in K : k <= Len(tiles)
      BY <1>2
    <3> HIDE DEF K
    <3>2. PICK k \in K : \A l \in K : l <= k
      BY <3>1, FS_BoundedSetOfNaturals, FiniteMax
    <3>3. PICK h \in free : k = Len(tiles) - h
      BY DEF K
    <3>4. \A j \in free : Len(tiles) - j <= k
      BY <3>2 DEF K
    <3> QED BY <3>3, <3>4
  <2>2. (CHOOSE i \in free : \A j \in free : i <= j) \in free
    BY <2>1
  <2> QED BY <1>2, <2>2 DEF Landing
<1> QED BY <1>1, <1>2

LEMMA IdsAreNumbers ==
  ASSUME TypeOK
  PROVE  AllIds \subseteq Nat
<1>1. \A m \in Map : IdsOf(maps[m]) \subseteq Nat
  BY DEF TypeOK, IdsOf, Token
<1>2. IdsOf(board) \subseteq Nat /\ DOMAIN packs \subseteq Nat
  BY DEF TypeOK, IdsOf, Token
<1>3. ASSUME NEW i \in AllIds PROVE i \in Nat
  <2>1. CASE \E m \in Map : i \in IdsOf(maps[m])
    BY <1>1, <2>1
  <2>2. CASE i \in IdsOf(board) \cup DOMAIN packs
    BY <1>2, <2>2
  <2> QED BY <1>3, <2>1, <2>2 DEF AllIds
<1> QED BY <1>3

LEMMA ArrivalIs ==
  ASSUME IInv, NEW id \in Nat, NEW to \in Map
  PROVE  Arrival(id, to) \in Nat
<1>1. CASE id \notin IdsOf(maps[to])
  BY <1>1 DEF Arrival
<1>2. CASE id \in IdsOf(maps[to])
  <2>1. AllIds # {}
    BY <1>2 DEF AllIds
  <2>2. PICK m \in AllIds : \A i \in AllIds : i <= m
    BY <2>1, IdsAreNumbers, FiniteMax DEF IInv
  <2>3. (CHOOSE i \in AllIds : \A j \in AllIds : j <= i) \in Nat
    BY <2>2, IdsAreNumbers DEF IInv
  <2> QED BY <1>2, <2>3 DEF Arrival
<1> QED BY <1>1, <1>2

LEMMA RulingIs ==
  ASSUME IInv, NEW t \in OnDoors, NEW n \in Nat
  PROVE  Ruling(t, n) \in Crossing
<1>1. /\ t \in Token /\ active \in Map /\ t.at \in DoorsOf[active]
      /\ t.id \in Nat /\ t.who \in Who
  BY DEF OnDoors, IInv, TypeOK, Token
<1> DEFINE to == TargetOf[active][t.at]
<1>2. /\ to \in Map /\ LandingsOf[active][t.at] \in Seq(Tile) /\ LandingsOf[active][t.at] # <<>>
  BY <1>1, DoorsAssumption
<1>3. Landing(LandingsOf[active][t.at], {u.at : u \in maps[to]}) \in Tile
  BY <1>2, LandingIs
<1>4. Arrival(t.id, to) \in Nat
  BY <1>1, <1>2, ArrivalIs
<1>5. Later(clocks[to], clocks[active]) \in Nat
  BY <1>1, <1>2 DEF Later, IInv, TypeOK
<1>6. (Arrival(t.id, to) # t.id /\ t.id \in DOMAIN packs) \in BOOLEAN /\ (~OthersRemain(t.id)) \in BOOLEAN
  BY DEF OthersRemain
<1> HIDE DEF to
<1> QED BY <1>1, <1>2, <1>3, <1>4, <1>5, <1>6 DEF Ruling, Crossing, to

\* What a sweep queues.
LEMMA SweepIs ==
  ASSUME IInv, Pump
  PROVE  /\ requests' \in Nat
         /\ \E s \in Seq(Crossing) :
              /\ queue' = queue \o s
              /\ \A i \in 1..Len(s) : \E t \in OnDoors : \E n \in Nat : s[i] = Ruling(t, n)
<1> DEFINE due == {t \in OnDoors : t.id \notin emitted}
<1>1. PICK order \in Orderings(due) :
        /\ queue' = queue \o [i \in 1..Len(order) |-> Ruling(order[i], requests + i)]
        /\ requests' = requests + Len(order)
  BY DEF Pump
<1>2. IsFiniteSet(due) /\ Cardinality(due) \in Nat
  <2>1. due \subseteq board
    BY DEF OnDoors
  <2> HIDE DEF due
  <2> QED BY <2>1, FS_Subset, FS_CardinalityType DEF IInv
<1>3. order \in [1..Cardinality(due) -> due]
  BY DEF Orderings
<1> HIDE DEF due
<1>4. Len(order) \in Nat /\ \A i \in 1..Len(order) : order[i] \in due
  BY <1>2, <1>3
<1>5. \A i \in 1..Len(order) : order[i] \in OnDoors /\ requests + i \in Nat
  BY <1>4 DEF due, IInv, TypeOK
<1>6. \A i \in 1..Len(order) : Ruling(order[i], requests + i) \in Crossing
  BY <1>5, RulingIs
<1> DEFINE s == [i \in 1..Len(order) |-> Ruling(order[i], requests + i)]
<1>7. s \in Seq(Crossing) /\ Len(s) = Len(order)
  BY <1>4, <1>6
<1>8. \A i \in 1..Len(s) : \E t \in OnDoors : \E n \in Nat : s[i] = Ruling(t, n)
  BY <1>4, <1>5, <1>7
<1>9. requests' \in Nat /\ queue' = queue \o s
  BY <1>1, <1>4 DEF IInv, TypeOK
<1> HIDE DEF s
<1> QED BY <1>7, <1>8, <1>9

-----------------------------------------------------------------------------
(* Types *)

\* What a tile or an arrival makes of a token, and the map it is kept on.
LEMMA CrossIs ==
  ASSUME IInv, NEW v \in Crossing, Cross(v)
  PROVE  /\ maps' \in [Map -> SUBSET Token] /\ active' \in Map /\ board' \subseteq Token
         /\ turns' \subseteq Nat /\ clocks' \in [Map -> Nat] /\ applied' \subseteq Nat
         /\ \A m \in Map : IsFiniteSet(maps'[m])
         /\ IsFiniteSet(board')
         /\ DOMAIN packs' \subseteq Nat /\ \A i \in DOMAIN packs' : packs'[i] \in Carrier
<1>1. PICK t \in OnBoard(v.id) :
        /\ maps' = [maps EXCEPT ![active] = board \ {t}, ![v.to] = @ \cup {Arrived(v, t)}]
        /\ IF v.activates THEN Switch(v.to, maps'[v.to])
           ELSE board' = board \ {t} /\ turns' = turns \ {v.id} /\ UNCHANGED active
  BY DEF Cross
<1>2. v.to \in Map /\ v.arrival \in Nat /\ v.landing \in Tile /\ v.id \in Nat /\ v.clock \in Nat
      /\ v.request \in Nat
  BY DEF Crossing
<1>3. Arrived(v, t) \in Token
  BY <1>1, <1>2 DEF Arrived, OnBoard, Token, IInv, TypeOK
<1>4. maps' \in [Map -> SUBSET Token]
  BY <1>1, <1>2, <1>3 DEF IInv, TypeOK
<1>5. \A m \in Map : maps'[m] \subseteq maps[m] \cup board \cup {Arrived(v, t)}
  BY <1>1, <1>2 DEF IInv, TypeOK
<1>6. ASSUME NEW m \in Map PROVE IsFiniteSet(maps'[m])
  <2>1. IsFiniteSet(maps[m]) /\ IsFiniteSet(board) /\ IsFiniteSet({Arrived(v, t)})
    BY FS_Singleton DEF IInv
  <2>2. IsFiniteSet(maps[m] \cup board \cup {Arrived(v, t)})
    BY <2>1, FS_Union
  <2> QED BY <1>5, <2>2, FS_Subset
<1>7. /\ active' \in Map /\ board' \subseteq Token /\ IsFiniteSet(board')
      /\ turns' \subseteq Nat
  <2>1. CASE v.activates
    <3>1. active' = v.to /\ board' = maps'[v.to] /\ turns' = IdsOf(maps'[v.to])
      BY <1>1, <2>1 DEF Switch
    <3> QED BY <1>2, <1>4, <1>6, <3>1 DEF IdsOf, Token
  <2>2. CASE ~v.activates
    <3>1. active' = active /\ board' = board \ {t} /\ turns' = turns \ {v.id}
      BY <1>1, <2>2
    <3> QED BY <3>1, FS_Subset DEF IInv, TypeOK
  <2> QED BY <2>1, <2>2
<1>8. clocks' \in [Map -> Nat] /\ applied' \subseteq Nat
  BY <1>2 DEF Cross, IInv, TypeOK
<1>9. DOMAIN packs' \subseteq Nat /\ \A i \in DOMAIN packs' : packs'[i] \in Carrier
  BY <1>2 DEF Cross, Rekey, IInv, TypeOK
<1> QED BY <1>4, <1>6, <1>7, <1>8, <1>9

\* No step brings up an id but the one a crossing arrives under.
LEMMA CrossIds ==
  ASSUME IInv, NEW v \in Crossing, Cross(v)
  PROVE  IsFiniteSet(AllIds')
<1>1. PICK t \in OnBoard(v.id) :
        /\ maps' = [maps EXCEPT ![active] = board \ {t}, ![v.to] = @ \cup {Arrived(v, t)}]
        /\ IF v.activates THEN Switch(v.to, maps'[v.to])
           ELSE board' = board \ {t} /\ turns' = turns \ {v.id} /\ UNCHANGED active
  BY DEF Cross
<1>2. v.to \in Map
  BY DEF Crossing
<1>3. Arrived(v, t).id = v.arrival
  BY <1>1 DEF Arrived, OnBoard, IInv, TypeOK, Token
<1>4. \A m \in Map : \A u \in maps'[m] : u.id \in AllIds \cup {v.arrival}
  <2>1. \A m \in Map : \A u \in maps'[m] : u \in maps[m] \cup board \cup {Arrived(v, t)}
    BY <1>1, <1>2 DEF IInv, TypeOK
  <2> QED BY <1>3, <2>1 DEF AllIds, IdsOf
<1>5. \A u \in board' : u.id \in AllIds \cup {v.arrival}
  <2>1. CASE v.activates
    BY <1>1, <1>2, <1>4, <2>1 DEF Switch
  <2>2. CASE ~v.activates
    BY <1>1, <2>2 DEF AllIds, IdsOf
  <2> QED BY <2>1, <2>2
<1>6. DOMAIN packs' \subseteq AllIds \cup {v.arrival}
  BY DEF Cross, Rekey, AllIds
<1>7. AllIds' \subseteq AllIds \cup {v.arrival}
  BY <1>4, <1>5, <1>6 DEF AllIds, IdsOf
<1>8. IsFiniteSet(AllIds \cup {v.arrival})
  BY FS_AddElement DEF IInv
<1> QED BY <1>7, <1>8, FS_Subset

LEMMA InitIInv == Init => IInv
<1> SUFFICES ASSUME Init PROVE IInv
  OBVIOUS
<1>1. \A m \in Map : IsFiniteSet(maps[m]) /\ maps[m] \subseteq Token
  BY StartAssumption DEF Init
<1>2. IsFiniteSet(board) /\ board = maps[active] /\ active \in Map
  BY <1>1, StartAssumption DEF Init
<1>3. DOMAIN packs = PackIds /\ \A i \in PackIds : packs[i] \in Carrier
  BY DEF Init
<1>4. PackIds \subseteq Nat /\ \A i \in PackIds : \E m \in Map : i \in IdsOf(maps[m])
  BY <1>1 DEF Init, PackIds, IdsOf, Token
<1>5. TypeOK
  <2>1. board \subseteq Token /\ maps \in [Map -> SUBSET Token] /\ turns \subseteq Nat
    BY <1>1, <1>2, StartAssumption DEF Init, IdsOf, Token
  <2>2. clocks \in [Map -> Nat] /\ queue \in Seq(Crossing \cup Request)
    BY DEF Init
  <2> QED BY <1>2, <1>3, <1>4, <2>1, <2>2 DEF Init, TypeOK
<1>6. IsFiniteSet(AllIds)
  <2> DEFINE ids == [m \in Map |-> IdsOf(maps[m])]
             all == {ids[m] : m \in Map}
  <2>1. ASSUME NEW m \in Map PROVE IsFiniteSet(IdsOf(maps[m]))
    <3> DEFINE f == [t \in maps[m] |-> t.id]
    <3>1. f \in [maps[m] -> Nat]
      BY <1>1 DEF Token
    <3>2. {f[t] : t \in maps[m]} = IdsOf(maps[m])
      BY DEF IdsOf
    <3> HIDE DEF f
    <3>3. IsFiniteSet({f[t] : t \in maps[m]})
      BY <1>1, <3>1, FiniteImage
    <3> QED BY <3>2, <3>3
  <2>2. ids \in [Map -> SUBSET Nat]
    BY <1>1 DEF IdsOf, Token
  <2>3. IsFiniteSet(all)
    <3> HIDE DEF ids
    <3> QED BY <2>2, FiniteImage, StartAssumption
  <2>4. \A T \in all : IsFiniteSet(T)
    BY <2>1
  <2> HIDE DEF all
  <2>5. IsFiniteSet(UNION all)
    BY <2>3, <2>4, FS_UNION
  <2>6. AllIds \subseteq UNION all
    BY <1>2, <1>3, <1>4 DEF AllIds, all
  <2> QED BY <2>5, <2>6, FS_Subset
<1> QED BY <1>1, <1>2, <1>5, <1>6 DEF IInv

LEMMA NextIInv == IInv /\ [Next]_vars => IInv'
<1> SUFFICES ASSUME IInv, [Next]_vars PROVE IInv'
  OBVIOUS
<1>1. ASSUME UNCHANGED <<board, active, maps, turns, clocks, packs, applied>>,
             queue' \in Seq(Crossing \cup Request), emitted' \subseteq Nat, requests' \in Nat,
             afoot' \subseteq Who, walks' \in Nat, commands' \in Nat, rounds' \in Nat
      PROVE  IInv'
  BY <1>1 DEF IInv, TypeOK, AllIds, IdsOf
<1>2. CASE Pump
  <2>1. emitted' \subseteq Nat
    BY <1>2 DEF Pump, OnDoors, IdsOf, IInv, TypeOK, Token
  <2>2. queue' \in Seq(Crossing \cup Request)
    <3>1. PICK s \in Seq(Crossing) : queue' = queue \o s
      BY <1>2, SweepIs
    <3>2. s \in Seq(Crossing \cup Request) /\ queue \in Seq(Crossing \cup Request)
      BY DEF IInv, TypeOK
    <3> QED BY <3>1, <3>2
  <2> QED BY <1>1, <1>2, <2>1, <2>2, SweepIs DEF Pump, session, counters, IInv, TypeOK
<1>3. CASE Commit
  <2> DEFINE c == Head(queue)
  <2>1. c \in Crossing \cup Request /\ Tail(queue) \in Seq(Crossing \cup Request)
    BY <1>3 DEF Commit, IInv, TypeOK
  <2>2. /\ queue' \in Seq(Crossing \cup Request) /\ emitted' \subseteq Nat /\ requests' \in Nat
        /\ walks' \in Nat /\ commands' \in Nat /\ rounds' \in Nat
        /\ afoot' \subseteq Who
    BY <1>3, <2>1 DEF Commit, counters, IInv, TypeOK
  <2> HIDE DEF c
  <2>3. CASE c.kind = "Crossing" /\ Cross(c)
    <3>1. c \in Crossing
      BY <2>1, <2>3, RequestAssumption
    <3> QED BY <2>2, <2>3, <3>1, CrossIs, CrossIds DEF IInv, TypeOK
  <2>4. CASE UNCHANGED session
    BY <1>1, <2>2, <2>4 DEF session
  <2>5. CASE c.kind = "Activate" /\ Activate(c.map)
    <3>1. c.map \in Map
      BY <2>1, <2>5, RequestAssumption DEF Crossing
    <3>2. active' \in Map /\ board' = maps[c.map] /\ turns' = IdsOf(maps[c.map])
      BY <2>5, <3>1 DEF Activate, Switch
    <3>3. AllIds' \subseteq AllIds /\ UNCHANGED <<maps, clocks, packs, applied>>
      BY <2>5, <3>1, <3>2 DEF Activate, AllIds, IdsOf
    <3>4. turns' \subseteq Nat /\ board' \subseteq Token
      BY <3>1, <3>2 DEF IInv, TypeOK, IdsOf, Token
    <3> QED BY <2>2, <3>1, <3>2, <3>3, <3>4, FS_Subset DEF IInv, TypeOK
  <2>6. CASE c.kind = "Elapse" /\ Elapse
    <3>1. clocks' \in [Map -> Nat]
      BY <2>6 DEF Elapse, IInv, TypeOK
    <3>2. UNCHANGED <<board, active, maps, turns, packs, applied>>
      BY <2>6 DEF Elapse
    <3> QED BY <2>2, <3>1, <3>2 DEF IInv, TypeOK, AllIds, IdsOf
  <2>7. CASE c.kind = "Travel" /\ Travel(c.map)
    <3>1. c.map \in Map
      BY <2>1, <2>7, RequestAssumption DEF Crossing
    <3>2. clocks' \in [Map -> Nat] /\ active' \in Map
      BY <2>7, <3>1 DEF Travel, IInv, TypeOK
    <3>3. UNCHANGED <<board, turns, packs, applied>> /\ maps' = [maps EXCEPT ![active'] = board]
      BY <2>7 DEF Travel
    <3>4. maps' \in [Map -> SUBSET Token] /\ \A m \in Map : IsFiniteSet(maps'[m])
      BY <3>2, <3>3 DEF IInv, TypeOK
    <3>5. AllIds' \subseteq AllIds
      <4>1. \A m \in Map : maps'[m] = maps[m] \/ maps'[m] = board
        BY <3>2, <3>3 DEF IInv, TypeOK
      <4> QED BY <3>3, <4>1 DEF AllIds, IdsOf
    <3>6. IsFiniteSet(AllIds')
      BY <3>5, FS_Subset DEF IInv
    <3> QED BY <2>2, <3>2, <3>3, <3>4, <3>6 DEF IInv, TypeOK
  <2> QED BY <1>3, <2>3, <2>4, <2>5, <2>6, <2>7 DEF Commit, c
<1>4. CASE CloseRound
  <2>1. clocks' \in [Map -> Nat] /\ rounds' \in Nat
    BY <1>4 DEF CloseRound, IInv, TypeOK
  <2> QED BY <1>4, <2>1 DEF CloseRound, IInv, TypeOK, AllIds, IdsOf
<1>5. ASSUME NEW t \in board, NEW tile \in Tile, Walk(t, tile) PROVE IInv'
  <2>1. t \in Token /\ [t EXCEPT !.at = tile] \in Token /\ [t EXCEPT !.at = tile].id = t.id
    BY DEF IInv, TypeOK, Token
  <2>2. /\ board' = (board \ {t}) \cup {[t EXCEPT !.at = tile]}
        /\ maps' = [maps EXCEPT ![active] = board']
        /\ UNCHANGED <<active, turns, clocks, packs, applied, queue, emitted, requests,
                       commands, rounds>>
        /\ afoot' \subseteq Who /\ walks' \in Nat
    BY <1>5, <2>1 DEF Walk, IInv, TypeOK, Token
  <2>3. board' \subseteq Token /\ IsFiniteSet(board')
    <3>1. IsFiniteSet(board \ {t})
      BY FS_RemoveElement DEF IInv
    <3> QED BY <2>1, <2>2, <3>1, FS_AddElement DEF IInv, TypeOK
  <2>4. /\ maps' \in [Map -> SUBSET Token] /\ \A m \in Map : IsFiniteSet(maps'[m])
        /\ \A m \in Map : maps'[m] = maps[m] \/ maps'[m] = board'
    BY <2>2, <2>3 DEF IInv, TypeOK
  <2>5. IsFiniteSet(AllIds')
    <3>1. \A u \in board' : u.id \in IdsOf(board)
      BY <2>1, <2>2 DEF IdsOf
    <3>2. AllIds' \subseteq AllIds
      BY <2>2, <2>4, <3>1 DEF AllIds, IdsOf
    <3> QED BY <3>2, FS_Subset DEF IInv
  <2> QED BY <2>2, <2>3, <2>4, <2>5 DEF IInv, TypeOK
<1>6. ASSUME NEW c \in Request, Command(c) PROVE IInv'
  <2>1. queue' \in Seq(Crossing \cup Request) /\ commands' \in Nat
    BY <1>6 DEF Command, IInv, TypeOK
  <2> QED BY <1>1, <1>6, <2>1 DEF Command, session, IInv, TypeOK
<1>7. CASE UNCHANGED vars
  BY <1>1, <1>7 DEF vars, session, counters, IInv, TypeOK
<1> QED BY <1>2, <1>3, <1>4, <1>5, <1>6, <1>7 DEF Next

LEMMA AlwaysIInv == Spec => []IInv
  BY InitIInv, NextIInv, PTL DEF Spec

\* The board, the stored maps, the turn order and every ruling on its way keep
\* their types (GameSnapshot, resolve_transition, apply_transition).
THEOREM TypeCorrect == Spec => []TypeOK
<1>1. IInv => TypeOK
  BY DEF IInv
<1> QED BY <1>1, AlwaysIInv, PTL

-----------------------------------------------------------------------------
(* The registry mirrors the board *)

\* A ruling under way leads on.
LeadOn(v) == v.kind = "Crossing" => v.to # v.from
Mirror == BoardMirrored /\ \A i \in 1..Len(queue) : LeadOn(queue[i])

LEMMA QueueTail ==
  ASSUME IInv, Commit
  PROVE  /\ Head(queue) = queue[1] /\ 1 \in 1..Len(queue)
         /\ Head(queue) \in Crossing \cup Request
         /\ \A i \in 1..Len(queue') : queue'[i] = queue[i + 1] /\ i + 1 \in 1..Len(queue)
  BY DEF Commit, IInv, TypeOK

LEMMA SweptQueue ==
  ASSUME IInv, Pump, NEW i \in 1..Len(queue')
  PROVE  \/ i \in 1..Len(queue) /\ queue'[i] = queue[i]
         \/ \E t \in OnDoors : \E n \in Nat : queue'[i] = Ruling(t, n)
<1>1. PICK s \in Seq(Crossing) :
        /\ queue' = queue \o s
        /\ \A j \in 1..Len(s) : \E t \in OnDoors : \E n \in Nat : s[j] = Ruling(t, n)
  BY SweepIs
<1>2. queue \in Seq(Crossing \cup Request)
  BY DEF IInv, TypeOK
<1>3. CASE i <= Len(queue)
  BY <1>1, <1>2, <1>3
<1>4. CASE ~(i <= Len(queue))
  <2>1. i - Len(queue) \in 1..Len(s) /\ queue'[i] = s[i - Len(queue)]
    BY <1>1, <1>2, <1>4
  <2> QED BY <1>1, <2>1
<1> QED BY <1>3, <1>4

LEMMA CommandedQueue ==
  ASSUME IInv, NEW c \in Request, Command(c), NEW i \in 1..Len(queue')
  PROVE  (i \in 1..Len(queue) /\ queue'[i] = queue[i]) \/ queue'[i] = c
  BY DEF Command, IInv, TypeOK

\* Who a crossing that is committed takes from where to where.
LEMMA CrossMoves ==
  ASSUME IInv, NEW v \in Crossing, Cross(v), v.to # v.from
  PROVE  \E t \in OnBoard(v.id) :
           /\ active = v.from /\ v.to # active /\ v.to \in Map
           /\ Arrived(v, t).who = t.who /\ Arrived(v, t).id = v.arrival
           /\ Arrived(v, t).at = v.landing
           /\ maps'[active] = board \ {t}
           /\ maps'[v.to] = maps[v.to] \cup {Arrived(v, t)}
           /\ \A m \in Map \ {active, v.to} : maps'[m] = maps[m]
           /\ \/ active' = v.to /\ board' = maps'[v.to] /\ turns' = IdsOf(board')
              \/ active' = active /\ board' = board \ {t} /\ turns' = turns \ {v.id}
<1>1. PICK t \in OnBoard(v.id) :
        /\ maps' = [maps EXCEPT ![active] = board \ {t}, ![v.to] = @ \cup {Arrived(v, t)}]
        /\ IF v.activates THEN Switch(v.to, maps'[v.to])
           ELSE board' = board \ {t} /\ turns' = turns \ {v.id} /\ UNCHANGED active
  BY DEF Cross
<1>2. active = v.from /\ v.to \in Map /\ active \in Map /\ maps \in [Map -> SUBSET Token]
  BY DEF Cross, Refused, Crossing, IInv, TypeOK
<1>3. t \in Token
  BY DEF OnBoard, IInv, TypeOK
<1>4. /\ Arrived(v, t).who = t.who /\ Arrived(v, t).id = v.arrival
      /\ Arrived(v, t).at = v.landing
  BY <1>3 DEF Arrived, Token
<1>5. /\ maps'[active] = board \ {t}
      /\ maps'[v.to] = maps[v.to] \cup {Arrived(v, t)}
      /\ \A m \in Map \ {active, v.to} : maps'[m] = maps[m]
  BY <1>1, <1>2
<1>6. \/ active' = v.to /\ board' = maps'[v.to] /\ turns' = IdsOf(board')
      \/ active' = active /\ board' = board \ {t} /\ turns' = turns \ {v.id}
  <2>1. CASE v.activates
    BY <1>1, <2>1 DEF Switch, IdsOf
  <2>2. CASE ~v.activates
    BY <1>1, <2>2
  <2> QED BY <2>1, <2>2
<1> QED BY <1>2, <1>4, <1>5, <1>6

LEMMA NextMirror ==
  ASSUME DoorsLeadOn, IInv, Mirror, [Next]_vars
  PROVE  Mirror'
<1>1. ASSUME UNCHANGED <<board, active, maps>>,
             \A i \in 1..Len(queue') : LeadOn(queue'[i])
      PROVE  Mirror'
  BY <1>1 DEF Mirror, BoardMirrored
<1>2. CASE Pump
  <2>1. ASSUME NEW t \in OnDoors, NEW n \in Nat PROVE LeadOn(Ruling(t, n))
    <3>1. active \in Map /\ t.at \in DoorsOf[active]
      BY DEF OnDoors, IInv, TypeOK
    <3> QED BY <3>1 DEF LeadOn, Ruling, DoorsLeadOn
  <2>2. ASSUME NEW i \in 1..Len(queue') PROVE LeadOn(queue'[i])
    BY <1>2, <2>1, SweptQueue DEF Mirror
  <2> QED BY <1>1, <1>2, <2>2 DEF Pump, session
<1>3. CASE Commit
  <2> DEFINE c == Head(queue)
  <2>1. \A i \in 1..Len(queue') : LeadOn(queue'[i])
    BY <1>3, QueueTail DEF Mirror
  <2>2. c \in Crossing \cup Request /\ LeadOn(c)
    BY <1>3, QueueTail DEF Mirror
  <2> HIDE DEF c
  <2>3. CASE c.kind = "Crossing" /\ Cross(c)
    <3>1. c \in Crossing /\ c.to # c.from
      BY <2>2, <2>3, RequestAssumption DEF LeadOn
    <3>2. maps'[active'] = board'
      BY <2>3, <3>1, CrossMoves
    <3> QED BY <2>1, <3>2 DEF Mirror, BoardMirrored
  <2>4. CASE UNCHANGED session
    BY <1>1, <2>1, <2>4 DEF session
  <2>5. CASE c.kind = "Activate" /\ Activate(c.map)
    BY <2>1, <2>5 DEF Activate, Switch, Mirror, BoardMirrored
  <2>6. CASE c.kind = "Elapse" /\ Elapse
    BY <1>1, <2>1, <2>6 DEF Elapse
  <2>7. CASE c.kind = "Travel" /\ Travel(c.map)
    <3>1. c.map \in Map
      BY <2>2, <2>7, RequestAssumption DEF Crossing
    <3>2. active' \in Map /\ maps' = [maps EXCEPT ![active'] = board] /\ board' = board
      BY <2>7, <3>1 DEF Travel, IInv, TypeOK
    <3>3. maps'[active'] = board'
      BY <3>2 DEF IInv, TypeOK
    <3> QED BY <2>1, <3>3 DEF Mirror, BoardMirrored
  <2> QED BY <1>3, <2>3, <2>4, <2>5, <2>6, <2>7 DEF Commit, c
<1>4. CASE CloseRound
  BY <1>1, <1>4 DEF CloseRound, Mirror
<1>5. ASSUME NEW t \in board, NEW tile \in Tile, Walk(t, tile) PROVE Mirror'
  <2>1. maps'[active'] = board'
    BY <1>5 DEF Walk, IInv, TypeOK
  <2> QED BY <1>5, <2>1 DEF Walk, Mirror, BoardMirrored
<1>6. ASSUME NEW c \in Request, Command(c) PROVE Mirror'
  <2>1. c.kind # "Crossing"
    BY RequestAssumption
  <2>2. ASSUME NEW i \in 1..Len(queue') PROVE LeadOn(queue'[i])
    BY <1>6, <2>1, CommandedQueue DEF Mirror, LeadOn
  <2> QED BY <1>1, <1>6, <2>2 DEF Command, session
<1>7. CASE UNCHANGED vars
  BY <1>1, <1>7 DEF vars, session, counters, Mirror
<1> QED BY <1>2, <1>3, <1>4, <1>5, <1>6, <1>7 DEF Next

\* The registry's copy of the active map is the board after every commit, in
\* whatever order walks, crossings and switches fall (sync_active_map).
THEOREM Mirrored == ASSUME DoorsLeadOn PROVE Spec => []BoardMirrored
<1>1. Init => Mirror
  BY DEF Init, Mirror, BoardMirrored
<1>2. IInv /\ Mirror /\ [Next]_vars => Mirror'
  BY NextMirror
<1>3. Mirror => BoardMirrored
  BY DEF Mirror
<1> QED BY <1>1, <1>2, <1>3, AlwaysIInv, PTL DEF Spec

-----------------------------------------------------------------------------
(* Who holds a turn *)

LEMMA NextTurns ==
  ASSUME IInv, TurnsOnBoard, [Next]_vars
  PROVE  TurnsOnBoard'
<1>1. ASSUME UNCHANGED <<board, turns>> PROVE TurnsOnBoard'
  BY <1>1 DEF TurnsOnBoard, IdsOf
<1>2. CASE Pump
  BY <1>1, <1>2 DEF Pump, session
<1>3. CASE Commit
  <2> DEFINE c == Head(queue)
  <2>1. CASE Cross(c)
    <3>1. PICK t \in OnBoard(c.id) :
            IF c.activates THEN Switch(c.to, maps'[c.to])
            ELSE board' = board \ {t} /\ turns' = turns \ {c.id} /\ UNCHANGED active
      BY <2>1 DEF Cross
    <3> HIDE DEF c
    <3>2. CASE c.activates
      BY <3>1, <3>2 DEF Switch, TurnsOnBoard
    <3>3. CASE ~c.activates
      <4>1. board' = board \ {t} /\ turns' = turns \ {c.id} /\ t.id = c.id
        BY <3>1, <3>3 DEF OnBoard
      <4> QED BY <4>1 DEF TurnsOnBoard, IdsOf
    <3> QED BY <3>2, <3>3
  <2>2. CASE Activate(c.map)
    BY <2>2 DEF Activate, Switch, TurnsOnBoard
  <2>3. CASE UNCHANGED session \/ Elapse \/ Travel(c.map)
    BY <1>1, <2>3 DEF session, Elapse, Travel
  <2> QED BY <1>3, <2>1, <2>2, <2>3 DEF Commit
<1>4. CASE CloseRound
  BY <1>1, <1>4 DEF CloseRound
<1>5. ASSUME NEW t \in board, NEW tile \in Tile, Walk(t, tile) PROVE TurnsOnBoard'
  <2>1. /\ board' = (board \ {t}) \cup {[t EXCEPT !.at = tile]} /\ turns' = turns
        /\ [t EXCEPT !.at = tile].id = t.id
    BY <1>5 DEF Walk, IInv, TypeOK, Token
  <2>2. IdsOf(board) \subseteq IdsOf(board')
    BY <2>1 DEF IdsOf
  <2> QED BY <2>1, <2>2 DEF TurnsOnBoard
<1>6. ASSUME NEW c \in Request, Command(c) PROVE TurnsOnBoard'
  BY <1>1, <1>6 DEF Command, session
<1>7. CASE UNCHANGED vars
  BY <1>1, <1>7 DEF vars, session
<1> QED BY <1>2, <1>3, <1>4, <1>5, <1>6, <1>7 DEF Next

\* Nobody waits for the turn of a token that is not on the board, whichever
\* crossings and switches were committed before (apply_transition takes the
\* turn along, switch_map draws the order anew).
THEOREM Turns == Spec => []TurnsOnBoard
<1>1. Init => TurnsOnBoard
  BY DEF Init, TurnsOnBoard
<1>2. IInv /\ TurnsOnBoard /\ [Next]_vars => TurnsOnBoard'
  BY NextTurns
<1> QED BY <1>1, <1>2, AlwaysIInv, PTL DEF Spec

-----------------------------------------------------------------------------
(* Everyone stands once *)

\* The token t of m becomes the token u of n, and nothing else changes.
Moves(m, t, n, u) ==
  /\ maps' \in [Map -> SUBSET Token]
  /\ \A k \in Map : \A x \in Token :
       x \in maps'[k] <=> (x \in maps[k] /\ ~(k = m /\ x = t)) \/ (k = n /\ x = u)

\* A token that changes its tile on its map, or goes from one to another, is
\* still the one that stands for its creature.
LEMMA Moved ==
  ASSUME IInv, EveryoneOnce, NEW m \in Map, NEW n \in Map, NEW t \in maps[m], NEW u \in Token,
         u.who = t.who, Moves(m, t, n, u)
  PROVE  EveryoneOnce'
<1>1. \A k \in Map : maps[k] \subseteq Token /\ maps'[k] \subseteq Token
  BY DEF IInv, TypeOK, Moves
<1> USE DEF Moves
<1>2. ASSUME NEW w \in Who
      PROVE  \E k \in Map : \E x \in maps'[k] :
               x.who = w /\ \A l \in Map : \A y \in maps'[l] : y.who = w => l = k /\ y = x
  <2>a. PICK k \in Map : \E x \in maps[k] :
          x.who = w /\ \A l \in Map : \A y \in maps[l] : y.who = w => l = k /\ y = x
    BY DEF EveryoneOnce
  <2>1. PICK x \in maps[k] :
          x.who = w /\ \A l \in Map : \A y \in maps[l] : y.who = w => l = k /\ y = x
    BY <2>a
  <2>2. CASE w = t.who
    <3>1. k = m /\ x = t
      BY <2>1, <2>2
    <3>2. u \in maps'[n] /\ u.who = w
      BY <2>2
    <3>3. ASSUME NEW l \in Map, NEW y \in maps'[l], y.who = w PROVE l = n /\ y = u
      BY <1>1, <2>1, <3>1, <3>3
    <3> QED BY <3>2, <3>3
  <2>3. CASE w # t.who
    <3>1. x \in maps'[k]
      BY <1>1, <2>1, <2>3
    <3>2. ASSUME NEW l \in Map, NEW y \in maps'[l], y.who = w PROVE l = k /\ y = x
      BY <1>1, <2>1, <2>3, <3>2
    <3> QED BY <2>1, <3>1, <3>2
  <2> QED BY <2>2, <2>3
<1> QED BY <1>2 DEF EveryoneOnce

LEMMA NextOnce ==
  ASSUME DoorsLeadOn, Peril = {}, IInv, Mirror, EveryoneOnce, [Next]_vars
  PROVE  EveryoneOnce'
<1>1. ASSUME UNCHANGED maps PROVE EveryoneOnce'
  BY <1>1 DEF EveryoneOnce
<1>2. maps \in [Map -> SUBSET Token] /\ active \in Map /\ board = maps[active]
  BY DEF IInv, TypeOK, Mirror, BoardMirrored
<1>3. CASE Commit
  <2> DEFINE c == Head(queue)
  <2>1. c \in Crossing \cup Request /\ LeadOn(c)
    BY <1>3, QueueTail DEF Mirror
  <2> HIDE DEF c
  <2>2. CASE c.kind = "Crossing" /\ Cross(c)
    <3>1. c \in Crossing /\ c.to # c.from
      BY <2>1, <2>2, RequestAssumption DEF LeadOn
    <3>2. PICK t \in OnBoard(c.id) :
            /\ active = c.from /\ c.to # active /\ c.to \in Map
            /\ Arrived(c, t).who = t.who
            /\ maps'[active] = board \ {t}
            /\ maps'[c.to] = maps[c.to] \cup {Arrived(c, t)}
            /\ \A m \in Map \ {active, c.to} : maps'[m] = maps[m]
      BY <2>2, <3>1, CrossMoves
    <3>3. maps' \in [Map -> SUBSET Token]
      BY <2>2, <3>1, CrossIs
    <3>4. t \in maps[active] /\ Arrived(c, t) \in Token
      BY <1>2, <3>2, <3>3 DEF OnBoard
    <3>5. Moves(active, t, c.to, Arrived(c, t))
      BY <1>2, <3>2, <3>3 DEF Moves
    <3> QED BY <1>2, <3>2, <3>4, <3>5, Moved
  <2>3. CASE UNCHANGED session \/ Activate(c.map) \/ Elapse
    BY <1>1, <2>3 DEF session, Activate, Elapse
  <2>4. CASE Travel(c.map)
    BY <1>1, <1>2, <2>4 DEF Travel
  <2> QED BY <1>3, <2>2, <2>3, <2>4 DEF Commit, c
<1>4. ASSUME NEW t \in board, NEW tile \in Tile, Walk(t, tile) PROVE EveryoneOnce'
  <2>1. t \in Token /\ [t EXCEPT !.at = tile] \in Token /\ [t EXCEPT !.at = tile].who = t.who
    BY <1>2 DEF Token
  <2>2. maps' = [maps EXCEPT ![active] = (board \ {t}) \cup {[t EXCEPT !.at = tile]}]
    BY <1>4 DEF Walk
  <2>3. maps' \in [Map -> SUBSET Token]
    BY <1>2, <2>1, <2>2
  <2>4. Moves(active, t, active, [t EXCEPT !.at = tile])
    BY <1>2, <2>2, <2>3 DEF Moves
  <2> QED BY <1>2, <2>1, <2>4, Moved
<1>5. CASE Pump \/ CloseRound \/ UNCHANGED vars
  BY <1>1, <1>5 DEF Pump, CloseRound, vars, session
<1>6. ASSUME NEW c \in Request, Command(c) PROVE EveryoneOnce'
  BY <1>1, <1>6 DEF Command, session
<1> QED BY <1>3, <1>4, <1>5, <1>6 DEF Next

\* However rulings of one sweep are overtaken by walks, switches and each
\* other, a crossing neither loses nor doubles anybody (apply_transition): as
\* long as no encounter on the road puts one board over another (apply.rs:335).
THEOREM Once == ASSUME DoorsLeadOn, Peril = {} PROVE Spec => []EveryoneOnce
<1>1. Init => Mirror /\ EveryoneOnce
  BY StartAssumption DEF Init, Mirror, BoardMirrored, EveryoneOnce
<1>2. IInv /\ Mirror /\ [Next]_vars => Mirror'
  BY NextMirror
<1>3. IInv /\ Mirror /\ EveryoneOnce /\ [Next]_vars => EveryoneOnce'
  BY NextOnce
<1> QED BY <1>1, <1>2, <1>3, AlwaysIInv, PTL DEF Spec
=============================================================================
