----------------------------- MODULE TableProofs -----------------------------
(***************************************************************************)
(* Proofs about the app at the table (Table).                               *)
(*                                                                          *)
(* Lists, boards and what undoes an event come first, then what each handler *)
(* of the view leaves alone (Plays), the pump after it, the invariant IInv   *)
(* that every action keeps, the walk, and the theorems.                      *)
(***************************************************************************)
EXTENDS Table, Induction, SequenceTheorems

-----------------------------------------------------------------------------
(* Lists *)

\* A list is a function on 1..Len.
LEMMA ListFacts ==
  ASSUME NEW s, IsList(s)
  PROVE  Len(s) \in Nat /\ DOMAIN s = 1..Len(s) /\ Range(s) = {s[i] : i \in 1..Len(s)}
<1>1. Len(s) \in Nat /\ DOMAIN s = 1..Len(s)
  BY DEF IsList
<1> QED BY <1>1 DEF Range

\* A function on 1..n is a list.
LEMMA IsListOf ==
  ASSUME NEW n \in Nat, NEW s, DOMAIN s = 1..n, s = [i \in 1..n |-> s[i]]
  PROVE  IsList(s) /\ Len(s) = n
<1>1. \A i \in 1..n : s[i] \in Range(s)
  BY DEF Range
<1> DEFINE R == Range(s)
<1> HIDE DEF R
<1>2. s \in [1..n -> R]
  BY <1>1 DEF R
<1>3. s \in Seq(R)
  BY <1>2, IsASeq
<1>4. Len(s) = n
  BY <1>3
<1> QED BY <1>3, <1>4 DEF IsList, R

LEMMA EmptyList == IsList(<<>>) /\ Len(<<>>) = 0 /\ DOMAIN <<>> = {}
BY DEF IsList

\* A list and one more is a list, with one more at the end.
LEMMA ListAppend ==
  ASSUME NEW s, IsList(s), NEW e
  PROVE  /\ IsList(Append(s, e)) /\ Len(Append(s, e)) = Len(s) + 1
         /\ DOMAIN Append(s, e) = 1..(Len(s) + 1)
         /\ \A i \in 1..Len(s) : Append(s, e)[i] = s[i]
         /\ Append(s, e)[Len(s) + 1] = e
         /\ Range(Append(s, e)) = Range(s) \cup {e}
<1> DEFINE R == Range(s)
           T == R \cup {e}
<1>1. s \in Seq(R) /\ Len(s) \in Nat /\ DOMAIN s = 1..Len(s) /\ R = {s[i] : i \in 1..Len(s)}
  BY ListFacts DEF IsList
<1> HIDE DEF R
<1>4. s \in Seq(T) /\ e \in T
  <2>1. R \subseteq T
    OBVIOUS
  <2> HIDE DEF T
  <2>2. s \in Seq(T)
    BY <1>1, <2>1
  <2> QED BY <2>2 DEF T
<1> HIDE DEF T
<1>5. /\ Append(s, e) \in Seq(T)
      /\ DOMAIN Append(s, e) = 1..(Len(s) + 1)
      /\ Len(Append(s, e)) = Len(s) + 1
      /\ Append(s, e)[Len(s) + 1] = e
      /\ \A i \in 1..Len(s) : Append(s, e)[i] = s[i]
  BY <1>4, AppendProperties
<1>6. Range(Append(s, e)) = {Append(s, e)[i] : i \in 1..(Len(s) + 1)}
  BY <1>5 DEF Range
<1>7. 1..(Len(s) + 1) = 1..Len(s) \cup {Len(s) + 1}
  BY <1>1
<1>8. Range(Append(s, e)) = T
  BY <1>1, <1>5, <1>6, <1>7 DEF T
<1> QED BY <1>1, <1>5, <1>8 DEF IsList, T, R

\* Two lists of the same length that agree everywhere are one.
LEMMA ListsEqual ==
  ASSUME NEW s, IsList(s), NEW t, IsList(t), Len(s) = Len(t), \A i \in 1..Len(s) : s[i] = t[i]
  PROVE  s = t
<1> DEFINE T == Range(s) \cup Range(t)
<1>1. s \in Seq(T) /\ t \in Seq(T)
  <2>1. Range(s) \subseteq T /\ Range(t) \subseteq T
    OBVIOUS
  <2>2. s \in Seq(Range(s)) /\ t \in Seq(Range(t))
    BY DEF IsList
  <2> HIDE DEF T
  <2> DEFINE R == Range(s)
             Q == Range(t)
  <2> HIDE DEF R, Q
  <2>3. s \in Seq(R) /\ t \in Seq(Q) /\ R \subseteq T /\ Q \subseteq T
    BY <2>1, <2>2 DEF R, Q
  <2> QED BY <2>3
<1> HIDE DEF T
<1> QED BY <1>1, SeqEqual

\* A list from its end.
LEMMA ListReverse ==
  ASSUME NEW s, IsList(s)
  PROVE  /\ IsList(Reverse(s)) /\ Len(Reverse(s)) = Len(s)
         /\ \A i \in 1..Len(s) : Reverse(s)[i] = s[Len(s) - i + 1]
<1>1. Len(s) \in Nat
  BY ListFacts
<1>2. /\ DOMAIN Reverse(s) = 1..Len(s)
      /\ Reverse(s) = [i \in 1..Len(s) |-> Reverse(s)[i]]
      /\ \A i \in 1..Len(s) : Reverse(s)[i] = s[Len(s) - i + 1]
  BY <1>1 DEF Reverse
<1> QED BY <1>1, <1>2, IsListOf

\* A list without its last.
LEMMA ListFront ==
  ASSUME NEW s, IsList(s), s # <<>>
  PROVE  /\ IsList(Front(s)) /\ Len(Front(s)) = Len(s) - 1 /\ Len(s) - 1 \in Nat
         /\ \A i \in 1..(Len(s) - 1) : Front(s)[i] = s[i]
         /\ Last(s) = s[Len(s)] /\ Len(s) \in DOMAIN s
<1>1. Len(s) \in Nat /\ DOMAIN s = 1..Len(s) /\ s \in Seq(Range(s))
  BY ListFacts DEF IsList
<1>2. Len(s) # 0
  <2> DEFINE R == Range(s)
  <2>1. s \in Seq(R)
    BY <1>1
  <2> HIDE DEF R
  <2> QED BY <2>1, EmptySeq
<1>3. Len(s) - 1 \in Nat
  BY <1>1, <1>2
<1>4. /\ DOMAIN Front(s) = 1..(Len(s) - 1)
      /\ Front(s) = [i \in 1..(Len(s) - 1) |-> Front(s)[i]]
      /\ \A i \in 1..(Len(s) - 1) : Front(s)[i] = s[i]
  <2> DEFINE R == Range(s)
             F == Front(s)
  <2>1. s \in Seq(R)
    BY <1>1
  <2> HIDE DEF R
  <2>2. F \in Seq(R) /\ Len(F) = Len(s) - 1 /\ \A i \in 1..(Len(s) - 1) : F[i] = s[i]
    BY <2>1, <1>1, <1>3, SubSeqProperties DEF Front
  <2> HIDE DEF F
  <2>3. DOMAIN F = 1..(Len(s) - 1) /\ F = [i \in 1..(Len(s) - 1) |-> F[i]]
    BY <2>2, <1>3
  <2> QED BY <2>2, <2>3 DEF F
<1> QED BY <1>1, <1>2, <1>3, <1>4, IsListOf DEF Last

\* A list without its first.
LEMMA ListTail ==
  ASSUME NEW s, IsList(s), s # <<>>
  PROVE  IsList(Tail(s)) /\ Range(Tail(s)) \subseteq Range(s) /\ Head(s) \in Range(s)
<1> DEFINE R == Range(s)
           F == Tail(s)
<1>1. s \in Seq(R)
  BY DEF IsList
<1> HIDE DEF R
<1>2. Head(s) \in R /\ F \in Seq(R)
  BY <1>1, HeadTailProperties
<1> HIDE DEF F
<1>3. Range(F) \in SUBSET R /\ F \in Seq(Range(F))
  BY <1>2, RangeOfSeq, SeqOfRange
<1> QED BY <1>2, <1>3 DEF R, F, IsList

\* Two lists in a row.
LEMMA ListConcat ==
  ASSUME NEW s, IsList(s), NEW t, IsList(t)
  PROVE  IsList(s \o t) /\ Range(s \o t) = Range(s) \cup Range(t)
<1> DEFINE T == Range(s) \cup Range(t)
           C == s \o t
<1>1. s \in Seq(T) /\ t \in Seq(T)
  <2> DEFINE R == Range(s)
             Q == Range(t)
  <2>1. s \in Seq(R) /\ t \in Seq(Q) /\ R \subseteq T /\ Q \subseteq T
    BY DEF IsList
  <2> HIDE DEF R, Q, T
  <2> QED BY <2>1
<1> HIDE DEF T
<1>2. C \in Seq(T) /\ Range(C) = Range(s) \cup Range(t)
  BY <1>1, ConcatProperties, RangeConcatenation
<1> HIDE DEF C
<1>3. C \in Seq(Range(C))
  BY <1>2, SeqOfRange
<1> QED BY <1>2, <1>3 DEF C, IsList

\* A list without its k-th: the ones after it move up.
LEMMA ListRemoveAt ==
  ASSUME NEW s, IsList(s), NEW k \in DOMAIN s
  PROVE  /\ IsList(RemoveAt(s, k)) /\ Len(RemoveAt(s, k)) = Len(s) - 1
         /\ DOMAIN RemoveAt(s, k) = 1..(Len(s) - 1)
         /\ \A i \in 1..(Len(s) - 1) : RemoveAt(s, k)[i] = s[IF i < k THEN i ELSE i + 1]
         /\ Range(RemoveAt(s, k)) = {s[i] : i \in 1..Len(s) \ {k}}
<1> DEFINE R == Range(s)
           F == RemoveAt(s, k)
           A == SubSeq(s, 1, k - 1)
           B == SubSeq(s, k + 1, Len(s))
<1>1. s \in Seq(R) /\ Len(s) \in Nat /\ k \in 1..Len(s) /\ \A i \in 1..Len(s) : s[i] \in R
  BY ListFacts DEF IsList
<1> HIDE DEF R
<1>2. /\ A \in Seq(R) /\ Len(A) = k - 1
      /\ \A i \in 1..(k - 1) : A[i] = s[i]
  <2>1. k - 1 \in Int /\ 1 \in Int /\ \A i \in 1..(k - 1) : s[i] \in R
    BY <1>1
  <2>2. A \in Seq(R) /\ Len(A) = (IF 1 <= k - 1 THEN (k - 1) - 1 + 1 ELSE 0)
        /\ \A i \in 1..((k - 1) - 1 + 1) : A[i] = s[1 + i - 1]
    BY <2>1, SubSeqProperties
  <2> HIDE DEF A
  <2> QED BY <1>1, <2>2
<1>3. /\ B \in Seq(R) /\ Len(B) = Len(s) - k
      /\ \A i \in 1..(Len(s) - k) : B[i] = s[k + i]
  <2>1. k + 1 \in Int /\ Len(s) \in Int /\ \A i \in (k + 1)..Len(s) : s[i] \in R
    BY <1>1
  <2>2. B \in Seq(R) /\ Len(B) = (IF k + 1 <= Len(s) THEN Len(s) - (k + 1) + 1 ELSE 0)
        /\ \A i \in 1..(Len(s) - (k + 1) + 1) : B[i] = s[(k + 1) + i - 1]
    BY <2>1, SubSeqProperties, SMTT(60)
  <2> HIDE DEF B
  <2> QED BY <1>1, <2>2
<1>4. F = A \o B
  BY DEF RemoveAt
<1> HIDE DEF A, B, F
<1>5. /\ F \in Seq(R) /\ Len(F) = Len(A) + Len(B)
      /\ \A i \in 1..(Len(A) + Len(B)) : F[i] = IF i <= Len(A) THEN A[i] ELSE B[i - Len(A)]
  BY <1>2, <1>3, <1>4, ConcatProperties
<1>6. Len(F) = Len(s) - 1 /\ DOMAIN F = 1..(Len(s) - 1)
  BY <1>1, <1>2, <1>3, <1>5
<1>7. ASSUME NEW i \in 1..(Len(s) - 1) PROVE F[i] = s[IF i < k THEN i ELSE i + 1]
  <2>1. F[i] = IF i <= k - 1 THEN A[i] ELSE B[i - (k - 1)]
    BY <1>1, <1>2, <1>3, <1>5, SMTT(60)
  <2>2. CASE i < k
    BY <1>1, <1>2, <2>1, <2>2
  <2>3. CASE ~(i < k)
    <3>1. i - (k - 1) \in 1..(Len(s) - k) /\ k + (i - (k - 1)) = i + 1 /\ ~(i <= k - 1)
      BY <1>1, <2>3
    <3> QED BY <1>3, <2>1, <2>3, <3>1
  <2> QED BY <2>2, <2>3
<1>8. F \in Seq(Range(F)) /\ Range(F) = {F[i] : i \in 1..(Len(s) - 1)}
  BY <1>5, <1>6, SeqOfRange, RangeEquality
<1>9. {F[i] : i \in 1..(Len(s) - 1)} = {s[i] : i \in 1..Len(s) \ {k}}
  <2>1. ASSUME NEW i \in 1..(Len(s) - 1) PROVE \E j \in 1..Len(s) \ {k} : F[i] = s[j]
    <3>1. (IF i < k THEN i ELSE i + 1) \in 1..Len(s) \ {k}
      BY <1>1
    <3> QED BY <1>7, <3>1
  <2>2. ASSUME NEW j \in 1..Len(s) \ {k} PROVE \E i \in 1..(Len(s) - 1) : F[i] = s[j]
    <3> DEFINE i == IF j < k THEN j ELSE j - 1
    <3>1. i \in 1..(Len(s) - 1) /\ (IF i < k THEN i ELSE i + 1) = j
      BY <1>1
    <3> HIDE DEF i
    <3> QED BY <1>7, <3>1
  <2>3. {F[i] : i \in 1..(Len(s) - 1)} \subseteq {s[i] : i \in 1..Len(s) \ {k}}
    BY <2>1
  <2>4. {s[i] : i \in 1..Len(s) \ {k}} \subseteq {F[i] : i \in 1..(Len(s) - 1)}
    BY <2>2
  <2> QED BY <2>3, <2>4
<1> QED BY <1>5, <1>6, <1>7, <1>8, <1>9 DEF F, IsList

-----------------------------------------------------------------------------
(* Boards *)

\* The ids of a set of tokens, and tokens each with its own.
OwnIds(ts) == \A t \in ts : IsToken(t) /\ \A s \in ts : s.id = t.id => s = t

\* The tokens of a document stand on it, each with an id of its own, and are
\* found by it.
LEMMA TokenFacts ==
  ASSUME NEW m, IsDocument(m)
  PROVE  /\ OwnIds(Range(m.tokens))
         /\ \A t \in Range(m.tokens) : t.at \in Cells(m)
         /\ \A t \in Range(m.tokens) : TokenOf(m, t.id) = t /\ t.id \in Nat \ {0} /\ t.id \in Ids(m)
         /\ \A id \in Ids(m) : /\ TokenOf(m, id) \in Range(m.tokens) /\ TokenOf(m, id).id = id
                               /\ PlaceOf(m, id) \in DOMAIN m.tokens
                               /\ m.tokens[PlaceOf(m, id)] = TokenOf(m, id)
                               /\ id \in Nat \ {0}
<1> DEFINE T == m.tokens
           R == Range(T)
<1>1. IsList(T) /\ (\A n \in DOMAIN T : IsToken(T[n]) /\ T[n].at \in Cells(m))
  BY DEF IsDocument
<1>2. \A n, k \in DOMAIN T : T[n].id = T[k].id => n = k
  BY DEF IsDocument
<1>3. \A t \in R : \E n \in DOMAIN T : T[n] = t
  BY DEF Range
<1>4. \A n \in DOMAIN T : T[n] \in R
  BY DEF Range
<1>5. \A t \in R : IsToken(t) /\ t.at \in Cells(m) /\ \A s \in R : s.id = t.id => s = t
  BY <1>1, <1>2, <1>3
<1>6. \A t \in R : t.id \in Nat \ {0} /\ t.id \in Ids(m)
  BY <1>5 DEF IsToken, Ids
<1>7. ASSUME NEW id \in Ids(m)
      PROVE  TokenOf(m, id) \in R /\ TokenOf(m, id).id = id
  <2>1. \E t \in R : t.id = id
    BY DEF Ids
  <2> QED BY <2>1 DEF TokenOf
<1>8. ASSUME NEW id \in Ids(m)
      PROVE  PlaceOf(m, id) \in DOMAIN T /\ T[PlaceOf(m, id)].id = id
  <2>1. \E t \in R : t.id = id
    BY DEF Ids
  <2>2. \E n \in DOMAIN T : T[n].id = id
    BY <2>1, <1>3
  <2> QED BY <2>2 DEF PlaceOf
<1>9. \A id \in Ids(m) : T[PlaceOf(m, id)] = TokenOf(m, id) /\ id \in Nat \ {0}
  BY <1>4, <1>5, <1>6, <1>7, <1>8
<1>10. \A t \in R : TokenOf(m, t.id) = t
  BY <1>5, <1>6, <1>7
<1> HIDE DEF R
<1> QED BY <1>5, <1>6, <1>7, <1>8, <1>9, <1>10 DEF OwnIds, R

\* The board of a document: what its events are about.
Board(m) == <<m.width, m.height, m.kinds, Laid(m)>>

Retokened(ts, e) ==
  CASE e.kind = "TokenPlaced"  -> ts \cup {e.token}
    [] e.kind = "TokenMoved"   -> {IF t.id = e.id THEN [t EXCEPT !.at = e.to] ELSE t : t \in ts}
    [] e.kind = "TokenFaced"   -> {IF t.id = e.id THEN [t EXCEPT !.facing = e.facing] ELSE t : t \in ts}
    [] e.kind = "TokenRemoved" -> {t \in ts : t.id # e.id}
    [] OTHER -> ts

Relaid(l, e) ==
  [ground    |-> IF e.kind = "TilePlaced" /\ e.layer = "ground" THEN [l.ground EXCEPT ![e.at] = e.tile] ELSE l.ground,
   props     |-> IF e.kind = "TilePlaced" /\ e.layer # "ground" THEN [l.props EXCEPT ![e.at] = e.tile] ELSE l.props,
   elevation |-> IF e.kind = "ElevationSet" THEN [l.elevation EXCEPT ![e.at] = e.height] ELSE l.elevation,
   tokens    |-> Retokened(l.tokens, e)]

\* What an event leaves alone.
Beside(m) == <<m.sheets, m.defeated, m.conditions, m.mobility, m.counters, m.stances>>

\* A board event is of one of six kinds.
LEMMA EventKinds ==
  ASSUME NEW e, IsEvent(e)
  PROVE  e.kind \in {"TilePlaced", "ElevationSet", "TokenPlaced", "TokenMoved", "TokenFaced", "TokenRemoved"}
BY DEF IsEvent

\* A document whose layers alone changed.
LEMMA Layered ==
  ASSUME NEW m, IsDocument(m), NEW n, DOMAIN n = DOMAIN m,
         n.width = m.width, n.height = m.height, n.kinds = m.kinds, n.tokens = m.tokens,
         Beside(n) = Beside(m),
         {n.ground, n.props} \subseteq [Cells(m) -> 0..(Len(m.kinds) - 1)],
         n.elevation \in [Cells(m) -> Nat]
  PROVE  IsDocument(n)
<1>1. Cells(n) = Cells(m)
  BY DEF Cells
<1>2. n.sheets = m.sheets /\ n.mobility = m.mobility
  BY DEF Beside
<1> QED BY <1>1, <1>2 DEF IsDocument

\* A document whose tokens alone changed.
LEMMA Peopled ==
  ASSUME NEW m, IsDocument(m), NEW n, DOMAIN n = DOMAIN m,
         n.width = m.width, n.height = m.height, n.kinds = m.kinds,
         n.ground = m.ground, n.props = m.props, n.elevation = m.elevation,
         Beside(n) = Beside(m), IsList(n.tokens),
         \A k \in DOMAIN n.tokens : IsToken(n.tokens[k]) /\ n.tokens[k].at \in Cells(m),
         \A k, j \in DOMAIN n.tokens : n.tokens[k].id = n.tokens[j].id => k = j
  PROVE  IsDocument(n)
<1>1. Cells(n) = Cells(m)
  BY DEF Cells
<1>2. n.sheets = m.sheets /\ n.mobility = m.mobility
  BY DEF Beside
<1> QED BY <1>1, <1>2 DEF IsDocument

\* A token changed in place: the list is as long, and every id where it was.
LEMMA InPlace ==
  ASSUME NEW T, IsList(T), NEW S, S = [n \in DOMAIN T |-> S[n]],
         \A n \in DOMAIN T : S[n].id = T[n].id,
         \A n, k \in DOMAIN T : T[n].id = T[k].id => n = k
  PROVE  /\ IsList(S) /\ DOMAIN S = DOMAIN T
         /\ Range(S) = {S[n] : n \in DOMAIN T}
         /\ \A n, k \in DOMAIN S : S[n].id = S[k].id => n = k
<1>1. DOMAIN S = DOMAIN T
  OBVIOUS
<1>2. Len(T) \in Nat /\ DOMAIN T = 1..Len(T)
  BY ListFacts
<1>3. IsList(S)
  BY <1>2, IsListOf
<1> QED BY <1>1, <1>3 DEF Range

\* A tile or height event on a board it fits.
LEMMA AppliedTile ==
  ASSUME NEW m, IsDocument(m), NEW e, IsEvent(e), ~Rejects(m, e), e.kind \in {"TilePlaced", "ElevationSet"}
  PROVE  LET n == AppliedTo(m, e)
         IN  /\ IsDocument(n) /\ Laid(n) = Relaid(Laid(m), e)
             /\ n.width = m.width /\ n.height = m.height /\ n.kinds = m.kinds /\ Beside(n) = Beside(m)
<1> DEFINE n == AppliedTo(m, e)
<1>0. /\ DOMAIN m = Parts /\ Len(m.kinds) \in Nat
      /\ m.ground \in [Cells(m) -> 0..(Len(m.kinds) - 1)]
      /\ m.props \in [Cells(m) -> 0..(Len(m.kinds) - 1)]
      /\ m.elevation \in [Cells(m) -> Nat]
  BY ListFacts DEF IsDocument
<1>1. CASE e.kind = "TilePlaced"
  <2>1. e.layer \in {"ground", "prop"} /\ e.tile \in 0..(Len(m.kinds) - 1) /\ e.at \in Cells(m)
    BY <1>0, <1>1 DEF IsEvent, Rejects, InBounds
  <2>2. n = IF e.layer = "ground" THEN [m EXCEPT !.ground[e.at] = e.tile] ELSE [m EXCEPT !.props[e.at] = e.tile]
    BY <1>1 DEF AppliedTo
  <2> HIDE DEF n
  <2>3. /\ DOMAIN n = DOMAIN m /\ n.elevation = m.elevation /\ n.tokens = m.tokens
        /\ n.ground = IF e.layer = "ground" THEN [m.ground EXCEPT ![e.at] = e.tile] ELSE m.ground
        /\ n.props = IF e.layer = "ground" THEN m.props ELSE [m.props EXCEPT ![e.at] = e.tile]
        /\ n.width = m.width /\ n.height = m.height /\ n.kinds = m.kinds /\ Beside(n) = Beside(m)
    BY <1>0, <2>2 DEF Parts, Beside
  <2>4. n.ground \in [Cells(m) -> 0..(Len(m.kinds) - 1)] /\ n.props \in [Cells(m) -> 0..(Len(m.kinds) - 1)]
    BY <1>0, <2>1, <2>3
  <2>5. IsDocument(n)
    BY <1>0, <2>3, <2>4, Layered
  <2>6. Laid(n) = Relaid(Laid(m), e)
    BY <1>1, <2>1, <2>3 DEF Laid, Relaid, Retokened
  <2> QED BY <2>3, <2>5, <2>6 DEF n
<1>2. CASE e.kind = "ElevationSet"
  <2>1. e.height \in Nat /\ e.at \in Cells(m)
    BY <1>0, <1>2 DEF IsEvent, Rejects, InBounds
  <2>2. n = [m EXCEPT !.elevation[e.at] = e.height]
    BY <1>2 DEF AppliedTo
  <2> HIDE DEF n
  <2>3. /\ DOMAIN n = DOMAIN m /\ n.tokens = m.tokens /\ n.ground = m.ground /\ n.props = m.props
        /\ n.elevation = [m.elevation EXCEPT ![e.at] = e.height]
        /\ n.width = m.width /\ n.height = m.height /\ n.kinds = m.kinds /\ Beside(n) = Beside(m)
    BY <1>0, <2>2 DEF Parts, Beside
  <2>4. n.elevation \in [Cells(m) -> Nat]
    BY <1>0, <2>1, <2>3
  <2>5. IsDocument(n)
    BY <1>0, <2>3, <2>4, Layered
  <2>6. Laid(n) = Relaid(Laid(m), e)
    BY <1>2, <2>1, <2>3 DEF Laid, Relaid, Retokened
  <2> QED BY <2>3, <2>5, <2>6 DEF n
<1> QED BY <1>1, <1>2

\* A token event on a board it fits.
LEMMA AppliedToken ==
  ASSUME NEW m, IsDocument(m), NEW e, IsEvent(e), ~Rejects(m, e),
         e.kind \in {"TokenPlaced", "TokenMoved", "TokenFaced", "TokenRemoved"}
  PROVE  LET n == AppliedTo(m, e)
         IN  /\ IsDocument(n) /\ Laid(n) = Relaid(Laid(m), e)
             /\ n.width = m.width /\ n.height = m.height /\ n.kinds = m.kinds /\ Beside(n) = Beside(m)
<1> DEFINE n == AppliedTo(m, e)
           T == m.tokens
           S == n.tokens
<1>0. /\ DOMAIN m = Parts /\ IsList(T)
      /\ \A k \in DOMAIN T : IsToken(T[k]) /\ T[k].at \in Cells(m)
      /\ \A k, j \in DOMAIN T : T[k].id = T[j].id => k = j
  BY DEF IsDocument
<1>t. Len(T) \in Nat /\ DOMAIN T = 1..Len(T) /\ Range(T) = {T[i] : i \in 1..Len(T)}
  BY <1>0, ListFacts
<1>1. SUFFICES ASSUME n = [m EXCEPT !.tokens = S] PROVE
         /\ IsList(S) /\ Range(S) = Retokened(Range(T), e)
         /\ \A k \in DOMAIN S : IsToken(S[k]) /\ S[k].at \in Cells(m)
         /\ \A k, j \in DOMAIN S : S[k].id = S[j].id => k = j
  <2>1. n = [m EXCEPT !.tokens = S]
    <3>1. \E v : n = [m EXCEPT !.tokens = v]
      BY DEF AppliedTo, Retoken
    <3> HIDE DEF n
    <3> QED BY <1>0, <3>1 DEF Parts
  <2> HIDE DEF n
  <2>2. /\ DOMAIN n = DOMAIN m /\ n.ground = m.ground /\ n.props = m.props /\ n.elevation = m.elevation
        /\ n.width = m.width /\ n.height = m.height /\ n.kinds = m.kinds /\ Beside(n) = Beside(m)
    BY <1>0, <2>1 DEF Parts, Beside
  <2>3. IsDocument(n)
    BY <1>1, <2>1, <2>2, Peopled
  <2>4. Laid(n) = Relaid(Laid(m), e)
    BY <1>1, <2>1, <2>2 DEF Laid, Relaid
  <2> QED BY <2>2, <2>3, <2>4 DEF n
<1>2. CASE e.kind = "TokenPlaced"
  <2>1. IsToken(e.token) /\ e.token.at \in Cells(m) /\ e.token.id \notin Ids(m)
    BY <1>2 DEF IsEvent, Rejects, InBounds
  <2>2. S = Append(T, e.token)
    BY <1>0, <1>2 DEF AppliedTo, Parts
  <2> HIDE DEF S
  <2>3. /\ IsList(S) /\ DOMAIN S = 1..(Len(T) + 1) /\ S[Len(T) + 1] = e.token
        /\ \A i \in 1..Len(T) : S[i] = T[i]
        /\ Range(S) = Range(T) \cup {e.token}
    BY <1>0, <2>2, ListAppend
  <2>4. \A k \in 1..Len(T) : T[k].id # e.token.id
    BY <1>t, <2>1 DEF Ids
  <2>5. ASSUME NEW k \in DOMAIN S PROVE IsToken(S[k]) /\ S[k].at \in Cells(m)
    BY <1>0, <1>t, <2>1, <2>3
  <2>6. ASSUME NEW k \in DOMAIN S, NEW j \in DOMAIN S, S[k].id = S[j].id PROVE k = j
    BY <1>0, <1>t, <2>3, <2>4, <2>6, SMTT(60)
  <2>7. Range(S) = Retokened(Range(T), e)
    BY <1>2, <2>3 DEF Retokened
  <2> QED BY <2>3, <2>5, <2>6, <2>7
<1>3. CASE e.kind = "TokenMoved"
  <2>1. e.to \in Cells(m)
    BY <1>3 DEF Rejects, InBounds
  <2>2. S = [k \in DOMAIN T |-> IF T[k].id = e.id THEN [T[k] EXCEPT !.at = e.to] ELSE T[k]]
    BY <1>0, <1>3 DEF AppliedTo, Retoken, Parts
  <2> HIDE DEF S
  <2>3. \A k \in DOMAIN T : S[k] = IF T[k].id = e.id THEN [T[k] EXCEPT !.at = e.to] ELSE T[k]
    BY <2>2
  <2>4. ASSUME NEW k \in DOMAIN T PROVE S[k].id = T[k].id /\ IsToken(S[k]) /\ S[k].at \in Cells(m)
    <3>1. IsToken(T[k]) /\ T[k].at \in Cells(m)
      BY <1>0
    <3>2. CASE T[k].id = e.id
      BY <2>1, <2>3, <3>1, <3>2 DEF IsToken
    <3> QED BY <2>3, <3>1, <3>2
  <2>5. S = [k \in DOMAIN T |-> S[k]]
    BY <2>2
  <2>6. /\ IsList(S) /\ DOMAIN S = DOMAIN T /\ Range(S) = {S[k] : k \in DOMAIN T}
        /\ \A k, j \in DOMAIN S : S[k].id = S[j].id => k = j
    <3>1. \A k \in DOMAIN T : S[k].id = T[k].id
      BY <2>4
    <3>2. IsList(T) /\ \A k, j \in DOMAIN T : T[k].id = T[j].id => k = j
      BY <1>0
    <3> HIDE DEF T
    <3> QED BY <3>1, <3>2, <2>5, InPlace
  <2>7. Range(S) = {IF t.id = e.id THEN [t EXCEPT !.at = e.to] ELSE t : t \in Range(T)}
    <3> DEFINE Q == {IF t.id = e.id THEN [t EXCEPT !.at = e.to] ELSE t : t \in Range(T)}
    <3>1. ASSUME NEW k \in DOMAIN T PROVE S[k] \in Q
      BY <1>t, <2>3
    <3>2. ASSUME NEW q \in Q PROVE \E k \in DOMAIN T : q = S[k]
      <4>1. PICK k \in DOMAIN T : q = IF T[k].id = e.id THEN [T[k] EXCEPT !.at = e.to] ELSE T[k]
        BY <1>t
      <4> QED BY <2>3, <4>1
    <3> HIDE DEF Q
    <3>3. Range(S) \subseteq Q /\ Q \subseteq Range(S)
      BY <2>6, <3>1, <3>2
    <3> QED BY <3>3 DEF Q
  <2> QED BY <1>3, <2>4, <2>6, <2>7 DEF Retokened
<1>4. CASE e.kind = "TokenFaced"
  <2>2. S = [k \in DOMAIN T |-> IF T[k].id = e.id THEN [T[k] EXCEPT !.facing = e.facing] ELSE T[k]]
    BY <1>0, <1>4 DEF AppliedTo, Retoken, Parts
  <2> HIDE DEF S
  <2>3. \A k \in DOMAIN T : S[k] = IF T[k].id = e.id THEN [T[k] EXCEPT !.facing = e.facing] ELSE T[k]
    BY <2>2
  <2>4. ASSUME NEW k \in DOMAIN T PROVE S[k].id = T[k].id /\ IsToken(S[k]) /\ S[k].at \in Cells(m)
    <3>1. IsToken(T[k]) /\ T[k].at \in Cells(m)
      BY <1>0
    <3>2. CASE T[k].id = e.id
      BY <2>3, <3>1, <3>2 DEF IsToken
    <3> QED BY <2>3, <3>1, <3>2
  <2>5. S = [k \in DOMAIN T |-> S[k]]
    BY <2>2
  <2>6. /\ IsList(S) /\ DOMAIN S = DOMAIN T /\ Range(S) = {S[k] : k \in DOMAIN T}
        /\ \A k, j \in DOMAIN S : S[k].id = S[j].id => k = j
    <3>1. \A k \in DOMAIN T : S[k].id = T[k].id
      BY <2>4
    <3>2. IsList(T) /\ \A k, j \in DOMAIN T : T[k].id = T[j].id => k = j
      BY <1>0
    <3> HIDE DEF T
    <3> QED BY <3>1, <3>2, <2>5, InPlace
  <2>7. Range(S) = {IF t.id = e.id THEN [t EXCEPT !.facing = e.facing] ELSE t : t \in Range(T)}
    <3> DEFINE Q == {IF t.id = e.id THEN [t EXCEPT !.facing = e.facing] ELSE t : t \in Range(T)}
    <3>1. ASSUME NEW k \in DOMAIN T PROVE S[k] \in Q
      BY <1>t, <2>3
    <3>2. ASSUME NEW q \in Q PROVE \E k \in DOMAIN T : q = S[k]
      <4>1. PICK k \in DOMAIN T : q = IF T[k].id = e.id THEN [T[k] EXCEPT !.facing = e.facing] ELSE T[k]
        BY <1>t
      <4> QED BY <2>3, <4>1
    <3> HIDE DEF Q
    <3>3. Range(S) \subseteq Q /\ Q \subseteq Range(S)
      BY <2>6, <3>1, <3>2
    <3> QED BY <3>3 DEF Q
  <2> QED BY <1>4, <2>4, <2>6, <2>7 DEF Retokened
<1>5. CASE e.kind = "TokenRemoved"
  <2> DEFINE p == PlaceOf(m, e.id)
  <2>1. e.id \in Ids(m)
    BY <1>5 DEF Rejects
  <2>2. p \in DOMAIN T /\ T[p].id = e.id
    BY <2>1, TokenFacts
  <2>3. S = RemoveAt(T, p)
    BY <1>0, <1>5 DEF AppliedTo, Parts
  <2> HIDE DEF S, p
  <2>4. /\ IsList(S) /\ DOMAIN S = 1..(Len(T) - 1)
        /\ \A i \in 1..(Len(T) - 1) : S[i] = T[IF i < p THEN i ELSE i + 1]
        /\ Range(S) = {T[i] : i \in 1..Len(T) \ {p}}
    BY <1>0, <2>2, <2>3, ListRemoveAt
  <2>5. \A i \in 1..(Len(T) - 1) : (IF i < p THEN i ELSE i + 1) \in DOMAIN T
    BY <1>t, <2>2
  <2>6. ASSUME NEW k \in DOMAIN S PROVE IsToken(S[k]) /\ S[k].at \in Cells(m)
    BY <1>0, <2>4, <2>5
  <2>7. ASSUME NEW k \in DOMAIN S, NEW j \in DOMAIN S, S[k].id = S[j].id PROVE k = j
    <3>1. (IF k < p THEN k ELSE k + 1) = (IF j < p THEN j ELSE j + 1)
      BY <1>0, <2>4, <2>5, <2>7, SMTT(60)
    <3> QED BY <1>t, <2>2, <2>4, <3>1
  <2>8. \A i \in 1..Len(T) : T[i].id = e.id <=> i = p
    BY <1>0, <1>t, <2>2
  <2>9. Range(S) = {t \in Range(T) : t.id # e.id}
    BY <1>t, <2>4, <2>8
  <2> QED BY <1>5, <2>4, <2>6, <2>7, <2>9 DEF Retokened
<1> QED BY <1>2, <1>3, <1>4, <1>5

\* An event a board takes leaves a board, changed as the event says.
LEMMA Applied ==
  ASSUME NEW m, IsDocument(m), NEW e, IsEvent(e), ~Rejects(m, e)
  PROVE  LET n == AppliedTo(m, e)
         IN  /\ IsDocument(n) /\ Laid(n) = Relaid(Laid(m), e)
             /\ n.width = m.width /\ n.height = m.height /\ n.kinds = m.kinds /\ Beside(n) = Beside(m)
BY EventKinds, AppliedTile, AppliedToken

-----------------------------------------------------------------------------
(* What undoes an event *)

\* Boards that are the same agree on everything an event looks at.
LEMMA BoardSame ==
  ASSUME NEW m, NEW n, Board(m) = Board(n)
  PROVE  /\ m.width = n.width /\ m.height = n.height /\ m.kinds = n.kinds
         /\ m.ground = n.ground /\ m.props = n.props /\ m.elevation = n.elevation
         /\ Range(m.tokens) = Range(n.tokens) /\ Ids(m) = Ids(n) /\ Cells(m) = Cells(n)
         /\ \A id : TokenOf(m, id) = TokenOf(n, id)
<1>1. m.width = n.width /\ m.height = n.height /\ m.kinds = n.kinds /\ Laid(m) = Laid(n)
  BY DEF Board
<1>2. m.ground = n.ground /\ m.props = n.props /\ m.elevation = n.elevation
      /\ Range(m.tokens) = Range(n.tokens)
  BY <1>1 DEF Laid
<1> QED BY <1>1, <1>2 DEF Ids, Cells, TokenOf

\* What a board refuses, and what undoes an event on it, is a matter of the board.
LEMMA RulesSame ==
  ASSUME NEW m, NEW n, Board(m) = Board(n), NEW e, IsEvent(e)
  PROVE  (Rejects(m, e) <=> Rejects(n, e)) /\ InverseOf(m, e) = InverseOf(n, e)
<1>1. /\ m.width = n.width /\ m.height = n.height /\ m.kinds = n.kinds
      /\ m.ground = n.ground /\ m.props = n.props /\ m.elevation = n.elevation
      /\ Range(m.tokens) = Range(n.tokens) /\ Ids(m) = Ids(n) /\ Cells(m) = Cells(n)
      /\ \A id : TokenOf(m, id) = TokenOf(n, id)
  BY BoardSame
<1>2. Rejects(m, e) <=> Rejects(n, e)
  BY <1>1, EventKinds DEF Rejects, InBounds
<1>3. InverseOf(m, e) = InverseOf(n, e)
  BY <1>1, EventKinds DEF InverseOf
<1> QED BY <1>2, <1>3

\* The same event does the same to boards that are the same.
LEMMA AppliedSame ==
  ASSUME NEW m, IsDocument(m), NEW n, IsDocument(n), Board(m) = Board(n), NEW e, IsEvent(e), ~Rejects(m, e)
  PROVE  Board(AppliedTo(m, e)) = Board(AppliedTo(n, e))
<1>1. ~Rejects(n, e) /\ Laid(m) = Laid(n) /\ m.width = n.width /\ m.height = n.height /\ m.kinds = n.kinds
  BY RulesSame DEF Board
<1> DEFINE a == AppliedTo(m, e)
           b == AppliedTo(n, e)
<1>2. Laid(a) = Relaid(Laid(m), e) /\ a.width = m.width /\ a.height = m.height /\ a.kinds = m.kinds
  BY Applied
<1>3. Laid(b) = Relaid(Laid(n), e) /\ b.width = n.width /\ b.height = n.height /\ b.kinds = n.kinds
  BY <1>1, Applied
<1> HIDE DEF a, b
<1>4. Board(a) = Board(b)
  BY <1>1, <1>2, <1>3 DEF Board
<1> QED BY <1>4 DEF a, b

\* Tokens with ids of their own get back what they had.
LEMMA Retoken2 ==
  ASSUME NEW ts, OwnIds(ts), NEW s \in ts, NEW e, NEW i, e.id = s.id, i.id = s.id, i.kind = e.kind,
         \/ e.kind = "TokenMoved" /\ i.to = s.at
         \/ e.kind = "TokenFaced" /\ i.facing = s.facing
  PROVE  Retokened(Retokened(ts, e), i) = ts
<1> DEFINE new(t) == IF e.kind = "TokenMoved" THEN [t EXCEPT !.at = e.to] ELSE [t EXCEPT !.facing = e.facing]
           old(t) == IF e.kind = "TokenMoved" THEN [t EXCEPT !.at = i.to] ELSE [t EXCEPT !.facing = i.facing]
           go(t) == IF t.id = s.id THEN new(t) ELSE t
           back(t) == IF t.id = s.id THEN old(t) ELSE t
<1>1. ASSUME NEW t \in ts PROVE back(go(t)) = t
  <2>1. CASE t.id # s.id
    BY <2>1
  <2>2. CASE t.id = s.id
    <3>1. t = s
      BY <2>2 DEF OwnIds
    <3>2. t = [id |-> t.id, at |-> t.at, facing |-> t.facing, sprite |-> t.sprite, owner |-> t.owner]
      BY DEF OwnIds, IsToken
    <3>3. CASE e.kind = "TokenMoved"
      <4>1. go(t) = [t EXCEPT !.at = e.to] /\ go(t).id = t.id
        BY <2>2, <3>2, <3>3
      <4>2. back(go(t)) = [go(t) EXCEPT !.at = t.at]
        BY <2>2, <3>1, <3>3, <4>1
      <4> HIDE DEF back
      <4> QED BY <3>2, <4>1, <4>2
    <3>4. CASE e.kind = "TokenFaced"
      <4>1. go(t) = [t EXCEPT !.facing = e.facing] /\ go(t).id = t.id
        BY <2>2, <3>2, <3>4
      <4>2. back(go(t)) = [go(t) EXCEPT !.facing = t.facing]
        BY <2>2, <3>1, <3>4, <4>1
      <4> HIDE DEF back
      <4> QED BY <3>2, <4>1, <4>2
    <3> QED BY <3>3, <3>4
  <2> QED BY <2>1, <2>2
<1>2. Retokened(ts, e) = {go(t) : t \in ts}
  BY DEF Retokened
<1>3. Retokened(Retokened(ts, e), i) = {back(u) : u \in Retokened(ts, e)}
  BY DEF Retokened
<1> DEFINE A == {go(t) : t \in ts}
           B == {back(u) : u \in A}
<1> HIDE DEF go, back
<1>4. B \subseteq ts
  BY <1>1
<1>5. ts \subseteq B
  BY <1>1
<1> QED BY <1>2, <1>3, <1>4, <1>5

\* What undoes an event is an event the new board takes, and it brings back the old
\* one; it puts down what the event took up, and takes up what it put down.
LEMMA Undone ==
  ASSUME NEW m, IsDocument(m), NEW e, IsEvent(e), ~Rejects(m, e)
  PROVE  LET n == AppliedTo(m, e)
             i == InverseOf(m, e)
         IN  /\ IsEvent(i) /\ ~Rejects(n, i) /\ Board(AppliedTo(n, i)) = Board(m)
             /\ i.kind = "TokenRemoved" => e.kind = "TokenPlaced" /\ i.id = e.token.id
             /\ i.kind = "TokenPlaced" => e.kind = "TokenRemoved" /\ i.token.id = e.id
<1> DEFINE n == AppliedTo(m, e)
           i == InverseOf(m, e)
<1>0. /\ DOMAIN m = Parts /\ Len(m.kinds) \in Nat
      /\ m.ground \in [Cells(m) -> 0..(Len(m.kinds) - 1)]
      /\ m.props \in [Cells(m) -> 0..(Len(m.kinds) - 1)]
      /\ m.elevation \in [Cells(m) -> Nat]
  BY ListFacts DEF IsDocument
<1>1. /\ IsDocument(n) /\ Laid(n) = Relaid(Laid(m), e)
      /\ n.width = m.width /\ n.height = m.height /\ n.kinds = m.kinds
  BY Applied
<1>2. Cells(n) = Cells(m)
  BY <1>1 DEF Cells
<1>3. /\ Range(n.tokens) = Retokened(Range(m.tokens), e)
      /\ n.ground = Relaid(Laid(m), e).ground /\ n.props = Relaid(Laid(m), e).props
      /\ n.elevation = Relaid(Laid(m), e).elevation
  BY <1>1 DEF Laid, Relaid
<1>4. Ids(n) = {t.id : t \in Retokened(Range(m.tokens), e)}
  BY <1>3 DEF Ids
<1>5. OwnIds(Range(m.tokens)) /\ \A t \in Range(m.tokens) : t.at \in Cells(m)
  BY TokenFacts
<1> DEFINE s == TokenOf(m, e.id)
<1>6. e.id \in Ids(m) => s \in Range(m.tokens) /\ s.id = e.id
  BY TokenFacts
<1> HIDE DEF n, s
<1> SUFFICES
       /\ IsEvent(i) /\ ~Rejects(n, i) /\ Relaid(Relaid(Laid(m), e), i) = Laid(m)
       /\ i.kind = "TokenRemoved" => e.kind = "TokenPlaced" /\ i.id = e.token.id
       /\ i.kind = "TokenPlaced" => e.kind = "TokenRemoved" /\ i.token.id = e.id
  <2> HIDE DEF i
  <2> DEFINE p == AppliedTo(n, i)
  <2>1. Laid(p) = Relaid(Laid(n), i) /\ p.width = n.width /\ p.height = n.height /\ p.kinds = n.kinds
    BY <1>1, Applied
  <2> HIDE DEF p
  <2>2. Board(p) = Board(m)
    BY <1>1, <2>1 DEF Board
  <2> QED BY <2>2 DEF p, n, i
<1>7. CASE e.kind = "TilePlaced"
  <2>1. e.layer \in {"ground", "prop"} /\ e.tile \in Nat /\ e.at \in Cells(m) /\ DOMAIN e = {"kind", "layer", "at", "tile"}
    BY <1>7 DEF IsEvent, Rejects, InBounds
  <2>2. i = [e EXCEPT !.tile = IF e.layer = "ground" THEN m.ground[e.at] ELSE m.props[e.at]]
    BY <1>7 DEF InverseOf
  <2> HIDE DEF i
  <2>3. /\ DOMAIN i = {"kind", "layer", "at", "tile"} /\ i.kind = "TilePlaced" /\ i.layer = e.layer /\ i.at = e.at
        /\ i.tile = IF e.layer = "ground" THEN m.ground[e.at] ELSE m.props[e.at]
    BY <1>7, <2>1, <2>2
  <2>4. i.tile \in 0..(Len(m.kinds) - 1)
    BY <1>0, <2>1, <2>3
  <2>5. i.tile \in Nat
    BY <2>4
  <2>6. IsEvent(i)
    BY <2>1, <2>3, <2>5 DEF IsEvent
  <2>7. ~Rejects(n, i)
    BY <1>0, <1>1, <1>2, <2>1, <2>3, <2>4 DEF Rejects, InBounds
  <2>8. e.layer = "ground" => [[m.ground EXCEPT ![e.at] = e.tile] EXCEPT ![e.at] = i.tile] = m.ground
    BY <1>0, <2>1, <2>3
  <2>9. e.layer # "ground" => [[m.props EXCEPT ![e.at] = e.tile] EXCEPT ![e.at] = i.tile] = m.props
    BY <1>0, <2>1, <2>3
  <2>10. Relaid(Relaid(Laid(m), e), i) = Laid(m)
    BY <1>7, <2>1, <2>3, <2>8, <2>9 DEF Laid, Relaid, Retokened
  <2> QED BY <2>3, <2>6, <2>7, <2>10
<1>8. CASE e.kind = "ElevationSet"
  <2>1. e.height \in Nat /\ e.at \in Cells(m) /\ DOMAIN e = {"kind", "at", "height"}
    BY <1>8 DEF IsEvent, Rejects, InBounds
  <2>2. i = [e EXCEPT !.height = m.elevation[e.at]]
    BY <1>8 DEF InverseOf
  <2> HIDE DEF i
  <2>3. /\ DOMAIN i = {"kind", "at", "height"} /\ i.kind = "ElevationSet" /\ i.at = e.at
        /\ i.height = m.elevation[e.at]
    BY <1>8, <2>1, <2>2
  <2>4. i.height \in Nat
    BY <1>0, <2>1, <2>3
  <2>5. IsEvent(i)
    BY <2>3, <2>4 DEF IsEvent
  <2>6. ~Rejects(n, i)
    BY <1>2, <2>1, <2>3 DEF Rejects, InBounds
  <2>7. [[m.elevation EXCEPT ![e.at] = e.height] EXCEPT ![e.at] = i.height] = m.elevation
    BY <1>0, <2>1, <2>3
  <2>8. Relaid(Relaid(Laid(m), e), i) = Laid(m)
    BY <1>8, <2>1, <2>3, <2>7 DEF Laid, Relaid, Retokened
  <2> QED BY <2>3, <2>5, <2>6, <2>8
<1>9. CASE e.kind = "TokenPlaced"
  <2>1. IsToken(e.token) /\ e.token.id \notin Ids(m)
    BY <1>9 DEF IsEvent, Rejects
  <2>2. i = [kind |-> "TokenRemoved", id |-> e.token.id]
    BY <1>9 DEF InverseOf
  <2> HIDE DEF i
  <2>3. i.kind = "TokenRemoved" /\ i.id = e.token.id
    BY <2>2
  <2>4. IsEvent(i)
    BY <2>3 DEF IsEvent
  <2>5. e.token.id \in Ids(n)
    BY <1>4, <1>9 DEF Retokened
  <2>6. ~Rejects(n, i)
    BY <2>3, <2>5 DEF Rejects
  <2>7. \A t \in Range(m.tokens) : t.id # e.token.id
    BY <2>1 DEF Ids
  <2> DEFINE R == Range(m.tokens)
  <2>8. Retokened(Retokened(R, e), i) = {t \in R \cup {e.token} : t.id # e.token.id}
    BY <1>9, <2>3 DEF Retokened
  <2>9. Retokened(Retokened(R, e), i) = R
    BY <2>7, <2>8
  <2> HIDE DEF R
  <2>10. Relaid(Relaid(Laid(m), e), i) = Laid(m)
    BY <1>9, <2>3, <2>9 DEF Laid, Relaid, R
  <2> QED BY <1>9, <2>3, <2>4, <2>6, <2>10
<1>10. CASE e.kind = "TokenMoved"
  <2>1. e.id \in Ids(m) /\ DOMAIN e = {"kind", "id", "to"}
    BY <1>10 DEF IsEvent, Rejects
  <2>2. i = [e EXCEPT !.to = s.at]
    BY <1>10 DEF InverseOf, s
  <2> HIDE DEF i
  <2>3. i.kind = "TokenMoved" /\ i.id = e.id /\ i.to = s.at /\ DOMAIN i = {"kind", "id", "to"}
    BY <1>10, <2>1, <2>2
  <2>4. IsEvent(i)
    BY <2>3 DEF IsEvent
  <2>5. s \in Range(m.tokens) /\ s.id = e.id /\ s.at \in Cells(m)
    BY <1>5, <1>6, <2>1
  <2>6. e.id \in Ids(n)
    <3>1. [s EXCEPT !.at = e.to] \in Retokened(Range(m.tokens), e)
      BY <1>10, <2>5 DEF Retokened
    <3>2. [s EXCEPT !.at = e.to].id = e.id
      BY <1>5, <2>5 DEF OwnIds, IsToken
    <3> QED BY <1>4, <3>1, <3>2
  <2>7. ~Rejects(n, i)
    BY <1>2, <2>3, <2>5, <2>6 DEF Rejects, InBounds
  <2> DEFINE R == Range(m.tokens)
  <2>9. Retokened(Retokened(R, e), i) = R
    BY <1>5, <1>10, <2>3, <2>5, Retoken2
  <2> HIDE DEF R
  <2>10. Relaid(Relaid(Laid(m), e), i) = Laid(m)
    BY <1>10, <2>3, <2>9 DEF Laid, Relaid, R
  <2> QED BY <1>10, <2>3, <2>4, <2>7, <2>10
<1>11. CASE e.kind = "TokenFaced"
  <2>1. e.id \in Ids(m) /\ DOMAIN e = {"kind", "id", "facing"}
    BY <1>11 DEF IsEvent, Rejects
  <2>2. i = [e EXCEPT !.facing = s.facing]
    BY <1>11 DEF InverseOf, s
  <2> HIDE DEF i
  <2>3. i.kind = "TokenFaced" /\ i.id = e.id /\ i.facing = s.facing /\ DOMAIN i = {"kind", "id", "facing"}
    BY <1>11, <2>1, <2>2
  <2>4. IsEvent(i)
    BY <2>3 DEF IsEvent
  <2>5. s \in Range(m.tokens) /\ s.id = e.id
    BY <1>6, <2>1
  <2>6. e.id \in Ids(n)
    <3>1. [s EXCEPT !.facing = e.facing] \in Retokened(Range(m.tokens), e)
      BY <1>11, <2>5 DEF Retokened
    <3>2. [s EXCEPT !.facing = e.facing].id = e.id
      BY <1>5, <2>5 DEF OwnIds, IsToken
    <3> QED BY <1>4, <3>1, <3>2
  <2>7. ~Rejects(n, i)
    BY <2>3, <2>6 DEF Rejects
  <2> DEFINE R == Range(m.tokens)
  <2>9. Retokened(Retokened(R, e), i) = R
    BY <1>5, <1>11, <2>3, <2>5, Retoken2
  <2> HIDE DEF R
  <2>10. Relaid(Relaid(Laid(m), e), i) = Laid(m)
    BY <1>11, <2>3, <2>9 DEF Laid, Relaid, R
  <2> QED BY <1>11, <2>3, <2>4, <2>7, <2>10
<1>12. CASE e.kind = "TokenRemoved"
  <2>1. e.id \in Ids(m)
    BY <1>12 DEF Rejects
  <2>2. i = [kind |-> "TokenPlaced", token |-> s]
    BY <1>12 DEF InverseOf, s
  <2> HIDE DEF i
  <2>3. i.kind = "TokenPlaced" /\ i.token = s
    BY <2>2
  <2>5. s \in Range(m.tokens) /\ s.id = e.id /\ s.at \in Cells(m) /\ IsToken(s)
    BY <1>5, <1>6, <2>1 DEF OwnIds
  <2>4. IsEvent(i)
    BY <2>3, <2>5 DEF IsEvent
  <2>6. e.id \notin Ids(n)
    BY <1>4, <1>12 DEF Retokened
  <2>7. ~Rejects(n, i)
    BY <1>2, <2>3, <2>5, <2>6 DEF Rejects, InBounds
  <2> DEFINE R == Range(m.tokens)
  <2>8. Retokened(Retokened(R, e), i) = {t \in R : t.id # s.id} \cup {s}
    BY <1>12, <2>3, <2>5 DEF Retokened
  <2>9. Retokened(Retokened(R, e), i) = R
    <3>1. \A t \in R : t.id = s.id => t = s
      BY <1>5, <2>5 DEF OwnIds
    <3> QED BY <2>5, <2>8, <3>1
  <2> HIDE DEF R
  <2>10. Relaid(Relaid(Laid(m), e), i) = Laid(m)
    BY <1>12, <2>3, <2>9 DEF Laid, Relaid, R
  <2> QED BY <1>12, <2>3, <2>4, <2>5, <2>7, <2>10
<1> QED BY <1>7, <1>8, <1>9, <1>10, <1>11, <1>12, EventKinds

-----------------------------------------------------------------------------
(* Batches *)

\* The maps along a batch, each the one before with one event more.
LEMMA RunUnfold ==
  ASSUME NEW m, NEW events, Len(events) \in Nat
  PROVE  \E f : /\ f[0] = [map |-> m, inverses |-> <<>>]
                /\ \A k \in 1..Len(events) : f[k] = After(f[k - 1], events[k])
                /\ Run(m, events) = f[Len(events)]
<1> DEFINE N == Len(events)
           W == Run(m, events)
           base == [map |-> m, inverses |-> <<>>]
           P(n, f) == f = [k \in 0..n |-> IF k = 0 THEN base ELSE After(f[k - 1], events[k])]
           S == {n \in Nat : \E f : P(n, f)}
<1>0. N \in Nat
  OBVIOUS
<1>1. W = (CHOOSE f : P(N, f))[N]
  BY DEF Run
<1> HIDE DEF N, W, base
<1>2. 0 \in S
  <2>1. P(0, [k \in 0..0 |-> base])
    OBVIOUS
  <2> QED BY <2>1
<1>3. ASSUME NEW n \in Nat, n \in S PROVE n + 1 \in S
  <2>1. PICK f : P(n, f)
    BY <1>3
  <2> DEFINE next == After(f[n], events[(n + 1)])
             h == [k \in 0..(n + 1) |-> IF k = n + 1 THEN next ELSE f[k]]
  <2> HIDE DEF next
  <2>2. ASSUME NEW k \in 0..(n + 1)
        PROVE  h[k] = IF k = 0 THEN base ELSE After(h[k - 1], events[k])
    <3>1. CASE k = n + 1
      <4>1. h[k] = next /\ h[k - 1] = f[n] /\ k # 0
        BY <3>1
      <4> QED BY <3>1, <4>1 DEF next
    <3>2. CASE k \in 1..n
      <4>1. h[k] = f[k] /\ h[k - 1] = f[k - 1] /\ k # 0 /\ k \in 0..n
        BY <3>2
      <4>2. f[k] = After(f[k - 1], events[k])
        BY <2>1, <4>1
      <4> QED BY <4>1, <4>2
    <3>3. CASE k = 0
      <4>1. h[0] = f[0] /\ f[0] = base
        BY <2>1
      <4> QED BY <3>3, <4>1
    <3> QED BY <3>1, <3>2, <3>3
  <2>3. h = [k \in 0..(n + 1) |-> h[k]]
    OBVIOUS
  <2> HIDE DEF h
  <2>4. P(n + 1, h)
    BY <2>2, <2>3
  <2>5. n + 1 \in Nat
    OBVIOUS
  <2> HIDE DEF P
  <2> QED BY <2>4, <2>5
<1> HIDE DEF S
<1>4. N \in S
  BY <1>0, <1>2, <1>3, NatInduct
<1> DEFINE g == CHOOSE f : P(N, f)
<1>5. P(N, g)
  <2>1. \E f : P(N, f)
    BY <1>4 DEF S
  <2> HIDE DEF P, N
  <2> QED BY <2>1
<1>6. W = g[N]
  BY <1>1
<1> HIDE DEF g
<1>7. g[0] = base /\ \A k \in 1..N : g[k] = After(g[k - 1], events[k])
  BY <1>0, <1>5
<1> HIDE DEF P
<1>8. \E f : /\ f[0] = base
             /\ \A k \in 1..N : f[k] = After(f[k - 1], events[k])
             /\ W = f[N]
  BY <1>6, <1>7
<1> QED BY <1>8 DEF N, W, base

\* The boards along a stack of batches, the last batch first.
LEMMA PeelUnfold ==
  ASSUME NEW m, NEW stack, Len(stack) \in Nat
  PROVE  \E f : /\ f[0] = m
                /\ \A k \in 1..Len(stack) : f[k] = Run(f[k - 1], stack[Len(stack) - k + 1]).map
                /\ Peeled(m, stack) = f[Len(stack)]
<1> DEFINE N == Len(stack)
           W == Peeled(m, stack)
           base == m
           P(n, f) == f = [k \in 0..n |-> IF k = 0 THEN base ELSE Run(f[k - 1], stack[Len(stack) - k + 1]).map]
           S == {n \in Nat : \E f : P(n, f)}
<1>0. N \in Nat
  OBVIOUS
<1>1. W = (CHOOSE f : P(N, f))[N]
  BY DEF Peeled
<1> HIDE DEF N, W, base
<1>2. 0 \in S
  <2>1. P(0, [k \in 0..0 |-> base])
    OBVIOUS
  <2> QED BY <2>1
<1>3. ASSUME NEW n \in Nat, n \in S PROVE n + 1 \in S
  <2>1. PICK f : P(n, f)
    BY <1>3
  <2> DEFINE next == Run(f[n], stack[Len(stack) - (n + 1) + 1]).map
             h == [k \in 0..(n + 1) |-> IF k = n + 1 THEN next ELSE f[k]]
  <2> HIDE DEF next
  <2>2. ASSUME NEW k \in 0..(n + 1)
        PROVE  h[k] = IF k = 0 THEN base ELSE Run(h[k - 1], stack[Len(stack) - k + 1]).map
    <3>1. CASE k = n + 1
      <4>1. h[k] = next /\ h[k - 1] = f[n] /\ k # 0
        BY <3>1
      <4> QED BY <3>1, <4>1 DEF next
    <3>2. CASE k \in 1..n
      <4>1. h[k] = f[k] /\ h[k - 1] = f[k - 1] /\ k # 0 /\ k \in 0..n
        BY <3>2
      <4>2. f[k] = Run(f[k - 1], stack[Len(stack) - k + 1]).map
        BY <2>1, <4>1
      <4> QED BY <4>1, <4>2
    <3>3. CASE k = 0
      <4>1. h[0] = f[0] /\ f[0] = base
        BY <2>1
      <4> QED BY <3>3, <4>1
    <3> QED BY <3>1, <3>2, <3>3
  <2>3. h = [k \in 0..(n + 1) |-> h[k]]
    OBVIOUS
  <2> HIDE DEF h
  <2>4. P(n + 1, h)
    BY <2>2, <2>3
  <2>5. n + 1 \in Nat
    OBVIOUS
  <2> HIDE DEF P
  <2> QED BY <2>4, <2>5
<1> HIDE DEF S
<1>4. N \in S
  BY <1>0, <1>2, <1>3, NatInduct
<1> DEFINE g == CHOOSE f : P(N, f)
<1>5. P(N, g)
  <2>1. \E f : P(N, f)
    BY <1>4 DEF S
  <2> HIDE DEF P, N
  <2> QED BY <2>1
<1>6. W = g[N]
  BY <1>1
<1> HIDE DEF g
<1>7. g[0] = base /\ \A k \in 1..N : g[k] = Run(g[k - 1], stack[Len(stack) - k + 1]).map
  BY <1>0, <1>5
<1> HIDE DEF P
<1>8. \E f : /\ f[0] = base
             /\ \A k \in 1..N : f[k] = Run(f[k - 1], stack[Len(stack) - k + 1]).map
             /\ W = f[N]
  BY <1>6, <1>7
<1> QED BY <1>8 DEF N, W, base

\* Events to be run one after the other.
IsBatch(s) == IsList(s) /\ \A n \in DOMAIN s : IsEvent(s[n])

IsHistory(stack) == IsList(stack) /\ \A n \in DOMAIN stack : IsBatch(stack[n])

\* The ids a batch puts down, and those it takes up.
PutDown(s) == {s[n].token.id : n \in {k \in DOMAIN s : s[k].kind = "TokenPlaced"}}
TakenUp(s) == {s[n].id : n \in {k \in DOMAIN s : s[k].kind = "TokenRemoved"}}

\* A batch is a list of events.
LEMMA BatchFacts ==
  ASSUME NEW s, IsBatch(s)
  PROVE  IsList(s) /\ Len(s) \in Nat /\ DOMAIN s = 1..Len(s) /\ \A k \in 1..Len(s) : IsEvent(s[k])
<1>1. IsList(s) /\ \A n \in DOMAIN s : IsEvent(s[n])
  BY DEF IsBatch
<1> QED BY <1>1, ListFacts

\* A run of a document over a batch so far: what it kept and what it brought.
Ran(m, r, placed, removed) ==
  /\ DOMAIN r = {"map", "inverses"}
  /\ IsDocument(r.map)
  /\ r.map.width = m.width /\ r.map.height = m.height /\ r.map.kinds = m.kinds /\ Beside(r.map) = Beside(m)
  /\ IsBatch(r.inverses)
  /\ Ids(r.map) \subseteq Ids(m) \cup placed
  /\ TakenUp(r.inverses) \subseteq placed
  /\ PutDown(r.inverses) \subseteq removed

\* One event more of a batch keeps what Ran says.
LEMMA AfterRan ==
  ASSUME NEW m, NEW r, NEW placed, NEW removed, Ran(m, r, placed, removed), NEW e, IsEvent(e),
         e.kind = "TokenPlaced" => e.token.id \in placed,
         e.kind = "TokenRemoved" => e.id \in removed
  PROVE  Ran(m, After(r, e), placed, removed)
<1>1. CASE Rejects(r.map, e)
  BY <1>1 DEF After
<1>2. CASE ~Rejects(r.map, e)
  <2> DEFINE n == AppliedTo(r.map, e)
             i == InverseOf(r.map, e)
             q == After(r, e)
  <2>1. q = [map |-> n, inverses |-> Append(r.inverses, i)]
    BY <1>2 DEF After
  <2>2. DOMAIN q = {"map", "inverses"} /\ q.map = n /\ q.inverses = Append(r.inverses, i)
    BY <2>1
  <2>3. /\ IsDocument(n) /\ Laid(n) = Relaid(Laid(r.map), e)
        /\ n.width = r.map.width /\ n.height = r.map.height /\ n.kinds = r.map.kinds /\ Beside(n) = Beside(r.map)
    BY <1>2, Applied DEF Ran
  <2>4. /\ IsEvent(i)
        /\ i.kind = "TokenRemoved" => e.kind = "TokenPlaced" /\ i.id = e.token.id
        /\ i.kind = "TokenPlaced" => e.kind = "TokenRemoved" /\ i.token.id = e.id
    BY <1>2, Undone DEF Ran
  <2>5. Ids(n) \subseteq Ids(r.map) \cup placed
    <3>1. Ids(n) = {t.id : t \in Retokened(Range(r.map.tokens), e)}
      BY <2>3 DEF Ids, Laid, Relaid
    <3>2. OwnIds(Range(r.map.tokens))
      BY TokenFacts DEF Ran
    <3>3. ASSUME NEW t \in Retokened(Range(r.map.tokens), e) PROVE t.id \in Ids(r.map) \cup placed
      <4> DEFINE R == Range(r.map.tokens)
      <4>1. Ids(r.map) = {s.id : s \in R}
        BY DEF Ids
      <4>2. \A s \in R : [s EXCEPT !.at = e.to].id = s.id /\ [s EXCEPT !.facing = e.facing].id = s.id
        BY <3>2 DEF OwnIds, IsToken
      <4> HIDE DEF R
      <4>3. t \in Retokened(R, e)
        BY DEF R
      <4>5. t.id \in {s.id : s \in R} \cup placed
        <5>1. CASE e.kind = "TokenPlaced"
          BY <4>3, <5>1 DEF Retokened
        <5>2. CASE e.kind = "TokenMoved"
          <6>1. PICK s \in R : t = IF s.id = e.id THEN [s EXCEPT !.at = e.to] ELSE s
            BY <4>3, <5>2 DEF Retokened
          <6>2. t.id = s.id
            BY <4>2, <6>1
          <6> QED BY <6>2
        <5>3. CASE e.kind = "TokenFaced"
          <6>1. PICK s \in R : t = IF s.id = e.id THEN [s EXCEPT !.facing = e.facing] ELSE s
            BY <4>3, <5>3 DEF Retokened
          <6>2. t.id = s.id
            BY <4>2, <6>1
          <6> QED BY <6>2
        <5>4. CASE e.kind = "TokenRemoved"
          BY <4>3, <5>4 DEF Retokened
        <5>5. CASE e.kind \in {"TilePlaced", "ElevationSet"}
          BY <4>3, <5>5 DEF Retokened
        <5> QED BY <5>1, <5>2, <5>3, <5>4, <5>5, EventKinds
      <4> QED BY <4>1, <4>5
    <3> QED BY <3>1, <3>3
  <2>6. IsList(r.inverses) /\ Len(r.inverses) \in Nat /\ DOMAIN r.inverses = 1..Len(r.inverses)
        /\ \A k \in 1..Len(r.inverses) : IsEvent(r.inverses[k])
    BY BatchFacts DEF Ran
  <2> DEFINE s == r.inverses
             L == Len(s)
             a == Append(s, i)
  <2>7. IsList(a) /\ DOMAIN a = 1..(L + 1) /\ (\A k \in 1..L : a[k] = s[k]) /\ a[L + 1] = i
    BY <2>6, ListAppend
  <2> HIDE DEF n, i, q, a
  <2>8. IsBatch(a)
    <3>1. \A k \in 1..(L + 1) : IsEvent(a[k])
      BY <2>4, <2>6, <2>7
    <3> QED BY <2>7, <3>1 DEF IsBatch
  <2>9. TakenUp(a) \subseteq placed
    <3>1. \A k \in 1..L : s[k].kind = "TokenRemoved" => s[k].id \in placed
      BY <2>6 DEF Ran, TakenUp
    <3>2. \A k \in 1..(L + 1) : a[k].kind = "TokenRemoved" => a[k].id \in placed
      BY <2>4, <2>6, <2>7, <3>1
    <3> QED BY <2>7, <3>2 DEF TakenUp
  <2>10. PutDown(a) \subseteq removed
    <3>1. \A k \in 1..L : s[k].kind = "TokenPlaced" => s[k].token.id \in removed
      BY <2>6 DEF Ran, PutDown
    <3>2. \A k \in 1..(L + 1) : a[k].kind = "TokenPlaced" => a[k].token.id \in removed
      BY <2>4, <2>6, <2>7, <3>1
    <3> QED BY <2>7, <3>2 DEF PutDown
  <2>11. q.map = n /\ q.inverses = a /\ DOMAIN q = {"map", "inverses"}
    BY <2>2 DEF a
  <2> QED BY <2>3, <2>5, <2>8, <2>9, <2>10, <2>11 DEF Ran, q
<1> QED BY <1>1, <1>2

LEMMA EmptyBatch == IsBatch(<<>>) /\ TakenUp(<<>>) = {} /\ PutDown(<<>>) = {}
<1>1. IsList(<<>>) /\ DOMAIN <<>> = {}
  BY EmptyList
<1> QED BY <1>1 DEF IsBatch, TakenUp, PutDown

\* Before its first event a batch has done nothing.
LEMMA RanStart ==
  ASSUME NEW m, IsDocument(m), NEW placed, NEW removed
  PROVE  Ran(m, [map |-> m, inverses |-> <<>>], placed, removed)
BY EmptyBatch DEF Ran

\* A run of a document over a batch ends with a document, and with a batch that takes
\* up at most what was put down and puts down at most what was taken up.
LEMMA RunRan ==
  ASSUME NEW m, IsDocument(m), NEW s, IsBatch(s)
  PROVE  Ran(m, Run(m, s), PutDown(s), TakenUp(s))
<1>1. Len(s) \in Nat /\ DOMAIN s = 1..Len(s) /\ \A k \in 1..Len(s) : IsEvent(s[k])
  BY BatchFacts
<1>2. PICK f : /\ f[0] = [map |-> m, inverses |-> <<>>]
               /\ \A k \in 1..Len(s) : f[k] = After(f[k - 1], s[k])
               /\ Run(m, s) = f[Len(s)]
  BY <1>1, RunUnfold
<1> DEFINE S == {k \in Nat : k <= Len(s) => Ran(m, f[k], PutDown(s), TakenUp(s))}
<1>3. 0 \in S
  BY <1>2, RanStart
<1>4. ASSUME NEW k \in Nat, k \in S PROVE k + 1 \in S
  <2>1. SUFFICES ASSUME k + 1 <= Len(s) PROVE Ran(m, f[k + 1], PutDown(s), TakenUp(s))
    OBVIOUS
  <2>2. k + 1 \in 1..Len(s) /\ (k + 1) - 1 = k /\ k <= Len(s)
    BY <1>1, <2>1
  <2>3. f[k + 1] = After(f[k], s[k + 1])
    BY <1>2, <2>2
  <2>4. /\ s[k + 1].kind = "TokenPlaced" => s[k + 1].token.id \in PutDown(s)
        /\ s[k + 1].kind = "TokenRemoved" => s[k + 1].id \in TakenUp(s)
    BY <1>1, <2>2 DEF PutDown, TakenUp
  <2>5. Ran(m, f[k], PutDown(s), TakenUp(s)) /\ IsEvent(s[k + 1])
    BY <1>1, <1>4, <2>2
  <2>6. Ran(m, After(f[k], s[k + 1]), PutDown(s), TakenUp(s))
    BY <2>4, <2>5, AfterRan
  <2> QED BY <2>3, <2>6
<1> HIDE DEF S
<1>5. Len(s) \in S
  BY <1>1, <1>3, <1>4, NatInduct
<1> QED BY <1>1, <1>2, <1>5 DEF S

\* What one event does to the board does not hang on what is noted beside it.
LEMMA AfterSame ==
  ASSUME NEW q, NEW r, IsDocument(q.map), IsDocument(r.map), Board(q.map) = Board(r.map), NEW e, IsEvent(e)
  PROVE  /\ IsDocument(After(q, e).map) /\ IsDocument(After(r, e).map)
         /\ Board(After(q, e).map) = Board(After(r, e).map)
<1>1. Rejects(q.map, e) <=> Rejects(r.map, e)
  BY RulesSame
<1>2. CASE Rejects(q.map, e)
  BY <1>1, <1>2 DEF After
<1>3. CASE ~Rejects(q.map, e)
  <2>1. After(q, e).map = AppliedTo(q.map, e) /\ After(r, e).map = AppliedTo(r.map, e)
    BY <1>1, <1>3 DEF After
  <2>2. Board(AppliedTo(q.map, e)) = Board(AppliedTo(r.map, e))
    BY <1>3, AppliedSame
  <2>3. IsDocument(AppliedTo(q.map, e)) /\ IsDocument(AppliedTo(r.map, e))
    BY <1>1, <1>3, Applied
  <2> QED BY <2>1, <2>2, <2>3
<1> QED BY <1>2, <1>3

\* The same batch run over the same board twice ends with the same board.
LEMMA RunSame ==
  ASSUME NEW m, IsDocument(m), NEW n, IsDocument(n), Board(m) = Board(n), NEW s, IsBatch(s)
  PROVE  Board(Run(m, s).map) = Board(Run(n, s).map)
<1>1. Len(s) \in Nat /\ DOMAIN s = 1..Len(s) /\ \A k \in 1..Len(s) : IsEvent(s[k])
  BY BatchFacts
<1>2. PICK f : /\ f[0] = [map |-> m, inverses |-> <<>>]
               /\ \A k \in 1..Len(s) : f[k] = After(f[k - 1], s[k])
               /\ Run(m, s) = f[Len(s)]
  BY <1>1, RunUnfold
<1>3. PICK g : /\ g[0] = [map |-> n, inverses |-> <<>>]
               /\ \A k \in 1..Len(s) : g[k] = After(g[k - 1], s[k])
               /\ Run(n, s) = g[Len(s)]
  BY <1>1, RunUnfold
<1> DEFINE Same(k) == IsDocument(f[k].map) /\ IsDocument(g[k].map) /\ Board(f[k].map) = Board(g[k].map)
           S == {k \in Nat : k <= Len(s) => Same(k)}
<1>4. 0 \in S
  BY <1>2, <1>3
<1>5. ASSUME NEW k \in Nat, k \in S PROVE k + 1 \in S
  <2>1. SUFFICES ASSUME k + 1 <= Len(s) PROVE Same(k + 1)
    OBVIOUS
  <2>2. k + 1 \in 1..Len(s) /\ (k + 1) - 1 = k /\ k <= Len(s)
    BY <1>1, <2>1
  <2>3. f[k + 1] = After(f[k], s[k + 1]) /\ g[k + 1] = After(g[k], s[k + 1])
    BY <1>2, <1>3, <2>2
  <2>4. Same(k) /\ IsEvent(s[k + 1])
    BY <1>1, <1>5, <2>2
  <2> QED BY <2>3, <2>4, AfterSame
<1> HIDE DEF S
<1>6. Len(s) \in S
  BY <1>1, <1>4, <1>5, NatInduct
<1> QED BY <1>1, <1>2, <1>3, <1>6 DEF S

\* A batch with an event in front runs that event first.
LEMMA RunCons ==
  ASSUME NEW m, IsDocument(m), NEW s, IsBatch(s), NEW e, IsEvent(e), ~Rejects(m, e),
         NEW t, Len(t) = Len(s) + 1, t[1] = e, \A k \in 1..Len(s) : t[k + 1] = s[k]
  PROVE  Board(Run(m, t).map) = Board(Run(AppliedTo(m, e), s).map)
<1>1. Len(s) \in Nat /\ DOMAIN s = 1..Len(s) /\ \A k \in 1..Len(s) : IsEvent(s[k])
  BY BatchFacts
<1>2. PICK f : /\ f[0] = [map |-> m, inverses |-> <<>>]
               /\ \A k \in 1..Len(t) : f[k] = After(f[k - 1], t[k])
               /\ Run(m, t) = f[Len(t)]
  <2>1. Len(t) \in Nat
    BY <1>1
  <2> QED BY <2>1, RunUnfold
<1>3. PICK g : /\ g[0] = [map |-> AppliedTo(m, e), inverses |-> <<>>]
               /\ \A k \in 1..Len(s) : g[k] = After(g[k - 1], s[k])
               /\ Run(AppliedTo(m, e), s) = g[Len(s)]
  BY <1>1, RunUnfold
<1> DEFINE Same(k) == IsDocument(f[k + 1].map) /\ IsDocument(g[k].map) /\ Board(f[k + 1].map) = Board(g[k].map)
           S == {k \in Nat : k <= Len(s) => Same(k)}
<1>4. 0 \in S
  <2>1. 1 \in 1..Len(t) /\ 1 - 1 = 0
    BY <1>1
  <2>2. f[1] = After(f[0], e)
    BY <1>2, <2>1
  <2>3. f[1].map = AppliedTo(m, e) /\ g[0].map = AppliedTo(m, e)
    BY <1>2, <1>3, <2>2 DEF After
  <2> QED BY <2>3, Applied
<1>5. ASSUME NEW k \in Nat, k \in S PROVE k + 1 \in S
  <2>1. SUFFICES ASSUME k + 1 <= Len(s) PROVE Same(k + 1)
    OBVIOUS
  <2>2. k + 1 \in 1..Len(s) /\ (k + 1) - 1 = k /\ k <= Len(s) /\ k + 2 \in 1..Len(t) /\ (k + 2) - 1 = k + 1
        /\ (k + 1) + 1 = k + 2
    BY <1>1, <2>1
  <2>3. f[(k + 1) + 1] = After(f[k + 1], s[k + 1]) /\ g[k + 1] = After(g[k], s[k + 1])
    <3>1. t[k + 2] = s[k + 1]
      BY <2>2
    <3> QED BY <1>2, <1>3, <2>2, <3>1
  <2> DEFINE a == f[k + 1]
             b == g[k]
             d == s[k + 1]
  <2>4. IsDocument(a.map) /\ IsDocument(b.map) /\ Board(a.map) = Board(b.map) /\ IsEvent(d)
    BY <1>1, <1>5, <2>2
  <2>5. f[(k + 1) + 1] = After(a, d) /\ g[k + 1] = After(b, d)
    BY <2>3
  <2> HIDE DEF a, b, d
  <2>6. /\ IsDocument(After(a, d).map) /\ IsDocument(After(b, d).map)
        /\ Board(After(a, d).map) = Board(After(b, d).map)
    BY <2>4, AfterSame
  <2> QED BY <2>5, <2>6
<1> HIDE DEF S
<1>6. Len(s) \in S
  BY <1>1, <1>4, <1>5, NatInduct
<1> QED BY <1>1, <1>2, <1>3, <1>6 DEF S

\* The inverses of a batch, the last first, are a batch.
LEMMA ReverseBatch ==
  ASSUME NEW s, IsBatch(s)
  PROVE  /\ IsBatch(Reverse(s)) /\ Len(Reverse(s)) = Len(s)
         /\ PutDown(Reverse(s)) = PutDown(s) /\ TakenUp(Reverse(s)) = TakenUp(s)
<1>1. IsList(s) /\ Len(s) \in Nat /\ DOMAIN s = 1..Len(s) /\ \A k \in 1..Len(s) : IsEvent(s[k])
  BY BatchFacts
<1> DEFINE t == Reverse(s)
           L == Len(s)
<1>2. IsList(t) /\ Len(t) = L /\ \A i \in 1..L : t[i] = s[L - i + 1]
  BY <1>1, ListReverse
<1>3. DOMAIN t = 1..L
  BY <1>2, ListFacts
<1> HIDE DEF t
<1>4. \A i \in 1..L : L - i + 1 \in 1..L /\ t[i] = s[L - i + 1] /\ s[i] = t[L - i + 1]
  <2>1. \A i \in 1..L : L - i + 1 \in 1..L /\ L - (L - i + 1) + 1 = i
    BY <1>1
  <2> QED BY <1>2, <2>1
<1>5. IsBatch(t)
  BY <1>1, <1>2, <1>3, <1>4 DEF IsBatch
<1>6. PutDown(t) = PutDown(s)
  <2>1. PutDown(t) \subseteq PutDown(s)
    BY <1>1, <1>3, <1>4 DEF PutDown
  <2>2. PutDown(s) \subseteq PutDown(t)
    BY <1>1, <1>3, <1>4 DEF PutDown
  <2> QED BY <2>1, <2>2
<1>7. TakenUp(t) = TakenUp(s)
  <2>1. TakenUp(t) \subseteq TakenUp(s)
    BY <1>1, <1>3, <1>4 DEF TakenUp
  <2>2. TakenUp(s) \subseteq TakenUp(t)
    BY <1>1, <1>3, <1>4 DEF TakenUp
  <2> QED BY <2>1, <2>2
<1> QED BY <1>2, <1>5, <1>6, <1>7 DEF t

\* Running what undoes a batch, the last first, brings back the board.
LEMMA RunBack ==
  ASSUME NEW m, IsDocument(m), NEW s, IsBatch(s)
  PROVE  Board(Run(Run(m, s).map, Reverse(Run(m, s).inverses)).map) = Board(m)
<1>1. Len(s) \in Nat /\ DOMAIN s = 1..Len(s) /\ \A k \in 1..Len(s) : IsEvent(s[k])
  BY BatchFacts
<1>2. PICK f : /\ f[0] = [map |-> m, inverses |-> <<>>]
               /\ \A k \in 1..Len(s) : f[k] = After(f[k - 1], s[k])
               /\ Run(m, s) = f[Len(s)]
  BY <1>1, RunUnfold
<1> DEFINE Back(r) == /\ Ran(m, r, PutDown(s), TakenUp(s))
                      /\ Board(Run(r.map, Reverse(r.inverses)).map) = Board(m)
           S == {k \in Nat : k <= Len(s) => Back(f[k])}
<1>3. 0 \in S
  <2>1. Ran(m, f[0], PutDown(s), TakenUp(s)) /\ f[0].map = m /\ f[0].inverses = <<>>
    BY <1>2, RanStart
  <2>2. Len(Reverse(<<>>)) = 0
    BY ReverseBatch, EmptyBatch, EmptyList
  <2>3. Run(m, Reverse(<<>>)).map = m
    <3> DEFINE t == Reverse(<<>>)
    <3> HIDE DEF t
    <3>1. Len(t) = 0 /\ Len(t) \in Nat
      BY <2>2 DEF t
    <3>2. PICK g : g[0] = [map |-> m, inverses |-> <<>>] /\ Run(m, t) = g[Len(t)]
      BY <3>1, RunUnfold
    <3>3. Run(m, t).map = m
      BY <3>1, <3>2
    <3> QED BY <3>3 DEF t
  <2> QED BY <2>1, <2>3
<1>4. ASSUME NEW k \in Nat, k \in S PROVE k + 1 \in S
  <2>1. SUFFICES ASSUME k + 1 <= Len(s) PROVE Back(f[k + 1])
    OBVIOUS
  <2>2. k + 1 \in 1..Len(s) /\ (k + 1) - 1 = k /\ k <= Len(s)
    BY <1>1, <2>1
  <2> DEFINE r == f[k]
             e == s[k + 1]
             q == After(r, e)
  <2>3. f[k + 1] = q /\ Back(r) /\ IsEvent(e)
    BY <1>1, <1>2, <1>4, <2>2
  <2>4. /\ e.kind = "TokenPlaced" => e.token.id \in PutDown(s)
        /\ e.kind = "TokenRemoved" => e.id \in TakenUp(s)
    BY <1>1, <2>2 DEF PutDown, TakenUp
  <2> HIDE DEF r, e
  <2>5. Ran(m, q, PutDown(s), TakenUp(s))
    BY <2>3, <2>4, AfterRan
  <2>6. CASE Rejects(r.map, e)
    BY <2>3, <2>6 DEF After
  <2>7. CASE ~Rejects(r.map, e)
    <3> DEFINE i == InverseOf(r.map, e)
               n == AppliedTo(r.map, e)
               b == Reverse(r.inverses)
               t == Reverse(q.inverses)
               L == Len(r.inverses)
    <3>1. q.map = n /\ q.inverses = Append(r.inverses, i)
      BY <2>7 DEF After
    <3>2. IsDocument(r.map) /\ IsBatch(r.inverses) /\ IsBatch(q.inverses) /\ IsDocument(n)
      BY <2>3, <2>5, <3>1 DEF Ran
    <3>3. IsEvent(i) /\ ~Rejects(n, i) /\ Board(AppliedTo(n, i)) = Board(r.map)
      BY <2>3, <2>7, <3>2, Undone
    <3>4. IsBatch(b) /\ Len(b) = L /\ L \in Nat /\ \A j \in 1..L : b[j] = r.inverses[L - j + 1]
      BY <3>2, ReverseBatch, ListReverse, ListFacts DEF IsBatch
    <3>5. IsList(q.inverses) /\ Len(q.inverses) = L + 1 /\ (\A j \in 1..L : q.inverses[j] = r.inverses[j]) /\ q.inverses[L + 1] = i
      BY <3>1, <3>2, ListAppend DEF IsBatch
    <3>6. Len(t) = L + 1 /\ \A j \in 1..(L + 1) : t[j] = q.inverses[(L + 1) - j + 1]
      BY <3>5, ListReverse
    <3> HIDE DEF n, i, b, t, q
    <3>7. t[1] = i
      <4>1. 1 \in 1..(L + 1) /\ (L + 1) - 1 + 1 = L + 1
        BY <3>4
      <4> QED BY <3>5, <3>6, <4>1
    <3>8. ASSUME NEW j \in 1..L PROVE t[j + 1] = b[j]
      <4>1. j + 1 \in 1..(L + 1) /\ (L + 1) - (j + 1) + 1 = L - j + 1 /\ L - j + 1 \in 1..L
        BY <3>4
      <4>2. t[j + 1] = q.inverses[L - j + 1]
        BY <3>6, <4>1
      <4> QED BY <3>4, <3>5, <4>1, <4>2
    <3>9. Board(Run(n, t).map) = Board(Run(AppliedTo(n, i), b).map)
      <4>1. Len(t) = Len(b) + 1 /\ \A j \in 1..Len(b) : t[j + 1] = b[j]
        BY <3>4, <3>6, <3>8
      <4> QED BY <3>2, <3>3, <3>4, <3>7, <4>1, RunCons
    <3>10. Board(Run(AppliedTo(n, i), b).map) = Board(Run(r.map, b).map)
      <4>1. IsDocument(AppliedTo(n, i))
        BY <3>2, <3>3, Applied
      <4> QED BY <3>2, <3>3, <3>4, <4>1, RunSame
    <3>11. Board(Run(r.map, b).map) = Board(m)
      BY <2>3 DEF b
    <3>12. Board(Run(q.map, t).map) = Board(m)
      BY <3>1, <3>9, <3>10, <3>11
    <3> QED BY <2>3, <2>5, <3>12 DEF q, t
  <2> QED BY <2>6, <2>7
<1> HIDE DEF S
<1>5. Len(s) \in S
  BY <1>1, <1>3, <1>4, NatInduct
<1> QED BY <1>1, <1>2, <1>5 DEF S

-----------------------------------------------------------------------------
(* Stacks of batches *)

\* Peeling the same board ends with the same board.
LEMMA PeelSame ==
  ASSUME NEW m, IsDocument(m), NEW n, IsDocument(n), Board(m) = Board(n), NEW stack, IsHistory(stack)
  PROVE  Board(Peeled(m, stack)) = Board(Peeled(n, stack))
<1> DEFINE L == Len(stack)
<1>1. L \in Nat /\ DOMAIN stack = 1..L /\ \A k \in 1..L : IsBatch(stack[k])
  BY ListFacts DEF IsHistory
<1>2. PICK f : /\ f[0] = m
               /\ \A k \in 1..L : f[k] = Run(f[k - 1], stack[L - k + 1]).map
               /\ Peeled(m, stack) = f[L]
  BY <1>1, PeelUnfold
<1>3. PICK g : /\ g[0] = n
               /\ \A k \in 1..L : g[k] = Run(g[k - 1], stack[L - k + 1]).map
               /\ Peeled(n, stack) = g[L]
  BY <1>1, PeelUnfold
<1> HIDE DEF L
<1> DEFINE Same(k) == IsDocument(f[k]) /\ IsDocument(g[k]) /\ Board(f[k]) = Board(g[k])
           S == {k \in Nat : k <= L => Same(k)}
<1>4. 0 \in S
  BY <1>2, <1>3
<1>5. ASSUME NEW k \in Nat, k \in S PROVE k + 1 \in S
  <2>1. SUFFICES ASSUME k + 1 <= L PROVE Same(k + 1)
    OBVIOUS
  <2> DEFINE b == stack[L - (k + 1) + 1]
  <2>2. k + 1 \in 1..L /\ (k + 1) - 1 = k /\ k <= L /\ L - (k + 1) + 1 \in 1..L
    BY <1>1, <2>1
  <2>3. f[k + 1] = Run(f[k], b).map /\ g[k + 1] = Run(g[k], b).map
    BY <1>2, <1>3, <2>2
  <2>4. Same(k) /\ IsBatch(b)
    BY <1>1, <1>5, <2>2
  <2> HIDE DEF b
  <2>5. Board(Run(f[k], b).map) = Board(Run(g[k], b).map)
    BY <2>4, RunSame
  <2>6. IsDocument(Run(f[k], b).map) /\ IsDocument(Run(g[k], b).map)
    BY <2>4, RunRan DEF Ran
  <2> QED BY <2>3, <2>5, <2>6
<1> HIDE DEF S
<1>6. L \in S
  BY <1>1, <1>4, <1>5, NatInduct
<1> QED BY <1>1, <1>2, <1>3, <1>6 DEF S

\* The batch pushed last is peeled first.
LEMMA PeelPush ==
  ASSUME NEW m, NEW stack, IsHistory(stack), NEW s
  PROVE  Peeled(m, Append(stack, s)) = Peeled(Run(m, s).map, stack)
<1> DEFINE L == Len(stack)
           more == Append(stack, s)
<1>1. L \in Nat /\ IsList(stack)
  BY ListFacts DEF IsHistory
<1>2. Len(more) = L + 1 /\ (\A k \in 1..L : more[k] = stack[k]) /\ more[L + 1] = s
  BY <1>1, ListAppend
<1> HIDE DEF L, more
<1>3. PICK f : /\ f[0] = m
               /\ \A k \in 1..(L + 1) : f[k] = Run(f[k - 1], more[(L + 1) - k + 1]).map
               /\ Peeled(m, more) = f[L + 1]
  <2>1. Len(more) \in Nat
    BY <1>1, <1>2
  <2>2. PICK f : /\ f[0] = m
                 /\ \A k \in 1..Len(more) : f[k] = Run(f[k - 1], more[Len(more) - k + 1]).map
                 /\ Peeled(m, more) = f[Len(more)]
    BY <2>1, PeelUnfold
  <2> QED BY <1>2, <2>2
<1>4. PICK g : /\ g[0] = Run(m, s).map
               /\ \A k \in 1..L : g[k] = Run(g[k - 1], stack[L - k + 1]).map
               /\ Peeled(Run(m, s).map, stack) = g[L]
  <2> DEFINE n == Run(m, s).map
  <2> HIDE DEF n
  <2>1. Len(stack) \in Nat
    BY <1>1 DEF L
  <2>2. PICK g : /\ g[0] = n
                 /\ \A k \in 1..Len(stack) : g[k] = Run(g[k - 1], stack[Len(stack) - k + 1]).map
                 /\ Peeled(n, stack) = g[Len(stack)]
    BY ONLY <2>1, PeelUnfold
  <2>3. /\ g[0] = n
        /\ \A k \in 1..L : g[k] = Run(g[k - 1], stack[L - k + 1]).map
        /\ Peeled(n, stack) = g[L]
    BY <2>2 DEF L
  <2> QED BY <2>3 DEF n
<1> DEFINE S == {k \in Nat : k <= L => f[k + 1] = g[k]}
<1>5. 0 \in S
  <2>1. 1 \in 1..(L + 1) /\ 1 - 1 = 0 /\ (L + 1) - 1 + 1 = L + 1
    BY <1>1
  <2>2. f[1] = Run(f[0], more[L + 1]).map
    BY <1>3, <2>1
  <2> QED BY <1>2, <1>3, <1>4, <2>2
<1>6. ASSUME NEW k \in Nat, k \in S PROVE k + 1 \in S
  <2>1. SUFFICES ASSUME k + 1 <= L PROVE f[(k + 1) + 1] = g[k + 1]
    OBVIOUS
  <2>2. /\ k + 1 \in 1..L /\ (k + 1) - 1 = k /\ k <= L /\ L - (k + 1) + 1 \in 1..L
        /\ (k + 1) + 1 \in 1..(L + 1) /\ ((k + 1) + 1) - 1 = k + 1
        /\ (L + 1) - ((k + 1) + 1) + 1 = L - (k + 1) + 1
    BY <1>1, <2>1
  <2>3. f[(k + 1) + 1] = Run(f[k + 1], more[L - (k + 1) + 1]).map
    BY <1>3, <2>2
  <2>4. g[k + 1] = Run(g[k], stack[L - (k + 1) + 1]).map
    BY <1>4, <2>2
  <2>5. more[L - (k + 1) + 1] = stack[L - (k + 1) + 1] /\ f[k + 1] = g[k]
    BY <1>2, <1>6, <2>2
  <2> QED BY <2>3, <2>4, <2>5
<1> HIDE DEF S
<1>7. L \in S
  BY <1>1, <1>5, <1>6, NatInduct
<1> QED BY <1>1, <1>3, <1>4, <1>7 DEF S, more

\* Nothing to peel.
LEMMA PeelNone ==
  ASSUME NEW m
  PROVE  Peeled(m, <<>>) = m
<1>1. Len(<<>>) \in Nat /\ Len(<<>>) = 0
  OBVIOUS
<1> DEFINE e == <<>>
<1> HIDE DEF e
<1>2. PICK f : f[0] = m /\ Peeled(m, e) = f[Len(e)]
  BY <1>1, PeelUnfold DEF e
<1> QED BY <1>1, <1>2 DEF e

\* The last of a stack, and the rest.
LEMMA PeelPop ==
  ASSUME NEW m, NEW stack, IsHistory(stack), stack # <<>>
  PROVE  /\ IsHistory(Front(stack)) /\ IsBatch(Last(stack))
         /\ Peeled(m, stack) = Peeled(Run(m, Last(stack)).map, Front(stack))
<1> DEFINE front == Front(stack)
           L == Len(stack)
<1>1. IsList(stack) /\ L \in Nat /\ DOMAIN stack = 1..L /\ \A k \in 1..L : IsBatch(stack[k])
  BY ListFacts DEF IsHistory
<1>2. /\ IsList(front) /\ Len(front) = L - 1 /\ L - 1 \in Nat
      /\ \A i \in 1..(L - 1) : front[i] = stack[i]
      /\ Last(stack) = stack[L] /\ L \in DOMAIN stack
  BY <1>1, ListFront
<1>3. DOMAIN front = 1..(L - 1)
  BY <1>2, ListFacts
<1> HIDE DEF front, L
<1>4. IsHistory(front) /\ IsBatch(Last(stack))
  <2>1. \A i \in 1..(L - 1) : i \in 1..L
    BY <1>1
  <2> QED BY <1>1, <1>2, <1>3, <2>1 DEF IsHistory
<1>5. stack = Append(front, Last(stack))
  <2> DEFINE a == Append(front, Last(stack))
  <2>1. IsList(a) /\ Len(a) = (L - 1) + 1 /\ (\A i \in 1..(L - 1) : a[i] = front[i]) /\ a[(L - 1) + 1] = Last(stack)
    BY <1>2, ListAppend
  <2> HIDE DEF a
  <2>2. (L - 1) + 1 = L /\ \A i \in 1..L : i \in 1..(L - 1) \/ i = L
    BY <1>1
  <2>3. \A i \in 1..L : a[i] = stack[i]
    BY <1>2, <2>1, <2>2
  <2>4. Len(a) = Len(stack)
    BY <2>1, <2>2 DEF L
  <2>5. stack = a
    BY <1>1, <2>1, <2>3, <2>4, ListsEqual DEF L
  <2> QED BY <2>5 DEF a
<1>6. Peeled(m, Append(front, Last(stack))) = Peeled(Run(m, Last(stack)).map, front)
  BY <1>4, PeelPush
<1> QED BY <1>4, <1>5, <1>6 DEF front

\* A batch pushed on a history.
LEMMA HistoryPush ==
  ASSUME NEW stack, IsHistory(stack), NEW s, IsBatch(s)
  PROVE  IsHistory(Append(stack, s)) /\ Len(Append(stack, s)) = Len(stack) + 1
<1> DEFINE a == Append(stack, s)
           L == Len(stack)
<1>1. IsList(stack) /\ L \in Nat /\ DOMAIN stack = 1..L /\ \A k \in 1..L : IsBatch(stack[k])
  BY ListFacts DEF IsHistory
<1>2. IsList(a) /\ Len(a) = L + 1 /\ DOMAIN a = 1..(L + 1) /\ (\A i \in 1..L : a[i] = stack[i]) /\ a[L + 1] = s
  BY <1>1, ListAppend
<1> HIDE DEF a
<1>3. \A k \in 1..(L + 1) : IsBatch(a[k])
  BY <1>1, <1>2
<1> QED BY <1>2, <1>3 DEF IsHistory, a

-----------------------------------------------------------------------------
(* What sight and reach hang on *)

LEMMA MaxOfTwo ==
  ASSUME NEW a \in Int, NEW b \in Int
  PROVE  Max({a, b}) \in {a, b} /\ Max({a, b}) >= a /\ Max({a, b}) >= b
<1>1. \E x \in {a, b} : \A y \in {a, b} : x >= y
  OBVIOUS
<1> QED BY <1>1 DEF Max

\* Speed and sight are a matter of sheets and rulings.
LEMMA MobilitySame ==
  ASSUME NEW m, NEW n, Numbers(m) = Numbers(n), NEW id
  PROVE  EffectiveMobility(m, id, Defaults) = EffectiveMobility(n, id, Defaults)
BY DEF Numbers, EffectiveMobility

\* What is seen from a tile is a matter of the board.
LEMMA SightSame ==
  ASSUME NEW m, NEW n, Board(m) = Board(n), NEW at, NEW r
  PROVE  VisibleFrom(m, at, r) = VisibleFrom(n, at, r)
<1>1. /\ m.width = n.width /\ m.height = n.height /\ m.kinds = n.kinds
      /\ m.ground = n.ground /\ m.props = n.props /\ Cells(m) = Cells(n)
  BY BoardSame
<1>2. \A t : InBounds(m, t) = InBounds(n, t)
  BY <1>1 DEF InBounds
<1>3. \A t : Blocks(m, t) = Blocks(n, t)
  BY <1>1, <1>2 DEF Blocks, KindName
<1>4. \A a, b : LosClear(m, a, b) <=> LosClear(n, a, b)
  BY <1>3 DEF LosClear
<1> QED BY <1>2, <1>4 DEF VisibleFrom

\* What the viewer sees is a matter of the viewer, the board and the numbers.
LEMMA SeesSame ==
  ASSUME NEW u, NEW v, u.viewer = v.viewer, u.channels = v.channels,
         Board(u.map) = Board(v.map), Numbers(u.map) = Numbers(v.map)
  PROVE  Sees(u) = Sees(v)
<1>1. \A o : Commands(u, o) <=> Commands(v, o)
  BY DEF Commands
<1>2. Range(u.map.tokens) = Range(v.map.tokens)
  BY BoardSame
<1> DEFINE see(m, t) == VisibleFrom(m, t.at, EffectiveMobility(m, t.id, Defaults)[2])
           mine(w) == {t \in Range(w.map.tokens) : Commands(w, t.owner)}
<1>3. ASSUME NEW t PROVE see(u.map, t) = see(v.map, t)
  <2>1. EffectiveMobility(u.map, t.id, Defaults) = EffectiveMobility(v.map, t.id, Defaults)
    BY MobilitySame
  <2> QED BY <2>1, SightSame
<1>4. mine(u) = mine(v)
  BY <1>1, <1>2
<1>5. Sees(u) = UNION {see(u.map, t) : t \in mine(u)} /\ Sees(v) = UNION {see(v.map, t) : t \in mine(v)}
  BY DEF Sees
<1> HIDE DEF see, mine
<1>6. {see(u.map, t) : t \in mine(u)} = {see(v.map, t) : t \in mine(v)}
  BY <1>3, <1>4
<1> QED BY <1>5, <1>6

\* The fog is what the viewer sees.
Lit(u) == u.viewer = NoOne \/ u.visible = Sees(u)

\* A fog that was right stays right when nothing it hangs on changes.
LEMMA LitSame ==
  ASSUME NEW u, NEW v, u.viewer = v.viewer, u.channels = v.channels, u.visible = v.visible,
         Board(u.map) = Board(v.map), Numbers(u.map) = Numbers(v.map), Lit(u)
  PROVE  Lit(v)
<1>1. Sees(u) = Sees(v)
  BY SeesSame
<1> QED BY <1>1 DEF Lit

\* What a walk hangs on: the ground and who stands where.
Places(m) == {<<t.id, t.at>> : t \in Range(m.tokens)}
WalkView(m) == <<m.width, m.height, m.kinds, m.ground, m.elevation, Places(m)>>

\* Boards walked the same way have the same treads.
LEMMA WalkSame ==
  ASSUME NEW m, IsDocument(m), NEW n, IsDocument(n), WalkView(m) = WalkView(n)
  PROVE  /\ Cells(m) = Cells(n) /\ Ids(m) = Ids(n)
         /\ \A id \in Ids(m) : TokenOf(m, id).at = TokenOf(n, id).at
         /\ \A id : Treads(m, id) = Treads(n, id)
<1>1. /\ m.width = n.width /\ m.height = n.height /\ m.kinds = n.kinds
      /\ m.ground = n.ground /\ m.elevation = n.elevation /\ Places(m) = Places(n)
  BY DEF WalkView
<1>2. Cells(m) = Cells(n)
  BY <1>1 DEF Cells
<1>3. \A t \in Range(m.tokens) : \E s \in Range(n.tokens) : s.id = t.id /\ s.at = t.at
  <2>1. ASSUME NEW t \in Range(m.tokens) PROVE \E s \in Range(n.tokens) : s.id = t.id /\ s.at = t.at
    <3>1. <<t.id, t.at>> \in Places(n)
      BY <1>1 DEF Places
    <3> QED BY <3>1 DEF Places
  <2> QED BY <2>1
<1>4. \A t \in Range(n.tokens) : \E s \in Range(m.tokens) : s.id = t.id /\ s.at = t.at
  <2>1. ASSUME NEW t \in Range(n.tokens) PROVE \E s \in Range(m.tokens) : s.id = t.id /\ s.at = t.at
    <3>1. <<t.id, t.at>> \in Places(m)
      BY <1>1 DEF Places
    <3> QED BY <3>1 DEF Places
  <2> QED BY <2>1
<1>5. Ids(m) = Ids(n)
  <2>1. Ids(m) \subseteq Ids(n)
    BY <1>3 DEF Ids
  <2>2. Ids(n) \subseteq Ids(m)
    BY <1>4 DEF Ids
  <2> QED BY <2>1, <2>2
<1>6. ASSUME NEW id \in Ids(m) PROVE TokenOf(m, id).at = TokenOf(n, id).at
  <2>1. TokenOf(m, id) \in Range(m.tokens) /\ TokenOf(m, id).id = id
    BY TokenFacts
  <2>2. PICK s \in Range(n.tokens) : s.id = id /\ s.at = TokenOf(m, id).at
    BY <1>3, <2>1
  <2>3. TokenOf(n, s.id) = s
    BY TokenFacts
  <2> QED BY <2>2, <2>3
<1>7. ASSUME NEW id, NEW at, NEW to PROVE Enterable(m, at, to, id) <=> Enterable(n, at, to, id)
  <2>1. (\A t \in Range(m.tokens) : t.at = to => t.id = id) <=> (\A t \in Range(n.tokens) : t.at = to => t.id = id)
    BY <1>3, <1>4
  <2> QED BY <1>1, <1>2, <2>1 DEF Enterable, InBounds, KindName, Climbs
<1>8. \A id : Treads(m, id) = Treads(n, id)
  BY <1>2, <1>7 DEF Treads
<1> QED BY <1>2, <1>5, <1>6, <1>8

\* The reach is a matter of the walk, the numbers and the turn list.
LEMMA ReachSame ==
  ASSUME NEW u, IsDocument(u.map), NEW v, IsDocument(v.map), WalkView(u.map) = WalkView(v.map),
         Numbers(u.map) = Numbers(v.map), u.turns = v.turns, NEW id
  PROVE  ReachOf(u, id) = ReachOf(v, id)
<1>1. /\ Cells(u.map) = Cells(v.map) /\ Ids(u.map) = Ids(v.map)
      /\ \A i \in Ids(u.map) : TokenOf(u.map, i).at = TokenOf(v.map, i).at
      /\ Treads(u.map, id) = Treads(v.map, id)
  BY WalkSame
<1>2. EffectiveMobility(u.map, id, Defaults) = EffectiveMobility(v.map, id, Defaults)
  BY MobilitySame
<1>3. MayMove(u, id) <=> MayMove(v, id)
  BY DEF MayMove
<1>4. ASSUME NEW at, NEW budget PROVE Reachable(u.map, at, budget, id) = Reachable(v.map, at, budget, id)
  BY <1>1 DEF Reachable, InBounds
<1> QED BY <1>1, <1>2, <1>3, <1>4 DEF ReachOf

\* Boards that are the same are walked the same way.
LEMMA BoardWalk ==
  ASSUME NEW m, NEW n, Board(m) = Board(n)
  PROVE  WalkView(m) = WalkView(n) /\ Ground(m) = Ground(n) /\ Laid(m) = Laid(n)
<1>1. /\ m.width = n.width /\ m.height = n.height /\ m.kinds = n.kinds
      /\ m.ground = n.ground /\ m.elevation = n.elevation
      /\ Range(m.tokens) = Range(n.tokens) /\ Ids(m) = Ids(n)
  BY BoardSame
<1>2. Laid(m) = Laid(n)
  BY DEF Board
<1> QED BY <1>1, <1>2 DEF WalkView, Places, Ground

-----------------------------------------------------------------------------
(* Views *)

CoreFields == {"map", "undo", "redo", "turns", "token", "reach", "viewer", "channels", "visible",
               "net", "held", "mode", "brush", "asks", "outbox"}

SoundTurns(t) ==
  /\ DOMAIN t = {"order", "at", "round"}
  /\ IsOrder(t.order)
  /\ t.at \in Nat /\ (t.at < Len(t.order) \/ (t.order = <<>> /\ t.at = 0))

SoundAsks(a) ==
  /\ DOMAIN a = {"bind", "edit", "spawn", "clear"}
  /\ a.edit # <<>> => a.edit[3] \in Int
  /\ a.spawn # <<>> => IsSheet(StatBlock(a.spawn[2]))

IsEvents(s) == IsList(s) /\ \A n \in DOMAIN s : IsGameEvent(s[n])

\* What is asked of the pumps, and what a click does.
Orderly(u) == u.mode \in Modes /\ u.brush \in Nat /\ SoundAsks(u.asks) /\ IsEvents(u.outbox)

\* Nothing undone takes up, and nothing redone puts down, what is held.
Spares(u) ==
  /\ \A n \in DOMAIN u.undo : TakenUp(u.undo[n]) \cap u.held = {}
  /\ \A n \in DOMAIN u.redo : PutDown(u.redo[n]) \cap u.held = {}

Sound(u) ==
  /\ CoreFields \subseteq DOMAIN u
  /\ IsDocument(u.map)
  /\ IsHistory(u.undo) /\ IsHistory(u.redo) /\ Spares(u)
  /\ Sends(u) => u.undo = <<>> /\ u.redo = <<>>
  /\ SoundTurns(u.turns)
  /\ IsFiniteSet(u.held) /\ u.held \subseteq Nat
  /\ Orderly(u)

\* What a handler never does.
Deed(u, v) ==
  /\ v.net = u.net /\ v.held = u.held
  /\ Numbers(v.map) = Numbers(u.map)
  /\ Sends(u) => Laid(v.map) = Laid(u.map)
  /\ ~Sends(u) => Board(Unwound(v)) = Board(Unwound(u)) /\ ShrinkKeeps(u.turns, v.turns)
  /\ Len(v.undo) > Len(u.undo) => (Ids(v.map) \ Ids(u.map)) \cap u.held = {}

\* The fog is made new, or has nothing to follow.
FogView(u) == <<u.viewer, u.channels, u.visible, Board(u.map)>>
FogStep(u, v) == Lit(v) \/ FogView(v) = FogView(u)

\* The reach is made new, or has nothing to follow, or nothing it follows.
ReachView(u) == <<u.reach, u.token, u.turns, WalkView(u.map)>>
ReachStep(u, v) ==
  \/ v.reach = ReachOf(v, v.token)
  \/ ReachView(v) = ReachView(u)
  \/ Ground(v.map) # Ground(u.map)
  \/ Sends(v) /\ v.turns # u.turns

Plays(u, v) == Sound(v) /\ Deed(u, v) /\ FogStep(u, v) /\ ReachStep(u, v)

\* Nothing the board, the history, the turns, the fog or the reach is made of.
Aside(u, v) ==
  /\ DOMAIN v = DOMAIN u
  /\ v.map = u.map /\ v.undo = u.undo /\ v.redo = u.redo /\ v.turns = u.turns
  /\ v.token = u.token /\ v.reach = u.reach
  /\ v.viewer = u.viewer /\ v.channels = u.channels /\ v.visible = u.visible
  /\ v.net = u.net /\ v.held = u.held

\* And nothing of what is asked for either.
Quiet(u, v) ==
  Aside(u, v) /\ v.mode = u.mode /\ v.brush = u.brush /\ v.asks = u.asks /\ v.outbox = u.outbox

\* What is set aside changes neither fog nor reach nor history.
LEMMA AsideSame ==
  ASSUME NEW u, NEW v, Aside(u, v)
  PROVE  /\ Sends(v) <=> Sends(u)
         /\ Lit(v) <=> Lit(u)
         /\ \A id : ReachOf(v, id) = ReachOf(u, id)
         /\ Unwound(v) = Unwound(u) /\ FogView(v) = FogView(u) /\ ReachView(v) = ReachView(u)
<1>1. Sees(v) = Sees(u)
  BY SeesSame DEF Aside
<1>2. \A id : ReachOf(v, id) = ReachOf(u, id)
  BY DEF Aside, ReachOf, MayMove
<1> QED BY <1>1, <1>2 DEF Aside, Sends, Lit, Unwound, FogView, ReachView

\* What is set aside leaves the view sound.
LEMMA AsideSound ==
  ASSUME NEW u, Sound(u), NEW v, Aside(u, v), Orderly(v)
  PROVE  Sound(v)
<1>1. Sends(v) <=> Sends(u)
  BY AsideSame
<1>2. Spares(v)
  BY DEF Sound, Aside, Spares
<1> QED BY <1>1, <1>2 DEF Sound, Aside

\* Doing nothing does nothing a handler never does.
LEMMA DeedRefl ==
  ASSUME NEW u
  PROVE  Deed(u, u) /\ FogStep(u, u) /\ ReachStep(u, u)
<1>1. ShrinkKeeps(u.turns, u.turns)
  BY DEF ShrinkKeeps
<1>2. (Ids(u.map) \ Ids(u.map)) \cap u.held = {}
  OBVIOUS
<1> QED BY <1>1, <1>2 DEF Deed, FogStep, ReachStep

\* A step aside, before or after.
LEMMA PlaysAside ==
  ASSUME NEW u, NEW v, Plays(u, v), NEW w, Aside(v, w), Orderly(w)
  PROVE  Plays(u, w)
<1>1. Sound(w)
  BY AsideSound DEF Plays
<1>2. /\ Sends(w) <=> Sends(v)
      /\ Lit(w) <=> Lit(v)
      /\ \A id : ReachOf(w, id) = ReachOf(v, id)
      /\ Unwound(w) = Unwound(v) /\ FogView(w) = FogView(v) /\ ReachView(w) = ReachView(v)
  BY AsideSame
<1>3. w.net = v.net /\ w.held = v.held /\ w.map = v.map /\ w.turns = v.turns /\ w.undo = v.undo
      /\ w.reach = v.reach /\ w.token = v.token
  BY DEF Aside
<1>4. Deed(u, w)
  BY <1>2, <1>3 DEF Plays, Deed
<1>5. FogStep(u, w)
  BY <1>2 DEF Plays, FogStep
<1>6. ReachStep(u, w)
  <2>1. ReachStep(u, v)
    BY DEF Plays
  <2>2. CASE v.reach = ReachOf(v, v.token)
    BY <1>2, <1>3, <2>2 DEF ReachStep
  <2> QED BY <1>2, <1>3, <2>1, <2>2 DEF ReachStep
<1> QED BY <1>1, <1>4, <1>5, <1>6 DEF Plays

\* A handler that only sets things aside plays.
LEMMA AsidePlays ==
  ASSUME NEW u, Sound(u), NEW v, Aside(u, v), Orderly(v)
  PROVE  Plays(u, v)
<1>1. Plays(u, u)
  BY DeedRefl DEF Plays
<1> QED BY <1>1, PlaysAside

\* Setting things aside before or after a play is part of it.
LEMMA AsideThen ==
  ASSUME NEW u, NEW v, Aside(u, v), NEW w, Plays(v, w)
  PROVE  Plays(u, w)
<1>1. /\ Sends(v) <=> Sends(u)
      /\ Unwound(v) = Unwound(u) /\ FogView(v) = FogView(u) /\ ReachView(v) = ReachView(u)
  BY AsideSame
<1>2. v.net = u.net /\ v.held = u.held /\ v.map = u.map /\ v.turns = u.turns /\ v.undo = u.undo
  BY DEF Aside
<1>3. Sound(w) /\ Deed(v, w) /\ FogStep(v, w) /\ ReachStep(v, w)
  BY DEF Plays
<1>4. Deed(u, w)
  BY <1>1, <1>2, <1>3 DEF Deed
<1>5. FogStep(u, w)
  BY <1>1, <1>3 DEF FogStep
<1>6. ReachStep(u, w)
  BY <1>1, <1>2, <1>3 DEF ReachStep
<1> QED BY <1>3, <1>4, <1>5, <1>6 DEF Plays

LEMMA QuietOrderly ==
  ASSUME NEW u, Sound(u), NEW v, Quiet(u, v)
  PROVE  Aside(u, v) /\ Orderly(v) /\ Sound(v) /\ Plays(u, v)
<1>1. Aside(u, v) /\ Orderly(v)
  BY DEF Quiet, Sound, Orderly
<1> QED BY <1>1, AsideSound, AsidePlays

-----------------------------------------------------------------------------
(* The fog, the reach and a step of editing *)

\* What each part of a play looks at.
LEMMA SoundSame ==
  ASSUME NEW v, Sound(v), NEW w, DOMAIN w = DOMAIN v,
         w.map = v.map, w.undo = v.undo, w.redo = v.redo, w.turns = v.turns, w.net = v.net, w.held = v.held,
         w.mode = v.mode, w.brush = v.brush, w.asks = v.asks, w.outbox = v.outbox
  PROVE  Sound(w)
BY DEF Sound, Orderly, Spares, Sends

\* A play is a matter of the board, the history and the turns.
LEMMA DeedSame ==
  ASSUME NEW u, NEW v, Deed(u, v), NEW w,
         w.map = v.map, w.undo = v.undo, w.turns = v.turns, w.net = v.net, w.held = v.held
  PROVE  Deed(u, w)
BY DEF Deed, Unwound

\* Whether the fog follows is a matter of what it hangs on.
LEMMA FogSame ==
  ASSUME NEW u, NEW v, FogStep(u, v), NEW w,
         w.map = v.map, w.viewer = v.viewer, w.channels = v.channels, w.visible = v.visible
  PROVE  FogStep(u, w)
<1>1. Lit(v) => Lit(w)
  BY LitSame
<1> QED BY <1>1 DEF FogStep, FogView

\* A token's reach is a matter of the board and the turns.
LEMMA ReachOfSame ==
  ASSUME NEW v, NEW w, w.map = v.map, w.turns = v.turns, NEW id
  PROVE  ReachOf(w, id) = ReachOf(v, id)
BY DEF ReachOf, MayMove

LEMMA ReachStepSame ==
  ASSUME NEW u, NEW v, ReachStep(u, v), NEW w,
         w.map = v.map, w.turns = v.turns, w.reach = v.reach, w.token = v.token, w.net = v.net
  PROVE  ReachStep(u, w)
<1>1. ReachOf(w, w.token) = ReachOf(v, v.token)
  BY ReachOfSame
<1> QED BY <1>1 DEF ReachStep, ReachView, Sends

\* Computing the fog changes nothing else.
LEMMA FoggedFacts ==
  ASSUME NEW v, CoreFields \subseteq DOMAIN v
  PROVE  LET w == Fogged(v)
         IN  /\ DOMAIN w = DOMAIN v
             /\ w.map = v.map /\ w.undo = v.undo /\ w.redo = v.redo /\ w.turns = v.turns
             /\ w.token = v.token /\ w.reach = v.reach /\ w.viewer = v.viewer /\ w.channels = v.channels
             /\ w.net = v.net /\ w.held = v.held
             /\ w.mode = v.mode /\ w.brush = v.brush /\ w.asks = v.asks /\ w.outbox = v.outbox
             /\ Lit(w)
<1> DEFINE w == Fogged(v)
           see == Sees(v)
<1>1. w = [v EXCEPT !.visible = {}, !.explored = {}] \/ w = [v EXCEPT !.visible = see, !.explored = @ \cup see]
  BY DEF Fogged
<1>2. w.visible = IF v.viewer = NoOne THEN {} ELSE see
  BY DEF Fogged, CoreFields
<1> HIDE DEF w, see
<1>3. /\ DOMAIN w = DOMAIN v
      /\ w.map = v.map /\ w.undo = v.undo /\ w.redo = v.redo /\ w.turns = v.turns
      /\ w.token = v.token /\ w.reach = v.reach /\ w.viewer = v.viewer /\ w.channels = v.channels
      /\ w.net = v.net /\ w.held = v.held
      /\ w.mode = v.mode /\ w.brush = v.brush /\ w.asks = v.asks /\ w.outbox = v.outbox
  BY <1>1 DEF CoreFields
<1>4. Sees(w) = Sees(v)
  BY <1>3, SeesSame
<1>5. Lit(w)
  BY <1>2, <1>3, <1>4 DEF Lit, see
<1> QED BY <1>3, <1>5 DEF w

\* Computing the fog makes it right.
LEMMA FoggedPlays ==
  ASSUME NEW u, NEW v, Sound(v), Deed(u, v), ReachStep(u, v)
  PROVE  Plays(u, Fogged(v))
<1> DEFINE w == Fogged(v)
<1>1. /\ DOMAIN w = DOMAIN v
      /\ w.map = v.map /\ w.undo = v.undo /\ w.redo = v.redo /\ w.turns = v.turns
      /\ w.token = v.token /\ w.reach = v.reach
      /\ w.net = v.net /\ w.held = v.held
      /\ w.mode = v.mode /\ w.brush = v.brush /\ w.asks = v.asks /\ w.outbox = v.outbox
      /\ Lit(w)
  BY FoggedFacts DEF Sound
<1> HIDE DEF w
<1>2. Sound(w)
  BY <1>1, SoundSame
<1>3. Deed(u, w)
  BY <1>1, DeedSame
<1>4. ReachStep(u, w)
  BY <1>1, ReachStepSame
<1>5. Plays(u, w)
  BY <1>1, <1>2, <1>3, <1>4 DEF Plays, FogStep
<1> QED BY <1>5 DEF w

\* Computing the reach changes nothing else but the selection.
LEMMA ReachedFacts ==
  ASSUME NEW v, CoreFields \subseteq DOMAIN v
  PROVE  LET w == Reached(v)
         IN  /\ DOMAIN w = DOMAIN v
             /\ w.map = v.map /\ w.undo = v.undo /\ w.redo = v.redo /\ w.turns = v.turns
             /\ w.viewer = v.viewer /\ w.channels = v.channels /\ w.visible = v.visible
             /\ w.net = v.net /\ w.held = v.held
             /\ w.mode = v.mode /\ w.brush = v.brush /\ w.asks = v.asks /\ w.outbox = v.outbox
             /\ w.reach = ReachOf(w, w.token)
<1> DEFINE w == Reached(v)
           to == ReachOf(v, v.token)
<1>1. w = [v EXCEPT !.token = IF @ \in Ids(v.map) THEN @ ELSE NoToken, !.reach = to]
  BY DEF Reached
<1> HIDE DEF w, to
<1>2. /\ DOMAIN w = DOMAIN v
      /\ w.map = v.map /\ w.undo = v.undo /\ w.redo = v.redo /\ w.turns = v.turns
      /\ w.viewer = v.viewer /\ w.channels = v.channels /\ w.visible = v.visible
      /\ w.net = v.net /\ w.held = v.held
      /\ w.mode = v.mode /\ w.brush = v.brush /\ w.asks = v.asks /\ w.outbox = v.outbox
      /\ w.token = IF v.token \in Ids(v.map) THEN v.token ELSE NoToken
      /\ w.reach = to
  BY <1>1 DEF CoreFields
<1>3. \A id : ReachOf(w, id) = ReachOf(v, id)
  BY <1>2, ReachOfSame
<1>4. v.token \notin Ids(v.map) => to = <<>>
  BY DEF to, ReachOf
<1>5. ReachOf(v, NoToken) = <<>>
  BY DEF ReachOf
<1>6. w.reach = ReachOf(w, w.token)
  BY <1>2, <1>3, <1>4, <1>5 DEF to
<1> QED BY <1>2, <1>6 DEF w

\* Computing the reach makes it right.
LEMMA ReachedPlays ==
  ASSUME NEW u, NEW v, Sound(v), Deed(u, v), FogStep(u, v)
  PROVE  Plays(u, Reached(v))
<1> DEFINE w == Reached(v)
<1>1. /\ DOMAIN w = DOMAIN v
      /\ w.map = v.map /\ w.undo = v.undo /\ w.redo = v.redo /\ w.turns = v.turns
      /\ w.viewer = v.viewer /\ w.channels = v.channels /\ w.visible = v.visible
      /\ w.net = v.net /\ w.held = v.held
      /\ w.mode = v.mode /\ w.brush = v.brush /\ w.asks = v.asks /\ w.outbox = v.outbox
      /\ w.reach = ReachOf(w, w.token)
  BY ReachedFacts DEF Sound
<1> HIDE DEF w
<1>2. Sound(w)
  BY <1>1, SoundSame
<1>3. Deed(u, w)
  BY <1>1, DeedSame
<1>4. FogStep(u, w)
  BY <1>1, FogSame
<1>5. Plays(u, w)
  BY <1>1, <1>2, <1>3, <1>4 DEF Plays, ReachStep
<1> QED BY <1>5 DEF w

\* An event sent to the host.
LEMMA SendPlays ==
  ASSUME NEW u, NEW v, Plays(u, v), NEW e, IsGameEvent(e)
  PROVE  Plays(u, Send(v, e)) /\ Aside(v, Send(v, e)) /\ Orderly(Send(v, e))
<1> DEFINE w == Send(v, e)
           more == Append(v.outbox, e)
<1>1. w = [v EXCEPT !.outbox = more]
  BY DEF Send
<1>2. CoreFields \subseteq DOMAIN v /\ Orderly(v)
  BY DEF Plays, Sound
<1>3. IsEvents(more)
  <2>1. IsList(v.outbox) /\ \A n \in DOMAIN v.outbox : IsGameEvent(v.outbox[n])
    BY <1>2 DEF Orderly, IsEvents
  <2>2. DOMAIN v.outbox = 1..Len(v.outbox) /\ Len(v.outbox) \in Nat
    BY <2>1, ListFacts
  <2>3. /\ IsList(more) /\ DOMAIN more = 1..(Len(v.outbox) + 1)
        /\ (\A i \in 1..Len(v.outbox) : more[i] = v.outbox[i]) /\ more[Len(v.outbox) + 1] = e
    BY <2>1, ListAppend
  <2> HIDE DEF more
  <2> QED BY <2>1, <2>2, <2>3 DEF IsEvents
<1> HIDE DEF w, more
<1>4. Aside(v, w) /\ w.mode = v.mode /\ w.brush = v.brush /\ w.asks = v.asks /\ w.outbox = more
  BY <1>1, <1>2 DEF Aside, CoreFields
<1>5. Orderly(w)
  BY <1>2, <1>3, <1>4 DEF Orderly
<1> QED BY <1>4, <1>5, PlaysAside DEF w

\* A step of editing: the board of the run, the batch that undoes it on top.
LEMMA StepPlays ==
  ASSUME NEW u, Sound(u), ~Sends(u), NEW s, IsBatch(s), PutDown(s) \cap u.held = {},
         NEW r, r = Run(u.map, s),
         NEW v, DOMAIN v = DOMAIN u, v.map = r.map, v.undo = Append(u.undo, Reverse(r.inverses)),
         v.turns = u.turns, v.net = u.net, v.held = u.held,
         IsHistory(v.redo), \A n \in DOMAIN v.redo : PutDown(v.redo[n]) \cap u.held = {},
         v.mode = u.mode, v.brush = u.brush, v.asks = u.asks, v.outbox = u.outbox
  PROVE  Sound(v) /\ Deed(u, v)
<1>1. Ran(u.map, r, PutDown(s), TakenUp(s))
  BY RunRan DEF Sound
<1> DEFINE back == Reverse(r.inverses)
           L == Len(u.undo)
<1>2. IsBatch(back) /\ TakenUp(back) = TakenUp(r.inverses)
  BY <1>1, ReverseBatch DEF Ran
<1>3. IsHistory(v.undo) /\ Len(v.undo) = L + 1
  BY <1>2, HistoryPush DEF Sound
<1>4. L \in Nat /\ DOMAIN u.undo = 1..L /\ DOMAIN v.undo = 1..(L + 1)
      /\ (\A i \in 1..L : v.undo[i] = u.undo[i]) /\ v.undo[L + 1] = back
  <2>1. IsList(u.undo)
    BY DEF Sound, IsHistory
  <2> QED BY <2>1, ListFacts, ListAppend
<1> HIDE DEF back, L
<1>5. Spares(v)
  <2>1. TakenUp(back) \cap u.held = {}
    BY <1>1, <1>2 DEF Ran
  <2>2. \A n \in 1..L : TakenUp(u.undo[n]) \cap u.held = {}
    BY <1>4 DEF Sound, Spares
  <2>3. \A n \in 1..(L + 1) : TakenUp(v.undo[n]) \cap u.held = {}
    BY <1>4, <2>1, <2>2
  <2> QED BY <1>4, <2>3 DEF Spares
<1>6. ~Sends(v)
  BY DEF Sends
<1>7. IsDocument(v.map) /\ Numbers(v.map) = Numbers(u.map) /\ Ids(v.map) \subseteq Ids(u.map) \cup PutDown(s)
  BY <1>1 DEF Ran, Beside, Numbers
<1>8. Sound(v)
  BY <1>3, <1>5, <1>6, <1>7 DEF Sound, Orderly
<1>9. Board(Unwound(v)) = Board(Unwound(u))
  <2> DEFINE n == Run(r.map, back).map
  <2>1. Unwound(v) = Peeled(n, u.undo)
    BY PeelPush DEF Unwound, Sound, back
  <2>2. IsDocument(n)
    BY <1>2, <1>7, RunRan DEF Ran
  <2>3. Board(n) = Board(u.map)
    BY RunBack DEF Sound, back
  <2> HIDE DEF n
  <2>4. Board(Peeled(n, u.undo)) = Board(Peeled(u.map, u.undo))
    BY <2>2, <2>3, PeelSame DEF Sound
  <2> QED BY <2>1, <2>4 DEF Unwound
<1>10. ShrinkKeeps(u.turns, v.turns)
  BY DEF ShrinkKeeps
<1>11. (Ids(v.map) \ Ids(u.map)) \cap u.held = {}
  BY <1>7
<1>12. Deed(u, v)
  BY <1>7, <1>9, <1>10, <1>11 DEF Deed
<1> QED BY <1>8, <1>12

\* What no walk minds, or the ground tells.
Plain(m, n) == WalkView(n) = WalkView(m) \/ Ground(n) # Ground(m)

\* A step of editing: the board it makes, and what it pushes.
LEMMA ApplyFacts ==
  ASSUME NEW u, Sound(u), ~Sends(u), NEW s, IsBatch(s), PutDown(s) \cap u.held = {}
  PROVE  LET v == ApplyStep(u, s)
         IN  /\ Sound(v) /\ Deed(u, v) /\ Lit(v) /\ DOMAIN v = DOMAIN u
             /\ v.map \in {u.map, Run(u.map, s).map}
             /\ v.turns = u.turns /\ v.token = u.token /\ v.reach = u.reach /\ v.net = u.net
             /\ v.viewer = u.viewer /\ v.channels = u.channels
             /\ v.mode = u.mode /\ v.brush = u.brush /\ v.asks = u.asks /\ v.outbox = u.outbox
<1> DEFINE r == Run(u.map, s)
           a == IF r.inverses = <<>> THEN u
                ELSE [u EXCEPT !.map = r.map, !.undo = Append(@, Reverse(r.inverses)), !.redo = <<>>]
           v == ApplyStep(u, s)
<1>1. v = Fogged(a)
  BY DEF ApplyStep
<1>2. Sound(a) /\ Deed(u, a) /\ DOMAIN a = DOMAIN u /\ a.map \in {u.map, r.map}
      /\ a.turns = u.turns /\ a.token = u.token /\ a.reach = u.reach /\ a.net = u.net
      /\ a.viewer = u.viewer /\ a.channels = u.channels
      /\ a.mode = u.mode /\ a.brush = u.brush /\ a.asks = u.asks /\ a.outbox = u.outbox
  <2>1. CASE r.inverses = <<>>
    BY <2>1, DeedRefl
  <2>2. CASE r.inverses # <<>>
    <3>1. a = [u EXCEPT !.map = r.map, !.undo = Append(@, Reverse(r.inverses)), !.redo = <<>>]
      BY <2>2
    <3> DEFINE back == Reverse(r.inverses)
    <3> HIDE DEF a, back
    <3>2. /\ DOMAIN a = DOMAIN u /\ a.map = r.map /\ a.undo = Append(u.undo, back) /\ a.redo = <<>>
          /\ a.turns = u.turns /\ a.token = u.token /\ a.reach = u.reach /\ a.net = u.net /\ a.held = u.held
          /\ a.viewer = u.viewer /\ a.channels = u.channels
          /\ a.mode = u.mode /\ a.brush = u.brush /\ a.asks = u.asks /\ a.outbox = u.outbox
      <4> HIDE DEF r
      <4> QED BY <3>1 DEF Sound, CoreFields, back
    <3>3. IsHistory(a.redo) /\ \A n \in DOMAIN a.redo : PutDown(a.redo[n]) \cap u.held = {}
      BY <3>2, EmptyList DEF IsHistory
    <3>4. Sound(a) /\ Deed(u, a)
      <4> DEFINE q == r
      <4> HIDE DEF r
      <4>1. r = Run(u.map, s)
        BY DEF r
      <4> QED BY <3>2, <3>3, <4>1, StepPlays DEF back
    <3> QED BY <3>2, <3>4
  <2> QED BY <2>1, <2>2
<1> HIDE DEF a, r
<1> DEFINE w == Fogged(a)
<1>3. /\ DOMAIN w = DOMAIN a
      /\ w.map = a.map /\ w.undo = a.undo /\ w.redo = a.redo /\ w.turns = a.turns
      /\ w.token = a.token /\ w.reach = a.reach /\ w.viewer = a.viewer /\ w.channels = a.channels
      /\ w.net = a.net /\ w.held = a.held
      /\ w.mode = a.mode /\ w.brush = a.brush /\ w.asks = a.asks /\ w.outbox = a.outbox
      /\ Lit(w)
  BY <1>2, FoggedFacts DEF Sound
<1> HIDE DEF w
<1>4. Sound(w) /\ Deed(u, w)
  BY <1>2, <1>3, SoundSame, DeedSame
<1> QED BY <1>1, <1>2, <1>3, <1>4 DEF v, w, r

\* A step of editing keeps the view sound and its fog right.
LEMMA ApplyPlays ==
  ASSUME NEW u, Sound(u), ~Sends(u), NEW s, IsBatch(s), PutDown(s) \cap u.held = {},
         Plain(u.map, Run(u.map, s).map)
  PROVE  Plays(u, ApplyStep(u, s))
<1> DEFINE v == ApplyStep(u, s)
<1>1. /\ Sound(v) /\ Deed(u, v) /\ Lit(v)
      /\ v.map \in {u.map, Run(u.map, s).map}
      /\ v.turns = u.turns /\ v.token = u.token /\ v.reach = u.reach
  BY ApplyFacts
<1> HIDE DEF v
<1>2. ReachStep(u, v)
  BY <1>1 DEF ReachStep, ReachView, Plain
<1>3. Plays(u, v)
  BY <1>1, <1>2 DEF Plays, FogStep
<1> QED BY <1>3 DEF v

\* A step of editing, with the reach computed after it.
LEMMA ApplyReached ==
  ASSUME NEW u, Sound(u), ~Sends(u), NEW s, IsBatch(s), PutDown(s) \cap u.held = {}
  PROVE  Plays(u, Reached(ApplyStep(u, s)))
<1> DEFINE v == ApplyStep(u, s)
<1>1. Sound(v) /\ Deed(u, v) /\ Lit(v)
  BY ApplyFacts
<1> HIDE DEF v
<1>2. Plays(u, Reached(v))
  BY <1>1, ReachedPlays DEF FogStep
<1> QED BY <1>2 DEF v

-----------------------------------------------------------------------------
(* Undo and redo *)

LEMMA RefreshedPlays ==
  ASSUME NEW u, NEW v, Sound(v), Deed(u, v)
  PROVE  Plays(u, Reached(Fogged(v)))
<1> DEFINE w == Fogged(v)
<1>1. /\ DOMAIN w = DOMAIN v
      /\ w.map = v.map /\ w.undo = v.undo /\ w.redo = v.redo /\ w.turns = v.turns
      /\ w.net = v.net /\ w.held = v.held
      /\ w.mode = v.mode /\ w.brush = v.brush /\ w.asks = v.asks /\ w.outbox = v.outbox
      /\ Lit(w)
  BY FoggedFacts DEF Sound
<1> HIDE DEF w
<1>2. Sound(w)
  BY <1>1, SoundSame
<1>3. Deed(u, w)
  BY <1>1, DeedSame
<1>4. Plays(u, Reached(w))
  BY <1>1, <1>2, <1>3, ReachedPlays DEF FogStep
<1> QED BY <1>4 DEF w

\* What a stack spares, it spares without its last; and its last spares it.
LEMMA FrontFacts ==
  ASSUME NEW stack, IsHistory(stack), stack # <<>>
  PROVE  /\ IsHistory(Front(stack)) /\ IsBatch(Last(stack))
         /\ Len(Front(stack)) = Len(stack) - 1 /\ Len(stack) \in Nat
         /\ \A n \in DOMAIN Front(stack) : n \in DOMAIN stack /\ Front(stack)[n] = stack[n]
         /\ \E n \in DOMAIN stack : Last(stack) = stack[n]
<1> DEFINE front == Front(stack)
           L == Len(stack)
<1>1. IsList(stack) /\ L \in Nat /\ DOMAIN stack = 1..L
  BY ListFacts, SMTT(60) DEF IsHistory
<1>2. /\ IsList(front) /\ Len(front) = L - 1 /\ L - 1 \in Nat
      /\ \A i \in 1..(L - 1) : front[i] = stack[i]
      /\ Last(stack) = stack[L] /\ L \in DOMAIN stack
  BY <1>1, ListFront
<1>3. DOMAIN front = 1..(L - 1)
  BY <1>2, ListFacts
<1>4. IsHistory(front) /\ IsBatch(Last(stack))
  BY PeelPop
<1> HIDE DEF front, L
<1>5. \A i \in 1..(L - 1) : i \in 1..L
  BY <1>1
<1> QED BY <1>1, <1>2, <1>3, <1>4, <1>5 DEF front, L

\* Redo plays.
LEMMA RedoPlays ==
  ASSUME NEW u, Sound(u)
  PROVE  Plays(u, Redo(u))
<1>1. CASE u.redo = <<>>
  BY <1>1, DeedRefl DEF Redo, Plays
<1>2. CASE u.redo # <<>>
  <2> DEFINE s == Last(u.redo)
             r == Run(u.map, s)
             front == Front(u.redo)
             back == Reverse(r.inverses)
             a == [u EXCEPT !.map = r.map, !.redo = front, !.undo = Append(@, back)]
  <2>1. /\ IsHistory(front) /\ IsBatch(s)
        /\ \A n \in DOMAIN front : n \in DOMAIN u.redo /\ front[n] = u.redo[n]
        /\ \E n \in DOMAIN u.redo : s = u.redo[n]
    BY <1>2, FrontFacts DEF Sound
  <2>2. ~Sends(u)
    BY <1>2 DEF Sound
  <2>3. PutDown(s) \cap u.held = {} /\ \A n \in DOMAIN front : PutDown(front[n]) \cap u.held = {}
    BY <2>1 DEF Sound, Spares
  <2>4. Redo(u) = Reached(Fogged(a))
    BY <1>2 DEF Redo
  <2> HIDE DEF s, front, r
  <2>5. r = Run(u.map, s)
    BY DEF r
  <2>6. /\ DOMAIN a = DOMAIN u /\ a.map = r.map /\ a.undo = Append(u.undo, back) /\ a.redo = front
        /\ a.turns = u.turns /\ a.net = u.net /\ a.held = u.held
        /\ a.mode = u.mode /\ a.brush = u.brush /\ a.asks = u.asks /\ a.outbox = u.outbox
    <3> HIDE DEF back
    <3> QED BY DEF Sound, CoreFields
  <2> HIDE DEF a
  <2>7. Sound(a) /\ Deed(u, a)
    BY <2>1, <2>2, <2>3, <2>5, <2>6, StepPlays
  <2> QED BY <2>4, <2>7, RefreshedPlays
<1> QED BY <1>1, <1>2

\* What undo pops brings the board back to before that step.
LEMMA UndoFacts ==
  ASSUME NEW u, Sound(u), u.undo # <<>>
  PROVE  LET r == Run(u.map, Last(u.undo))
             back == Reverse(r.inverses)
         IN  /\ ~Sends(u)
             /\ Ran(u.map, r, PutDown(Last(u.undo)), TakenUp(Last(u.undo)))
             /\ IsBatch(back) /\ PutDown(back) \cap u.held = {}
             /\ Board(Run(r.map, back).map) = Board(u.map)
<1> DEFINE s == Last(u.undo)
           r == Run(u.map, s)
           back == Reverse(r.inverses)
<1>1. IsBatch(s) /\ \E n \in DOMAIN u.undo : s = u.undo[n]
  BY FrontFacts DEF Sound
<1>2. ~Sends(u)
  BY DEF Sound
<1>3. TakenUp(s) \cap u.held = {}
  BY <1>1 DEF Sound, Spares
<1> HIDE DEF s
<1>4. Ran(u.map, r, PutDown(s), TakenUp(s))
  BY <1>1, RunRan DEF Sound
<1>5. Board(Run(r.map, back).map) = Board(u.map)
  BY <1>1, RunBack DEF Sound
<1> HIDE DEF r
<1>6. IsBatch(back) /\ PutDown(back) = PutDown(r.inverses)
  BY <1>4, ReverseBatch DEF Ran
<1>7. PutDown(back) \cap u.held = {}
  BY <1>3, <1>4, <1>6 DEF Ran
<1> QED BY <1>2, <1>4, <1>5, <1>6, <1>7 DEF r, s

\* Undo plays.
LEMMA UndoPlays ==
  ASSUME NEW u, Sound(u)
  PROVE  Plays(u, Undo(u))
<1>1. CASE u.undo = <<>>
  BY <1>1, DeedRefl DEF Undo, Plays
<1>2. CASE u.undo # <<>>
  <2> DEFINE s == Last(u.undo)
             r == Run(u.map, s)
             front == Front(u.undo)
             back == Reverse(r.inverses)
             a == [u EXCEPT !.map = r.map, !.undo = front, !.redo = Append(@, back)]
             L == Len(u.redo)
  <2>1. /\ IsHistory(front) /\ Len(front) = Len(u.undo) - 1 /\ Len(u.undo) \in Nat
        /\ \A n \in DOMAIN front : n \in DOMAIN u.undo /\ front[n] = u.undo[n]
    BY <1>2, FrontFacts DEF Sound
  <2>2. /\ ~Sends(u) /\ Ran(u.map, r, PutDown(s), TakenUp(s))
        /\ IsBatch(back) /\ PutDown(back) \cap u.held = {}
    BY <1>2, UndoFacts
  <2>3. Peeled(u.map, u.undo) = Peeled(r.map, front)
    BY <1>2, PeelPop DEF Sound
  <2>4. Undo(u) = Reached(Fogged(a))
    BY <1>2 DEF Undo
  <2> HIDE DEF s, front, r, back
  <2>6. /\ DOMAIN a = DOMAIN u /\ a.map = r.map /\ a.undo = front /\ a.redo = Append(u.redo, back)
        /\ a.turns = u.turns /\ a.net = u.net /\ a.held = u.held
        /\ a.mode = u.mode /\ a.brush = u.brush /\ a.asks = u.asks /\ a.outbox = u.outbox
    BY DEF Sound, CoreFields
  <2> HIDE DEF a
  <2>7. IsHistory(a.redo) /\ DOMAIN a.redo = 1..(L + 1) /\ L \in Nat /\ DOMAIN u.redo = 1..L
        /\ (\A i \in 1..L : a.redo[i] = u.redo[i]) /\ a.redo[L + 1] = back
    <3>1. IsList(u.redo) /\ IsHistory(u.redo)
      BY DEF Sound, IsHistory
    <3>2. IsHistory(a.redo)
      BY <2>2, <2>6, <3>1, HistoryPush
    <3> QED BY <2>6, <3>1, <3>2, ListFacts, ListAppend
  <2> HIDE DEF L
  <2>8. Spares(a)
    <3>1. \A n \in DOMAIN a.undo : TakenUp(a.undo[n]) \cap a.held = {}
      BY <2>1, <2>6 DEF Sound, Spares
    <3>2. \A n \in 1..L : PutDown(a.redo[n]) \cap a.held = {}
      BY <2>6, <2>7 DEF Sound, Spares
    <3>3. \A n \in 1..(L + 1) : PutDown(a.redo[n]) \cap a.held = {}
      BY <2>2, <2>6, <2>7, <3>2
    <3> QED BY <2>7, <3>1, <3>3 DEF Spares
  <2>9. ~Sends(a)
    BY <2>2, <2>6 DEF Sends
  <2>10. IsDocument(a.map) /\ Numbers(a.map) = Numbers(u.map)
    BY <2>2, <2>6 DEF Ran, Beside, Numbers
  <2>11. Sound(a)
    BY <2>1, <2>6, <2>7, <2>8, <2>9, <2>10 DEF Sound, Orderly
  <2>12. Unwound(a) = Unwound(u)
    BY <2>3, <2>6 DEF Unwound
  <2>13. ShrinkKeeps(u.turns, a.turns)
    BY <2>6 DEF ShrinkKeeps
  <2>14. ~(Len(a.undo) > Len(u.undo))
    BY <2>1, <2>6
  <2>15. Deed(u, a)
    BY <2>2, <2>6, <2>10, <2>12, <2>13, <2>14 DEF Deed
  <2> QED BY <2>4, <2>11, <2>15, RefreshedPlays
<1> QED BY <1>1, <1>2

\* What was just undone can be done again.
LEMMA UndoneAgain ==
  ASSUME NEW u, Sound(u), u.undo # <<>>
  PROVE  Board(Redo(Undo(u)).map) = Board(u.map)
<1> DEFINE r == Run(u.map, Last(u.undo))
           back == Reverse(r.inverses)
           a == [u EXCEPT !.map = r.map, !.undo = Front(@), !.redo = Append(@, back)]
           v == Undo(u)
<1>1. /\ IsBatch(back) /\ Board(Run(r.map, back).map) = Board(u.map)
  BY UndoFacts
<1>2. v = Reached(Fogged(a))
  BY DEF Undo
<1> HIDE DEF r, back
<1>3. DOMAIN a = DOMAIN u /\ a.map = r.map /\ a.redo = Append(u.redo, back)
  BY DEF Sound, CoreFields
<1> DEFINE f == Fogged(a)
<1> HIDE DEF a, v
<1>4. DOMAIN f = DOMAIN a /\ f.map = a.map /\ f.redo = a.redo
  BY <1>3, FoggedFacts DEF Sound
<1> HIDE DEF f
<1>5. v.map = f.map /\ v.redo = f.redo
  <2>1. CoreFields \subseteq DOMAIN f
    BY <1>3, <1>4 DEF Sound
  <2> QED BY <1>2, <2>1, ReachedFacts DEF f
<1>6. v.map = r.map /\ v.redo = Append(u.redo, back)
  BY <1>3, <1>4, <1>5
<1>7. v.redo # <<>> /\ Last(v.redo) = back
  <2>1. IsList(u.redo)
    BY DEF Sound, IsHistory
  <2> DEFINE L == Len(u.redo)
             more == Append(u.redo, back)
  <2>2. L \in Nat /\ Len(more) = L + 1 /\ more[L + 1] = back
    BY <2>1, ListFacts, ListAppend
  <2>3. more # <<>>
    <3> HIDE DEF L, more
    <3>1. Len(<<>>) = 0
      OBVIOUS
    <3> QED BY <2>2, <3>1
  <2> HIDE DEF more, L
  <2>4. Last(more) = back
    BY <2>2 DEF Last
  <2> QED BY <1>6, <2>3, <2>4 DEF more
<1>8. Plays(u, v) 
  BY UndoPlays DEF v
<1> DEFINE q == Run(v.map, Last(v.redo))
           b == [v EXCEPT !.map = q.map, !.redo = Front(@), !.undo = Append(@, Reverse(q.inverses))]
<1>9. Redo(v) = Reached(Fogged(b))
  BY <1>7 DEF Redo
<1>10. CoreFields \subseteq DOMAIN v
  BY <1>8 DEF Plays, Sound
<1> HIDE DEF q
<1>11. DOMAIN b = DOMAIN v /\ b.map = q.map
  BY <1>10 DEF CoreFields
<1> HIDE DEF b
<1> DEFINE g == Fogged(b)
<1>12. DOMAIN g = DOMAIN b /\ g.map = b.map
  BY <1>10, <1>11, FoggedFacts
<1> HIDE DEF g
<1>13. Redo(v).map = g.map
  BY <1>9, <1>10, <1>11, <1>12, ReachedFacts DEF g
<1>14. q.map = Run(r.map, back).map
  BY <1>6, <1>7 DEF q
<1> QED BY <1>1, <1>11, <1>12, <1>13, <1>14 DEF v

-----------------------------------------------------------------------------
(* The batches a click makes *)

\* The lesser of two numbers.
LEMMA MinOfTwo ==
  ASSUME NEW a \in Int, NEW b \in Int
  PROVE  Min({a, b}) \in {a, b} /\ Min({a, b}) <= a /\ Min({a, b}) <= b
<1>1. \E x \in {a, b} : \A y \in {a, b} : x <= y
  OBVIOUS
<1> QED BY <1>1 DEF Min

\* One event is a batch.
LEMMA SingleBatch ==
  ASSUME NEW e, IsEvent(e)
  PROVE  /\ IsBatch(<<e>>) /\ Len(<<e>>) = 1
         /\ e.kind # "TokenPlaced" => PutDown(<<e>>) = {}
         /\ e.kind = "TokenPlaced" => PutDown(<<e>>) = {e.token.id}
<1> DEFINE s == <<e>>
<1>1. DOMAIN s = 1..1 /\ s[1] = e /\ s = [i \in 1..1 |-> s[i]] /\ Len(s) = 1
  OBVIOUS
<1> HIDE DEF s
<1>2. IsList(s)
  BY <1>1, IsListOf
<1>3. \A n \in DOMAIN s : n = 1
  BY <1>1
<1>4. IsBatch(s)
  BY <1>1, <1>2, <1>3 DEF IsBatch
<1>5. e.kind # "TokenPlaced" => PutDown(s) = {}
  BY <1>1, <1>3 DEF PutDown
<1>6. e.kind = "TokenPlaced" => PutDown(s) = {e.token.id}
  BY <1>1, <1>3 DEF PutDown
<1> QED BY <1>1, <1>4, <1>5, <1>6 DEF s

LEMMA SingleRun ==
  ASSUME NEW m, NEW e
  PROVE  Run(m, <<e>>).map = IF Rejects(m, e) THEN m ELSE AppliedTo(m, e)
<1> DEFINE s == <<e>>
<1>1. Len(s) \in Nat /\ Len(s) = 1 /\ s[1] = e /\ 1 - 1 = 0 /\ 1 \in 1..1
  OBVIOUS
<1> HIDE DEF s
<1>2. PICK f : /\ f[0] = [map |-> m, inverses |-> <<>>]
               /\ \A k \in 1..Len(s) : f[k] = After(f[k - 1], s[k])
               /\ Run(m, s) = f[Len(s)]
  BY <1>1, RunUnfold
<1>3. Run(m, s) = After([map |-> m, inverses |-> <<>>], e)
  BY <1>1, <1>2
<1>4. Run(m, s).map = IF Rejects(m, e) THEN m ELSE AppliedTo(m, e)
  BY <1>3 DEF After
<1> QED BY <1>4 DEF s

LEMMA PlainRefl ==
  ASSUME NEW m
  PROVE  Plain(m, m)
BY DEF Plain

\* An event that moves nobody is told from the ground, or minds no walk.
LEMMA AppliedPlain ==
  ASSUME NEW m, IsDocument(m), NEW e, IsEvent(e), ~Rejects(m, e), e.kind # "TokenMoved"
  PROVE  Plain(m, AppliedTo(m, e))
<1> DEFINE n == AppliedTo(m, e)
<1>1. /\ IsDocument(n) /\ Laid(n) = Relaid(Laid(m), e)
      /\ n.width = m.width /\ n.height = m.height /\ n.kinds = m.kinds
  BY Applied
<1>0. SUFFICES Plain(m, n)
  OBVIOUS
<1> HIDE DEF n
<1>2. /\ n.ground = Relaid(Laid(m), e).ground
      /\ n.elevation = Relaid(Laid(m), e).elevation
      /\ Range(n.tokens) = Retokened(Range(m.tokens), e)
  BY <1>1 DEF Laid, Relaid
<1>3. CASE e.kind \in {"TilePlaced", "ElevationSet"}
  <2>1. Range(n.tokens) = Range(m.tokens)
    BY <1>2, <1>3 DEF Retokened
  <2>2. Places(n) = Places(m)
    BY <2>1 DEF Places
  <2>3. CASE n.ground = m.ground /\ n.elevation = m.elevation
    BY <1>1, <2>2, <2>3 DEF Plain, WalkView
  <2>4. CASE ~(n.ground = m.ground /\ n.elevation = m.elevation)
    BY <2>4 DEF Plain, Ground
  <2> QED BY <2>3, <2>4
<1>4. CASE e.kind = "TokenPlaced"
  <2>1. e.token.id \notin Ids(m)
    BY <1>4 DEF Rejects
  <2>2. e.token.id \in Ids(n)
    BY <1>2, <1>4 DEF Retokened, Ids
  <2> QED BY <2>1, <2>2 DEF Plain, Ground
<1>5. CASE e.kind = "TokenRemoved"
  <2>1. e.id \in Ids(m)
    BY <1>5 DEF Rejects
  <2>2. e.id \notin Ids(n)
    BY <1>2, <1>5 DEF Retokened, Ids
  <2> QED BY <2>1, <2>2 DEF Plain, Ground
<1>6. CASE e.kind = "TokenFaced"
  <2> DEFINE R == Range(m.tokens)
             turn(t) == IF t.id = e.id THEN [t EXCEPT !.facing = e.facing] ELSE t
  <2>1. Range(n.tokens) = {turn(t) : t \in R}
    BY <1>2, <1>6 DEF Retokened
  <2>2. ASSUME NEW t \in R PROVE turn(t).id = t.id /\ turn(t).at = t.at
    <3>1. IsToken(t)
      BY TokenFacts DEF OwnIds
    <3> QED BY <3>1 DEF IsToken
  <2>3. Places(n) = {<<t.id, t.at>> : t \in {turn(t) : t \in R}}
    BY <2>1 DEF Places
  <2> HIDE DEF turn, R
  <2>4. Places(n) = {<<t.id, t.at>> : t \in R}
    <3>1. {<<t.id, t.at>> : t \in {turn(t) : t \in R}} \subseteq {<<t.id, t.at>> : t \in R}
      BY <2>2
    <3>2. {<<t.id, t.at>> : t \in R} \subseteq {<<t.id, t.at>> : t \in {turn(t) : t \in R}}
      BY <2>2
    <3> QED BY <2>3, <3>1, <3>2
  <2>5. Places(n) = Places(m)
    BY <2>4 DEF Places, R
  <2>6. n.ground = m.ground /\ n.elevation = m.elevation
    BY <1>2, <1>6 DEF Laid, Relaid
  <2> QED BY <1>1, <2>5, <2>6 DEF Plain, WalkView
<1> QED BY <1>3, <1>4, <1>5, <1>6, EventKinds

\* A single event but a move, and one of any kind before the reach is made new.
LEMMA OnePlays ==
  ASSUME NEW u, Sound(u), ~Sends(u), NEW e, IsEvent(e), e.kind = "TokenPlaced" => e.token.id \notin u.held
  PROVE  /\ e.kind # "TokenMoved" => Plays(u, ApplyStep(u, <<e>>))
         /\ Plays(u, Reached(ApplyStep(u, <<e>>)))
<1> DEFINE s == <<e>>
<1>1. IsBatch(s) /\ PutDown(s) \cap u.held = {}
  BY SingleBatch
<1>2. Run(u.map, s).map = IF Rejects(u.map, e) THEN u.map ELSE AppliedTo(u.map, e)
  BY SingleRun
<1>3. IsDocument(u.map)
  BY DEF Sound
<1> HIDE DEF s
<1>4. e.kind # "TokenMoved" => Plain(u.map, Run(u.map, s).map)
  BY <1>2, <1>3, AppliedPlain, PlainRefl
<1>5. e.kind # "TokenMoved" => Plays(u, ApplyStep(u, s))
  BY <1>1, <1>4, ApplyPlays
<1>6. Plays(u, Reached(ApplyStep(u, s)))
  BY <1>1, ApplyReached
<1> QED BY <1>5, <1>6 DEF s

\* A batch of paints leaves heights and tokens alone.
LEMMA PaintsPlain ==
  ASSUME NEW m, IsDocument(m), NEW s, IsBatch(s), \A k \in DOMAIN s : s[k].kind = "TilePlaced"
  PROVE  Plain(m, Run(m, s).map) /\ PutDown(s) = {}
<1>1. Len(s) \in Nat /\ DOMAIN s = 1..Len(s) /\ \A k \in 1..Len(s) : IsEvent(s[k])
  BY BatchFacts
<1>2. PICK f : /\ f[0] = [map |-> m, inverses |-> <<>>]
               /\ \A k \in 1..Len(s) : f[k] = After(f[k - 1], s[k])
               /\ Run(m, s) = f[Len(s)]
  BY <1>1, RunUnfold
<1> DEFINE Like(n) == /\ IsDocument(n)
                      /\ n.width = m.width /\ n.height = m.height /\ n.kinds = m.kinds
                      /\ n.elevation = m.elevation /\ Range(n.tokens) = Range(m.tokens)
           S == {k \in Nat : k <= Len(s) => Like(f[k].map)}
<1>3. 0 \in S
  BY <1>2
<1>4. ASSUME NEW k \in Nat, k \in S PROVE k + 1 \in S
  <2>1. SUFFICES ASSUME k + 1 <= Len(s) PROVE Like(f[k + 1].map)
    OBVIOUS
  <2> DEFINE q == f[k]
             e == s[k + 1]
  <2>2. k + 1 \in 1..Len(s) /\ (k + 1) - 1 = k /\ k <= Len(s)
    BY <1>1, <2>1
  <2>3. f[k + 1] = After(q, e) /\ Like(q.map) /\ IsEvent(e) /\ e.kind = "TilePlaced"
    BY <1>1, <1>2, <1>4, <2>2
  <2> HIDE DEF q, e
  <2>4. CASE Rejects(q.map, e)
    BY <2>3, <2>4 DEF After
  <2>5. CASE ~Rejects(q.map, e)
    <3> DEFINE n == AppliedTo(q.map, e)
    <3>1. f[k + 1].map = n
      BY <2>3, <2>5 DEF After
    <3>2. /\ IsDocument(n) /\ Laid(n) = Relaid(Laid(q.map), e)
          /\ n.width = q.map.width /\ n.height = q.map.height /\ n.kinds = q.map.kinds
      BY <2>3, <2>5, Applied
    <3> HIDE DEF n
    <3>3. n.elevation = q.map.elevation /\ Range(n.tokens) = Range(q.map.tokens)
      BY <2>3, <3>2 DEF Laid, Relaid, Retokened
    <3> QED BY <2>3, <3>1, <3>2, <3>3
  <2> QED BY <2>4, <2>5
<1> HIDE DEF S
<1>5. Len(s) \in S
  BY <1>1, <1>3, <1>4, NatInduct
<1> DEFINE n == Run(m, s).map
<1>6. Like(n)
  BY <1>1, <1>2, <1>5 DEF S
<1> HIDE DEF n
<1>7. Places(n) = Places(m)
  BY <1>6 DEF Places
<1>8. Plain(m, n)
  <2>1. CASE n.ground = m.ground
    BY <1>6, <1>7, <2>1 DEF Plain, WalkView
  <2>2. CASE n.ground # m.ground
    BY <2>2 DEF Plain, Ground
  <2> QED BY <2>1, <2>2
<1>9. PutDown(s) = {}
  BY DEF PutDown
<1> QED BY <1>8, <1>9 DEF n

\* The tiles of the same value, and a region grown by those next to it.
Alike(m, layer, start) == {c \in Cells(m) : layer[c] = layer[start]}
Grown(m, layer, start, r) == r \cup {c \in Alike(m, layer, start) : \E s \in Step4 : Shift(c, s) \in r}

\* The region grown from a tile, a ring at a time.
LEMMA FloodUnfold ==
  ASSUME NEW m, NEW layer, NEW start, InBounds(m, start), Cardinality(Alike(m, layer, start)) \in Nat
  PROVE  \E f : /\ f[0] = {start}
                /\ \A k \in 1..Cardinality(Alike(m, layer, start)) : f[k] = Grown(m, layer, start, f[k - 1])
                /\ FloodRegion(m, layer, start) = f[Cardinality(Alike(m, layer, start))]
<1> DEFINE N == Cardinality(Alike(m, layer, start))
           W == FloodRegion(m, layer, start)
           base == {start}
           P(n, f) == f = [k \in 0..n |-> IF k = 0 THEN base ELSE Grown(m, layer, start, f[k - 1])]
           S == {n \in Nat : \E f : P(n, f)}
<1>0. N \in Nat
  OBVIOUS
<1>1. W = (CHOOSE f : P(N, f))[N]
  BY DEF FloodRegion, Alike, Grown
<1> HIDE DEF N, W, base
<1>2. 0 \in S
  <2>1. P(0, [k \in 0..0 |-> base])
    OBVIOUS
  <2> QED BY <2>1
<1>3. ASSUME NEW n \in Nat, n \in S PROVE n + 1 \in S
  <2>1. PICK f : P(n, f)
    BY <1>3
  <2> DEFINE next == Grown(m, layer, start, f[n])
             h == [k \in 0..(n + 1) |-> IF k = n + 1 THEN next ELSE f[k]]
  <2> HIDE DEF next
  <2>2. ASSUME NEW k \in 0..(n + 1)
        PROVE  h[k] = IF k = 0 THEN base ELSE Grown(m, layer, start, h[k - 1])
    <3>1. CASE k = n + 1
      <4>1. h[k] = next /\ h[k - 1] = f[n] /\ k # 0
        BY <3>1
      <4> QED BY <3>1, <4>1 DEF next
    <3>2. CASE k \in 1..n
      <4>1. h[k] = f[k] /\ h[k - 1] = f[k - 1] /\ k # 0 /\ k \in 0..n
        BY <3>2
      <4>2. f[k] = Grown(m, layer, start, f[k - 1])
        BY <2>1, <4>1
      <4> QED BY <4>1, <4>2
    <3>3. CASE k = 0
      <4>1. h[0] = f[0] /\ f[0] = base
        BY <2>1
      <4> QED BY <3>3, <4>1
    <3> QED BY <3>1, <3>2, <3>3
  <2>3. h = [k \in 0..(n + 1) |-> h[k]]
    OBVIOUS
  <2> HIDE DEF h
  <2>4. P(n + 1, h)
    BY <2>2, <2>3
  <2>5. n + 1 \in Nat
    OBVIOUS
  <2> HIDE DEF P
  <2> QED BY <2>4, <2>5
<1> HIDE DEF S
<1>4. N \in S
  BY <1>0, <1>2, <1>3, NatInduct
<1> DEFINE g == CHOOSE f : P(N, f)
<1>5. P(N, g)
  <2>1. \E f : P(N, f)
    BY <1>4 DEF S
  <2> HIDE DEF P, N
  <2> QED BY <2>1
<1>6. W = g[N]
  BY <1>1
<1> HIDE DEF g
<1>7. g[0] = base /\ \A k \in 1..N : g[k] = Grown(m, layer, start, g[k - 1])
  BY <1>0, <1>5
<1> HIDE DEF P
<1>8. \E f : /\ f[0] = base
             /\ \A k \in 1..N : f[k] = Grown(m, layer, start, f[k - 1])
             /\ W = f[N]
  BY <1>6, <1>7
<1> QED BY <1>8 DEF N, W, base

\* A board has finitely many cells.
LEMMA CellsFinite ==
  ASSUME NEW m, IsDocument(m)
  PROVE  IsFiniteSet(Cells(m))
<1>1. m.width - 1 \in Int /\ m.height - 1 \in Int
  BY DEF IsDocument
<1>2. IsFiniteSet(0..(m.width - 1)) /\ IsFiniteSet(0..(m.height - 1))
  BY <1>1, FS_Interval
<1> QED BY <1>2, FS_Product DEF Cells

\* A flooded region is finite, and on the board.
LEMMA FloodFinite ==
  ASSUME NEW m, IsDocument(m), NEW layer, NEW start
  PROVE  IsFiniteSet(FloodRegion(m, layer, start))
<1>1. CASE ~InBounds(m, start)
  BY <1>1, FS_EmptySet DEF FloodRegion
<1>2. CASE InBounds(m, start)
  <2> DEFINE A == Alike(m, layer, start)
             N == Cardinality(A)
  <2>1. IsFiniteSet(Cells(m)) /\ start \in Cells(m)
    BY <1>2, CellsFinite DEF InBounds
  <2>2. IsFiniteSet(A)
    BY <2>1, FS_Subset DEF Alike
  <2>3. N \in Nat
    BY <2>2, FS_CardinalityType
  <2>4. PICK f : /\ f[0] = {start}
                 /\ \A k \in 1..N : f[k] = Grown(m, layer, start, f[k - 1])
                 /\ FloodRegion(m, layer, start) = f[N]
    BY <1>2, <2>3, FloodUnfold
  <2> HIDE DEF N
  <2> DEFINE S == {k \in Nat : k <= N => f[k] \subseteq Cells(m)}
  <2>5. 0 \in S
    BY <2>1, <2>4
  <2>6. ASSUME NEW k \in Nat, k \in S PROVE k + 1 \in S
    <3>1. SUFFICES ASSUME k + 1 <= N PROVE f[k + 1] \subseteq Cells(m)
      OBVIOUS
    <3>2. k + 1 \in 1..N /\ (k + 1) - 1 = k /\ k <= N
      BY <2>3, <3>1
    <3>3. f[k + 1] = Grown(m, layer, start, f[k])
      BY <2>4, <3>2
    <3>4. f[k] \subseteq Cells(m)
      BY <2>6, <3>2
    <3> QED BY <3>3, <3>4 DEF Grown, Alike
  <2> HIDE DEF S
  <2>7. N \in S
    BY <2>3, <2>5, <2>6, NatInduct
  <2>8. f[N] \subseteq Cells(m)
    BY <2>3, <2>7 DEF S
  <2> QED BY <2>1, <2>4, <2>8, FS_Subset
<1> QED BY <1>1, <1>2

\* A finite set put in a row.
LEMMA SetRow ==
  ASSUME NEW S, IsFiniteSet(S)
  PROVE  IsList(SetToSeq(S)) /\ \A n \in DOMAIN SetToSeq(S) : SetToSeq(S)[n] \in S
<1> DEFINE N == Cardinality(S)
           f == SetToSeq(S)
<1>1. N \in Nat /\ ExistsBijection(1..N, S)
  BY FS_CardinalityType
<1>2. \E g \in [1..N -> S] : IsInjective(g)
  <2>1. PICK g \in Bijection(1..N, S) : TRUE
    BY <1>1 DEF ExistsBijection
  <2>2. g \in [1..N -> S] /\ \A a, b \in 1..N : g[a] = g[b] => a = b
    BY <2>1 DEF Bijection, Injection, IsInjective
  <2> QED BY <2>2 DEF IsInjective
<1>3. f \in [1..N -> S]
  BY <1>2 DEF SetToSeq
<1> HIDE DEF f
<1>4. DOMAIN f = 1..N /\ f = [i \in 1..N |-> f[i]]
  BY <1>3
<1>5. IsList(f)
  BY <1>1, <1>4, IsListOf
<1> QED BY <1>3, <1>4, <1>5 DEF f

\* A painted tile is an event.
LEMMA PaintEvent ==
  ASSUME NEW layer \in {"ground", "prop"}, NEW at, NEW tile \in Nat
  PROVE  IsEvent(Paint(layer, at, tile)) /\ Paint(layer, at, tile).kind = "TilePlaced"
BY DEF IsEvent, Paint

\* Filling a region is a batch of paints.
LEMMA FillBatch ==
  ASSUME NEW m, IsDocument(m), NEW tile \in Nat, NEW at
  PROVE  LET s == SetToSeq({Paint("ground", c, tile) : c \in FloodRegion(m, m.ground, at)})
         IN  IsBatch(s) /\ \A k \in DOMAIN s : s[k].kind = "TilePlaced"
<1> DEFINE F == FloodRegion(m, m.ground, at)
           f == [c \in F |-> Paint("ground", c, tile)]
           T == {Paint("ground", c, tile) : c \in F}
           S == {f[c] : c \in F}
           s == SetToSeq(T)
<1>1. IsFiniteSet(F)
  BY FloodFinite
<1>2. S = T
  OBVIOUS
<1>3. f \in [F -> T]
  OBVIOUS
<1> HIDE DEF f, F, T
<1>4. IsFiniteSet(T)
  <2>1. IsFiniteSet(S)
    BY <1>1, <1>3, FiniteImage
  <2> QED BY <1>2, <2>1
<1>5. IsList(s) /\ \A n \in DOMAIN s : s[n] \in T
  BY <1>4, SetRow
<1>6. \A e \in T : IsEvent(e) /\ e.kind = "TilePlaced"
  BY PaintEvent DEF T
<1> HIDE DEF s
<1>7. IsBatch(s) /\ \A k \in DOMAIN s : s[k].kind = "TilePlaced"
  BY <1>5, <1>6 DEF IsBatch
<1> QED BY <1>7 DEF s, T, F

\* The id for a new token is nobody's, on the board or off it.
LEMMA FreshId ==
  ASSUME NEW u, Sound(u)
  PROVE  /\ NextTokenId(u) \in Nat \ {0}
         /\ NextTokenId(u) \notin Ids(u.map) /\ NextTokenId(u) \notin u.held
<1> DEFINE T == u.map.tokens
           D == DOMAIN T
           f == [n \in D |-> T[n].id]
           I == {f[n] : n \in D}
           J == {T[n].id : n \in D}
           S == {0} \cup Ids(u.map) \cup u.held
<1>1. IsList(T) /\ IsDocument(u.map) /\ IsFiniteSet(u.held) /\ u.held \subseteq Nat
  BY DEF Sound, IsDocument
<1>2. IsFiniteSet(D)
  BY <1>1, ListFacts, FS_Interval
<1>3. f \in [D -> J]
  OBVIOUS
<1>4. Ids(u.map) = I
  BY DEF Ids, Range
<1> HIDE DEF f, D, J
<1>5. IsFiniteSet(I)
  BY <1>2, <1>3, FiniteImage
<1> HIDE DEF I
<1>6. Ids(u.map) \subseteq Nat
  BY <1>1, TokenFacts
<1>7. IsFiniteSet(S)
  BY <1>1, <1>4, <1>5, FS_Union, FS_Singleton
<1>8. S \subseteq Nat /\ S # {}
  BY <1>1, <1>6
<1>9. \E m \in S : \A i \in S : i <= m
  BY <1>7, <1>8, FiniteMax
<1> DEFINE top == Max(S)
<1>10. top \in S /\ \A i \in S : i <= top
  <2>1. \E m \in S : \A i \in S : m >= i
    BY <1>8, <1>9
  <2>2. top \in S /\ \A i \in S : top >= i
    BY <2>1 DEF Max
  <2> QED BY <1>8, <2>2
<1>11. NextTokenId(u) = 1 + top
  BY DEF NextTokenId
<1> HIDE DEF top
<1>12. top \in Nat
  BY <1>8, <1>10
<1>13. \A i \in S : i \in Nat /\ i <= top
  BY <1>8, <1>10
<1>14. 1 + top \notin S
  BY <1>12, <1>13
<1> QED BY <1>11, <1>12, <1>14

-----------------------------------------------------------------------------
(* Turns *)

LEMMA NoTurnsSound == SoundTurns(NoTurns)
BY EmptyList DEF SoundTurns, NoTurns, IsOrder, Range

\* A new order starts at its top.
LEMMA SetOrderSound ==
  ASSUME NEW ids, IsOrder(ids)
  PROVE  SoundTurns(SetOrder(ids))
<1>1. Len(ids) \in Nat /\ IsList(ids)
  BY ListFacts DEF IsOrder
<1>2. Len(ids) = 0 => ids = <<>>
  BY <1>1, EmptyList, ListsEqual
<1> QED BY <1>1, <1>2 DEF SoundTurns, SetOrder

\* A turn list: an order, and a place in it.
LEMMA TurnFacts ==
  ASSUME NEW t, SoundTurns(t)
  PROVE  /\ DOMAIN t = {"order", "at", "round"} /\ t.at \in Nat /\ IsList(t.order)
         /\ Len(t.order) \in Nat /\ DOMAIN t.order = 1..Len(t.order)
         /\ \A n, k \in 1..Len(t.order) : t.order[n] = t.order[k] => n = k
         /\ \A n \in 1..Len(t.order) : t.order[n] # NoToken
         /\ t.order # <<>> => t.at < Len(t.order)
         /\ t.order = <<>> => t.at = 0 /\ Len(t.order) = 0
         /\ Active(t) = NoToken => t.order = <<>>
<1>1. /\ DOMAIN t = {"order", "at", "round"} /\ t.at \in Nat /\ IsList(t.order)
      /\ NoToken \notin Range(t.order)
      /\ \A n, k \in DOMAIN t.order : t.order[n] = t.order[k] => n = k
      /\ t.at < Len(t.order) \/ (t.order = <<>> /\ t.at = 0)
  BY DEF SoundTurns, IsOrder
<1>2. Len(t.order) \in Nat /\ DOMAIN t.order = 1..Len(t.order)
  BY <1>1, ListFacts
<1>3. \A n \in 1..Len(t.order) : t.order[n] # NoToken
  BY <1>1, <1>2 DEF Range
<1>4. t.order = <<>> => Len(t.order) = 0
  BY EmptyList
<1>5. Active(t) = NoToken => t.order = <<>>
  <2>1. SUFFICES ASSUME t.at < Len(t.order) PROVE Active(t) # NoToken
    BY <1>1
  <2>2. t.at + 1 \in 1..Len(t.order)
    BY <1>1, <1>2, <2>1
  <2> QED BY <1>3, <2>1, <2>2 DEF Active
<1> QED BY <1>1, <1>2, <1>3, <1>4, <1>5

\* A token joins the turn list.
LEMMA TurnAddSound ==
  ASSUME NEW t, SoundTurns(t), NEW id, id # NoToken
  PROVE  SoundTurns(TurnAdd(t, id)) /\ ShrinkKeeps(t, TurnAdd(t, id))
<1> DEFINE s == TurnAdd(t, id)
           L == Len(t.order)
           more == Append(t.order, id)
<1>1. /\ DOMAIN t = {"order", "at", "round"} /\ t.at \in Nat /\ IsList(t.order)
      /\ L \in Nat /\ DOMAIN t.order = 1..L
      /\ \A n, k \in 1..L : t.order[n] = t.order[k] => n = k
      /\ \A n \in 1..L : t.order[n] # NoToken
      /\ t.order # <<>> => t.at < L
      /\ t.order = <<>> => t.at = 0 /\ L = 0
  BY TurnFacts
<1>2. CASE id \in Range(t.order)
  BY <1>1, <1>2 DEF TurnAdd, ShrinkKeeps
<1>3. CASE id \notin Range(t.order)
  <2>1. s = [t EXCEPT !.order = more]
    BY <1>3 DEF TurnAdd
  <2>2. /\ IsList(more) /\ Len(more) = L + 1 /\ DOMAIN more = 1..(L + 1)
        /\ (\A i \in 1..L : more[i] = t.order[i]) /\ more[L + 1] = id
        /\ Range(more) = Range(t.order) \cup {id}
    BY <1>1, ListAppend
  <2>3. \A i \in 1..L : t.order[i] # id
    BY <1>1, <1>3 DEF Range
  <2>4. NoToken \notin Range(t.order)
    BY DEF SoundTurns, IsOrder
  <2> HIDE DEF s, more, L
  <2>5. ASSUME NEW n \in 1..(L + 1), NEW k \in 1..(L + 1), more[n] = more[k] PROVE n = k
    BY <1>1, <2>2, <2>3, <2>5
  <2>6. IsOrder(more)
    BY <2>2, <2>4, <2>5 DEF IsOrder
  <2>7. DOMAIN s = DOMAIN t /\ s.order = more /\ s.at = t.at
    BY <1>1, <2>1
  <2>8. t.at < L + 1
    BY <1>1
  <2>9. SoundTurns(s)
    BY <1>1, <2>2, <2>6, <2>7, <2>8 DEF SoundTurns
  <2>10. ShrinkKeeps(t, s)
    BY <1>1, <2>2, <2>7 DEF ShrinkKeeps, L
  <2> QED BY <2>9, <2>10 DEF s
<1> QED BY <1>2, <1>3

\* Whoever is up stays up when another leaves.
LEMMA TurnRemoveSound ==
  ASSUME NEW t, SoundTurns(t), NEW id
  PROVE  /\ SoundTurns(TurnRemove(t, id)) /\ ShrinkKeeps(t, TurnRemove(t, id))
         /\ id \notin Range(t.order) => TurnRemove(t, id) = t
<1> DEFINE s == TurnRemove(t, id)
           L == Len(t.order)
           pos == CHOOSE n \in DOMAIN t.order : t.order[n] = id
           left == RemoveAt(t.order, pos)
<1>1. /\ DOMAIN t = {"order", "at", "round"} /\ t.at \in Nat /\ IsList(t.order)
      /\ L \in Nat /\ DOMAIN t.order = 1..L
      /\ \A n, k \in 1..L : t.order[n] = t.order[k] => n = k
      /\ \A n \in 1..L : t.order[n] # NoToken
      /\ t.order # <<>> => t.at < L
      /\ t.order = <<>> => t.at = 0 /\ L = 0
  BY TurnFacts
<1>2. CASE id \notin Range(t.order)
  BY <1>1, <1>2 DEF TurnRemove, ShrinkKeeps
<1>3. CASE id \in Range(t.order)
  <2>1. s = [t EXCEPT !.order = left,
                      !.at = IF pos - 1 < t.at THEN t.at - 1 ELSE IF t.at >= Len(left) THEN 0 ELSE t.at]
    BY <1>3 DEF TurnRemove
  <2>2. pos \in 1..L /\ t.order[pos] = id
    <3>1. \E n \in DOMAIN t.order : t.order[n] = id
      BY <1>3 DEF Range
    <3>2. pos \in DOMAIN t.order /\ t.order[pos] = id
      BY <3>1
    <3> QED BY <1>1, <3>2
  <2> HIDE DEF pos
  <2>3. /\ IsList(left) /\ Len(left) = L - 1 /\ DOMAIN left = 1..(L - 1)
        /\ \A i \in 1..(L - 1) : left[i] = t.order[IF i < pos THEN i ELSE i + 1]
        /\ Range(left) = {t.order[i] : i \in 1..L \ {pos}}
    BY <1>1, <2>2, ListRemoveAt, SMTT(60)
  <2>4. t.at < L
    BY <1>1, <2>2
  <2> HIDE DEF s, left, L
  <2>5. DOMAIN s = DOMAIN t /\ s.order = left
        /\ s.at = IF pos - 1 < t.at THEN t.at - 1 ELSE IF t.at >= L - 1 THEN 0 ELSE t.at
    BY <1>1, <2>1, <2>3
  <2>6. \A i \in 1..(L - 1) : (IF i < pos THEN i ELSE i + 1) \in 1..L
    BY <1>1, <2>2
  <2>7. ASSUME NEW n \in 1..(L - 1), NEW k \in 1..(L - 1), left[n] = left[k] PROVE n = k
    <3>1. (IF n < pos THEN n ELSE n + 1) = (IF k < pos THEN k ELSE k + 1)
      BY <1>1, <2>3, <2>6, <2>7
    <3> QED BY <1>1, <2>2, <3>1
  <2>8. NoToken \notin Range(left)
    BY <1>1, <2>3
  <2>9. IsOrder(left)
    BY <2>3, <2>7, <2>8 DEF IsOrder
  <2>10. Len(left) = 0 => left = <<>>
    BY <2>3, EmptyList, ListsEqual
  <2>11. s.at \in Nat /\ (s.at < L - 1 \/ (L - 1 = 0 /\ s.at = 0))
    BY <1>1, <2>2, <2>4, <2>5
  <2>12. SoundTurns(s)
    BY <1>1, <2>3, <2>5, <2>9, <2>10, <2>11 DEF SoundTurns
  <2>13. ASSUME Active(t) \in Range(left) PROVE Active(s) = Active(t)
    <3>1. Active(t) = t.order[t.at + 1] /\ t.at + 1 \in 1..L
      BY <1>1, <2>4 DEF Active, L
    <3>2. PICK i \in 1..L \ {pos} : t.order[t.at + 1] = t.order[i]
      BY <2>3, <2>13, <3>1
    <3>3. t.at + 1 # pos
      BY <1>1, <3>1, <3>2
    <3>4. s.at < L - 1 /\ s.at + 1 \in 1..(L - 1) /\ (IF s.at + 1 < pos THEN s.at + 1 ELSE (s.at + 1) + 1) = t.at + 1
      <4>1. CASE pos - 1 < t.at
        <5>1. s.at = t.at - 1 /\ pos < t.at + 1
          BY <1>1, <2>2, <2>5, <3>3, <4>1
        <5> QED BY <1>1, <2>2, <2>4, <5>1
      <4>2. CASE ~(pos - 1 < t.at)
        <5>1. t.at + 1 < pos
          BY <1>1, <2>2, <3>3, <4>2
        <5>2. s.at = t.at
          BY <1>1, <2>2, <2>5, <4>2, <5>1
        <5> QED BY <1>1, <2>2, <5>1, <5>2
      <4> QED BY <4>1, <4>2
    <3>5. Active(s) = left[s.at + 1]
      BY <2>3, <2>5, <3>4 DEF Active
    <3> QED BY <2>3, <3>1, <3>4, <3>5
  <2>14. ShrinkKeeps(t, s)
    BY <2>5, <2>13 DEF ShrinkKeeps
  <2> QED BY <1>3, <2>12, <2>14 DEF s
<1> QED BY <1>2, <1>3

\* The next in the order.
LEMMA AdvanceSound ==
  ASSUME NEW t, SoundTurns(t)
  PROVE  SoundTurns(Advance(t)) /\ Advance(t).order = t.order
<1>1. CASE t.order = <<>>
  BY <1>1 DEF Advance
<1>2. CASE t.order # <<>>
  <2> DEFINE next == (t.at + 1) % Len(t.order)
             s == Advance(t)
             later == t.round + (IF next = 0 THEN 1 ELSE 0)
  <2>1. DOMAIN t = {"order", "at", "round"} /\ t.at \in Nat /\ Len(t.order) \in Nat /\ t.at < Len(t.order)
    BY <1>2, TurnFacts
  <2>2. next \in Nat /\ next < Len(t.order)
    BY <2>1
  <2>3. s = [t EXCEPT !.at = next, !.round = later]
    BY <1>2 DEF Advance
  <2> HIDE DEF s, next, later
  <2>4. DOMAIN s = DOMAIN t /\ s.order = t.order /\ s.at = next
    BY <2>1, <2>3
  <2>5. SoundTurns(s)
    BY <2>1, <2>2, <2>4 DEF SoundTurns
  <2> QED BY <2>4, <2>5 DEF s
<1> QED BY <1>1, <1>2

\* Where a lap stops: at the first turn not skipped, or at its end.
Landing(lap, t, skipped) ==
  LET up == {n \in 1..Len(t.order) : Active(lap[n]) \notin skipped}
  IN  IF up = {} THEN Len(t.order) ELSE Min(up)

\* The turns of a lap, and the one the lap stops at.
LEMMA LapUnfold ==
  ASSUME NEW t, Len(t.order) \in Nat, NEW skipped
  PROVE  \E f : /\ f[0] = t
                /\ \A k \in 1..Len(t.order) : f[k] = Advance(f[k - 1])
                /\ AdvanceSkipping(t, skipped) = f[Landing(f, t, skipped)]
<1> DEFINE N == Len(t.order)
           W == AdvanceSkipping(t, skipped)
           base == t
           P(n, f) == f = [k \in 0..n |-> IF k = 0 THEN base ELSE Advance(f[k - 1])]
           S == {n \in Nat : \E f : P(n, f)}
<1>0. N \in Nat
  OBVIOUS
<1>1. W = (CHOOSE f : P(N, f))[Landing(CHOOSE f : P(N, f), t, skipped)]
  BY DEF AdvanceSkipping, Landing
<1> HIDE DEF N, W, base
<1>2. 0 \in S
  <2>1. P(0, [k \in 0..0 |-> base])
    OBVIOUS
  <2> QED BY <2>1
<1>3. ASSUME NEW n \in Nat, n \in S PROVE n + 1 \in S
  <2>1. PICK f : P(n, f)
    BY <1>3
  <2> DEFINE next == Advance(f[n])
             h == [k \in 0..(n + 1) |-> IF k = n + 1 THEN next ELSE f[k]]
  <2> HIDE DEF next
  <2>2. ASSUME NEW k \in 0..(n + 1)
        PROVE  h[k] = IF k = 0 THEN base ELSE Advance(h[k - 1])
    <3>1. CASE k = n + 1
      <4>1. h[k] = next /\ h[k - 1] = f[n] /\ k # 0
        BY <3>1
      <4> QED BY <3>1, <4>1 DEF next
    <3>2. CASE k \in 1..n
      <4>1. h[k] = f[k] /\ h[k - 1] = f[k - 1] /\ k # 0 /\ k \in 0..n
        BY <3>2
      <4>2. f[k] = Advance(f[k - 1])
        BY <2>1, <4>1
      <4> QED BY <4>1, <4>2
    <3>3. CASE k = 0
      <4>1. h[0] = f[0] /\ f[0] = base
        BY <2>1
      <4> QED BY <3>3, <4>1
    <3> QED BY <3>1, <3>2, <3>3
  <2>3. h = [k \in 0..(n + 1) |-> h[k]]
    OBVIOUS
  <2> HIDE DEF h
  <2>4. P(n + 1, h)
    BY <2>2, <2>3
  <2>5. n + 1 \in Nat
    OBVIOUS
  <2> HIDE DEF P
  <2> QED BY <2>4, <2>5
<1> HIDE DEF S
<1>4. N \in S
  BY <1>0, <1>2, <1>3, NatInduct
<1> DEFINE g == CHOOSE f : P(N, f)
<1>5. P(N, g)
  <2>1. \E f : P(N, f)
    BY <1>4 DEF S
  <2> HIDE DEF P, N
  <2> QED BY <2>1
<1>6. W = g[Landing(g, t, skipped)]
  BY <1>1
<1> HIDE DEF g
<1>7. g[0] = base /\ \A k \in 1..N : g[k] = Advance(g[k - 1])
  BY <1>0, <1>5
<1> HIDE DEF P
<1>8. \E f : /\ f[0] = base
             /\ \A k \in 1..N : f[k] = Advance(f[k - 1])
             /\ W = f[Landing(f, t, skipped)]
  BY <1>6, <1>7
<1> QED BY <1>8 DEF N, W, base

\* Skipping changes who is up, never the order.
LEMMA AdvanceSkippingSound ==
  ASSUME NEW t, SoundTurns(t), NEW skipped
  PROVE  /\ SoundTurns(AdvanceSkipping(t, skipped)) /\ AdvanceSkipping(t, skipped).order = t.order
         /\ t.order = <<>> => AdvanceSkipping(t, skipped) = t
<1> DEFINE L == Len(t.order)
<1>1. L \in Nat /\ (t.order = <<>> => L = 0)
  BY TurnFacts
<1>2. PICK f : /\ f[0] = t
               /\ \A k \in 1..L : f[k] = Advance(f[k - 1])
               /\ AdvanceSkipping(t, skipped) = f[Landing(f, t, skipped)]
  BY <1>1, LapUnfold
<1>3. Landing(f, t, skipped) \in 0..L
  <2> DEFINE up == {n \in 1..L : Active(f[n]) \notin skipped}
  <2>1. Landing(f, t, skipped) = IF up = {} THEN L ELSE Min(up)
    BY DEF Landing
  <2>2. up \subseteq 1..L
    OBVIOUS
  <2> HIDE DEF up, L
  <2>3. up # {} => Min(up) \in up
    <3>1. SUFFICES ASSUME up # {} PROVE Min(up) \in up
      OBVIOUS
    <3>2. up \subseteq Nat
      BY <2>2
    <3>3. \E m \in up : \A i \in up : m <= i
      BY <3>1, <3>2, LeastOf
    <3> QED BY <3>3 DEF Min
  <2>4. CASE up = {}
    BY <1>1, <2>1, <2>4
  <2>5. CASE up # {}
    <3>1. Landing(f, t, skipped) \in 1..L
      BY <2>1, <2>2, <2>3, <2>5
    <3> QED BY <1>1, <3>1
  <2> QED BY <2>4, <2>5
<1> HIDE DEF L
<1> DEFINE S == {k \in Nat : k <= L => SoundTurns(f[k]) /\ f[k].order = t.order}
<1>4. 0 \in S
  BY <1>2
<1>5. ASSUME NEW k \in Nat, k \in S PROVE k + 1 \in S
  <2>1. SUFFICES ASSUME k + 1 <= L PROVE SoundTurns(f[k + 1]) /\ f[k + 1].order = t.order
    OBVIOUS
  <2>2. k + 1 \in 1..L /\ (k + 1) - 1 = k /\ k <= L
    BY <1>1, <2>1
  <2>3. f[k + 1] = Advance(f[k])
    BY <1>2, <2>2
  <2>4. SoundTurns(f[k]) /\ f[k].order = t.order
    BY <1>5, <2>2
  <2> QED BY <2>3, <2>4, AdvanceSound
<1> HIDE DEF S
<1>6. Nat \subseteq S
  BY <1>4, <1>5, NatInduct
<1>7. Landing(f, t, skipped) \in Nat /\ Landing(f, t, skipped) <= L
  BY <1>1, <1>3
<1>8. SoundTurns(f[Landing(f, t, skipped)]) /\ f[Landing(f, t, skipped)].order = t.order
  BY <1>6, <1>7 DEF S
<1>9. t.order = <<>> => Landing(f, t, skipped) = 0
  BY <1>1, <1>7
<1> QED BY <1>2, <1>8, <1>9

-----------------------------------------------------------------------------
(* Initiative *)

\* Those who roll are each once in the list.
LEMMA CombatantsOrder ==
  ASSUME NEW u, Sound(u)
  PROVE  /\ IsOrder(Combatants(u)) /\ Len(Combatants(u)) \in Nat
         /\ DOMAIN Combatants(u) = 1..Len(Combatants(u))
<1> DEFINE ids == Combatants(u)
           T == u.map.tokens
<1>1. CASE u.turns.order # <<>>
  <2>1. ids = u.turns.order /\ IsOrder(u.turns.order)
    BY <1>1 DEF Combatants, Sound, SoundTurns
  <2> HIDE DEF ids
  <2>2. IsOrder(ids) /\ IsList(ids)
    BY <2>1 DEF IsOrder
  <2>3. Len(ids) \in Nat /\ DOMAIN ids = 1..Len(ids)
    BY <2>2, ListFacts
  <2> QED BY <2>2, <2>3 DEF ids
<1>2. CASE u.turns.order = <<>>
  <2>1. ids = [n \in DOMAIN T |-> T[n].id]
    BY <1>2 DEF Combatants
  <2>2. IsDocument(u.map)
    BY DEF Sound
  <2>3. /\ IsList(T)
        /\ \A n \in DOMAIN T : IsToken(T[n])
        /\ \A n, k \in DOMAIN T : T[n].id = T[k].id => n = k
    BY <2>2 DEF IsDocument
  <2>4. Len(T) \in Nat /\ DOMAIN T = 1..Len(T)
    BY <2>3, ListFacts
  <2> HIDE DEF ids, T
  <2>5. DOMAIN ids = 1..Len(T) /\ ids = [n \in 1..Len(T) |-> ids[n]] /\ \A n \in 1..Len(T) : ids[n] = T[n].id
    BY <2>1, <2>4
  <2>6. IsList(ids) /\ Len(ids) = Len(T)
    BY <2>4, <2>5, IsListOf
  <2>7. \A n \in 1..Len(T) : ids[n] # NoToken
    BY <2>3, <2>4, <2>5 DEF IsToken, NoToken
  <2>8. NoToken \notin Range(ids)
    BY <2>5, <2>7 DEF Range
  <2>9. \A n, k \in DOMAIN ids : ids[n] = ids[k] => n = k
    BY <2>3, <2>4, <2>5
  <2>10. IsOrder(ids)
    BY <2>6, <2>8, <2>9 DEF IsOrder
  <2> QED BY <2>4, <2>5, <2>6, <2>10 DEF ids
<1> QED BY <1>1, <1>2

\* The roll that counts for one of them is one of theirs.
LEMMA LeaderIn ==
  ASSUME NEW u, Sound(u), NEW n \in DOMAIN Combatants(u)
  PROVE  Leader(u, n) \in DOMAIN Combatants(u)
<1> DEFINE D == DOMAIN Combatants(u)
           side == {k \in D : SideOf(u, Combatants(u)[k]) = SideOf(u, Combatants(u)[n])}
<1>1. D \subseteq Nat
  BY CombatantsOrder
<1>2. CASE u.init = "individual"
  BY <1>2 DEF Leader
<1>3. CASE u.init # "individual"
  <2>1. Leader(u, n) = Min(side)
    BY <1>3 DEF Leader
  <2>2. side \subseteq D /\ side # {}
    OBVIOUS
  <2> HIDE DEF side, D
  <2>3. \E m \in side : \A i \in side : m <= i
    BY <1>1, <2>2, LeastOf
  <2>4. Min(side) \in side
    BY <2>3 DEF Min
  <2> QED BY <2>1, <2>2, <2>4 DEF D
<1> QED BY <1>2, <1>3

\* Finitely many roll.
LEMMA RollersFinite ==
  ASSUME NEW u, Sound(u)
  PROVE  IsFiniteSet(Rollers(u)) /\ Cardinality(Rollers(u)) \in Nat
<1> DEFINE D == DOMAIN Combatants(u)
<1>1. IsFiniteSet(D)
  BY CombatantsOrder, FS_Interval
<1>2. Rollers(u) \subseteq D
  BY LeaderIn DEF Rollers
<1> HIDE DEF D
<1>3. IsFiniteSet(Rollers(u))
  BY <1>1, <1>2, FS_Subset
<1> QED BY <1>3, FS_CardinalityType

\* Of two turns one is before the other, and before what that one is before.
LEMMA BeforeOrder ==
  ASSUME NEW u, Sound(u), NEW faces \in [Rollers(u) -> DieFaces]
  PROVE  /\ \A k \in DOMAIN Combatants(u) : ~Before(u, faces, k, k)
         /\ \A k, n \in DOMAIN Combatants(u) : k # n => Before(u, faces, k, n) \/ Before(u, faces, n, k)
         /\ \A j, k, n \in DOMAIN Combatants(u) :
              Before(u, faces, j, k) /\ Before(u, faces, k, n) => Before(u, faces, j, n)
<1> DEFINE D == DOMAIN Combatants(u)
           a(n) == Leader(u, n)
           roll(n) == faces[a(n)]
<1>1. D \subseteq Nat
  BY CombatantsOrder
<1>2. \A n \in D : a(n) \in Nat /\ roll(n) \in Int
  <2>1. \A n \in D : a(n) \in Rollers(u) /\ a(n) \in D
    BY LeaderIn DEF Rollers
  <2> QED BY <1>1, <2>1, FacesAssumption
<1>3. \A k, n : Before(u, faces, k, n) <=> roll(k) > roll(n) \/ (roll(k) = roll(n) /\ (a(k) < a(n) \/ (a(k) = a(n) /\ k < n)))
  BY DEF Before
<1> HIDE DEF D, a, roll
<1>4. \A k \in D : ~Before(u, faces, k, k)
  BY <1>1, <1>2, <1>3
<1>5. \A k, n \in D : k # n => Before(u, faces, k, n) \/ Before(u, faces, n, k)
  BY <1>1, <1>2, <1>3
<1>6. ASSUME NEW j \in D, NEW k \in D, NEW n \in D, Before(u, faces, j, k), Before(u, faces, k, n)
      PROVE  Before(u, faces, j, n)
  <2>1. /\ roll(j) > roll(k) \/ (roll(j) = roll(k) /\ (a(j) < a(k) \/ (a(j) = a(k) /\ j < k)))
        /\ roll(k) > roll(n) \/ (roll(k) = roll(n) /\ (a(k) < a(n) \/ (a(k) = a(n) /\ k < n)))
    BY <1>3, <1>6
  <2>2. j \in Nat /\ k \in Nat /\ n \in Nat /\ a(j) \in Nat /\ a(k) \in Nat /\ a(n) \in Nat
        /\ roll(j) \in Int /\ roll(k) \in Int /\ roll(n) \in Int
    BY <1>1, <1>2
  <2>3. roll(j) > roll(n) \/ (roll(j) = roll(n) /\ (a(j) < a(n) \/ (a(j) = a(n) /\ j < n)))
    BY <2>1, <2>2
  <2> QED BY <1>3, <2>3
<1> QED BY <1>4, <1>5, <1>6 DEF D

\* The rolled order is an order, of the same tokens.
LEMMA ByRollOrder ==
  ASSUME NEW u, Sound(u), NEW faces \in [Rollers(u) -> DieFaces]
  PROVE  IsOrder(ByRoll(u, faces)) /\ Len(ByRoll(u, faces)) = Len(Combatants(u))
<1> DEFINE ids == Combatants(u)
           N == Len(ids)
           D == DOMAIN ids
           up(n) == {k \in D : Before(u, faces, k, n)}
           place(n) == 1 + Cardinality(up(n))
           f == [n \in D |-> place(n)]
           who(p) == CHOOSE n \in D : place(n) = p
           r == ByRoll(u, faces)
<1>1. /\ IsOrder(ids) /\ N \in Nat /\ D = 1..N
      /\ \A n, k \in D : ids[n] = ids[k] => n = k
      /\ \A n \in D : ids[n] # NoToken
  <2>1. IsOrder(ids) /\ N \in Nat /\ D = 1..N
    BY CombatantsOrder
  <2>2. \A n \in D : ids[n] # NoToken
    BY <2>1 DEF IsOrder, Range
  <2> QED BY <2>1, <2>2 DEF IsOrder
<1>2. /\ \A k \in D : ~Before(u, faces, k, k)
      /\ \A k, n \in D : k # n => Before(u, faces, k, n) \/ Before(u, faces, n, k)
      /\ \A j, k, n \in D : Before(u, faces, j, k) /\ Before(u, faces, k, n) => Before(u, faces, j, n)
  BY BeforeOrder
<1>3. r = [p \in D |-> ids[who(p)]]
  BY DEF ByRoll
<1> HIDE DEF ids, N, D, r
<1>4. IsFiniteSet(D) /\ Cardinality(D) = N
  <2>1. IsFiniteSet(1..N) /\ Cardinality(1..N) = IF 1 > N THEN 0 ELSE N - 1 + 1
    BY <1>1, FS_Interval
  <2> QED BY <1>1, <2>1
<1>5. ASSUME NEW n \in D PROVE IsFiniteSet(up(n)) /\ Cardinality(up(n)) \in Nat /\ place(n) \in D
  <2>1. up(n) \subseteq D \ {n}
    BY <1>2
  <2>2. IsFiniteSet(D \ {n}) /\ Cardinality(D \ {n}) = N - 1
    BY <1>4, FS_RemoveElement
  <2>3. IsFiniteSet(up(n)) /\ Cardinality(up(n)) <= N - 1
    BY <2>1, <2>2, FS_Subset
  <2>4. Cardinality(up(n)) \in Nat
    BY <2>3, FS_CardinalityType
  <2> HIDE DEF up
  <2>5. 1 + Cardinality(up(n)) \in 1..N
    BY <1>1, <2>3, <2>4
  <2> QED BY <1>1, <2>3, <2>4, <2>5
<1>6. ASSUME NEW k \in D, NEW n \in D, Before(u, faces, k, n)
      PROVE  Cardinality(up(k)) # Cardinality(up(n))
  <2>1. up(k) \subseteq up(n)
    BY <1>2, <1>6
  <2>2. k \in up(n) /\ k \notin up(k)
    BY <1>2, <1>6
  <2>3. IsFiniteSet(up(n)) /\ up(k) # up(n)
    BY <1>5, <2>2
  <2> HIDE DEF up
  <2> QED BY <2>1, <2>3, FS_Subset
<1>7. ASSUME NEW k \in D, NEW n \in D, place(k) = place(n) PROVE k = n
  <2>1. Cardinality(up(k)) \in Nat /\ Cardinality(up(n)) \in Nat
    BY <1>5
  <2>2. Cardinality(up(k)) = Cardinality(up(n))
    <3> HIDE DEF up
    <3> QED BY <1>7, <2>1
  <2> HIDE DEF up
  <2> QED BY <1>2, <1>6, <2>2
<1>8. f \in Injection(D, D)
  <2>1. f \in [D -> D]
    BY <1>5
  <2>2. \A a, b \in D : f[a] = f[b] => a = b
    BY <1>7
  <2> HIDE DEF f
  <2> QED BY <2>1, <2>2 DEF Injection, IsInjective
<1>9. f \in Surjection(D, D)
  <2> HIDE DEF f
  <2> QED BY <1>4, <1>8, FS_Injection
<1>10. ASSUME NEW p \in D PROVE who(p) \in D /\ place(who(p)) = p
  <2>1. \E n \in D : f[n] = p
    <3> HIDE DEF f
    <3> QED BY <1>9 DEF Surjection
  <2>2. \E n \in D : place(n) = p
    BY <2>1
  <2> HIDE DEF place
  <2> QED BY <2>2
<1> HIDE DEF who, place, up, f
<1>11. DOMAIN r = 1..N /\ r = [p \in 1..N |-> r[p]] /\ \A p \in D : r[p] = ids[who(p)]
  BY <1>1, <1>3
<1>12. IsList(r) /\ Len(r) = N
  BY <1>1, <1>11, IsListOf
<1>13. NoToken \notin Range(r)
  BY <1>1, <1>10, <1>11 DEF Range
<1>14. ASSUME NEW p \in D, NEW q \in D, r[p] = r[q] PROVE p = q
  <2>1. who(p) = who(q)
    BY <1>1, <1>10, <1>11, <1>14
  <2> QED BY <1>10, <2>1
<1>15. IsOrder(r)
  BY <1>1, <1>11, <1>12, <1>13, <1>14 DEF IsOrder
<1> QED BY <1>12, <1>15 DEF r, N, ids

-----------------------------------------------------------------------------
(* Handlers: what only the lanes, the panel or the overlays see *)

\* The handlers that touch neither board, history, turns, fog nor reach.
LEMMA QuietHandlers ==
  ASSUME NEW u, Sound(u)
  PROVE  /\ \A s : Quiet(u, [u EXCEPT !.sprite = s])
         /\ \A s : Quiet(u, [u EXCEPT !.init = s])
         /\ \A id : Quiet(u, [u EXCEPT !.sheet = id])
         /\ \A id : Quiet(u, [u EXCEPT !.menu = id])
         /\ \A p : Quiet(u, [u EXCEPT !.page = p])
         /\ \A at : Quiet(u, [u EXCEPT !.tile = at])
         /\ \A at : Quiet(u, [u EXCEPT !.anchor = at])
         /\ Quiet(u, [u EXCEPT !.search.open = TRUE])
         /\ Quiet(u, NextShape(u))
         /\ \A by : Quiet(u, Resized(u, by))
         /\ \A tab : Quiet(u, SetTab(u, tab))
         /\ \A col : Quiet(u, SortBy(u, col))
         /\ Quiet(u, StartCompose(u))
         /\ Quiet(u, ComposeCancel(u))
         /\ Quiet(u, ComposeSend(u))
         /\ \A who : Quiet(u, ReceiveWhisper(u, who))
         /\ Quiet(u, CycleTarget(u))
         /\ Quiet(u, CloseCompendium(u))
         /\ Quiet(u, CompendiumEscape(u))
         /\ Quiet(u, StartCommand(u))
         /\ Quiet(u, CommandCancel(u))
         /\ \A q : Quiet(u, FindQuery(u, q))
         /\ \A lane \in {"command", "whisper", "search"} : \A w : Quiet(u, Typed(u, lane, w))
         /\ \A lane \in {"command", "whisper", "search"} : Quiet(u, Rubbed(u, lane))
         /\ \A at : Quiet(u, Hover(u, at))
         /\ Quiet(u, ClearBeats(u))
         /\ \A seq, beats : Quiet(u, StageBeats(u, seq, beats))
<1>1. \A s : Quiet(u, [u EXCEPT !.sprite = s])
  BY DEF Sound, CoreFields, Quiet, Aside
<1>2. \A s : Quiet(u, [u EXCEPT !.init = s])
  BY DEF Sound, CoreFields, Quiet, Aside
<1>3. \A id : Quiet(u, [u EXCEPT !.sheet = id])
  BY DEF Sound, CoreFields, Quiet, Aside
<1>4. \A id : Quiet(u, [u EXCEPT !.menu = id])
  BY DEF Sound, CoreFields, Quiet, Aside
<1>5. \A p : Quiet(u, [u EXCEPT !.page = p])
  BY DEF Sound, CoreFields, Quiet, Aside
<1>6. \A at : Quiet(u, [u EXCEPT !.tile = at])
  BY DEF Sound, CoreFields, Quiet, Aside
<1>7. \A at : Quiet(u, [u EXCEPT !.anchor = at])
  BY DEF Sound, CoreFields, Quiet, Aside
<1>8. Quiet(u, [u EXCEPT !.search.open = TRUE])
  BY DEF Sound, CoreFields, Quiet, Aside
<1>9. Quiet(u, NextShape(u))
  BY DEF Sound, CoreFields, Quiet, Aside, NextShape
<1>10. \A by : Quiet(u, Resized(u, by))
  BY DEF Sound, CoreFields, Quiet, Aside, Resized
<1>11. \A tab : Quiet(u, SetTab(u, tab))
  BY DEF Sound, CoreFields, Quiet, Aside, SetTab
<1>12. \A col : Quiet(u, SortBy(u, col))
  BY DEF Sound, CoreFields, Quiet, Aside, SortBy
<1>13. Quiet(u, StartCompose(u))
  BY DEF Sound, CoreFields, Quiet, Aside, StartCompose
<1>14. Quiet(u, ComposeCancel(u))
  BY DEF Sound, CoreFields, Quiet, Aside, ComposeCancel
<1>15. Quiet(u, ComposeSend(u))
  BY DEF Sound, CoreFields, Quiet, Aside, ComposeSend, ComposeCancel, PushMessage
<1>16. \A who : Quiet(u, ReceiveWhisper(u, who))
  BY DEF Sound, CoreFields, Quiet, Aside, ReceiveWhisper, PushMessage
<1>17. Quiet(u, CycleTarget(u))
  BY DEF Sound, CoreFields, Quiet, Aside, CycleTarget
<1>18. Quiet(u, CloseCompendium(u))
  BY DEF Sound, CoreFields, Quiet, Aside, CloseCompendium
<1>19. Quiet(u, CompendiumEscape(u))
  BY DEF Sound, CoreFields, Quiet, Aside, CompendiumEscape, CloseCompendium
<1>20. Quiet(u, StartCommand(u))
  BY DEF Sound, CoreFields, Quiet, Aside, StartCommand
<1>21. Quiet(u, CommandCancel(u))
  BY DEF Sound, CoreFields, Quiet, Aside, CommandCancel
<1>22. \A q : Quiet(u, FindQuery(u, q))
  BY DEF Sound, CoreFields, Quiet, Aside, FindQuery
<1>23. \A lane \in {"command", "whisper", "search"} : \A w : Quiet(u, Typed(u, lane, w))
  BY DEF Sound, CoreFields, Quiet, Aside, Typed
<1>24. \A lane \in {"command", "whisper", "search"} : Quiet(u, Rubbed(u, lane))
  BY DEF Sound, CoreFields, Quiet, Aside, Rubbed
<1>25. \A at : Quiet(u, Hover(u, at))
  BY DEF Sound, CoreFields, Quiet, Aside, Hover
<1>26. Quiet(u, ClearBeats(u))
  BY DEF Sound, CoreFields, Quiet, Aside, ClearBeats
<1>27. \A seq, beats : Quiet(u, StageBeats(u, seq, beats))
  BY DEF Sound, CoreFields, Quiet, Aside, StageBeats
<1> QED BY <1>1, <1>2, <1>3, <1>4, <1>5, <1>6, <1>7, <1>8, <1>9, <1>10, <1>11, <1>12, <1>13, <1>14, <1>15, <1>16, <1>17, <1>18, <1>19, <1>20, <1>21, <1>22, <1>23, <1>24, <1>25, <1>26, <1>27

\* A click on a tile, by mode.
LEMMA ClickedMode ==
  ASSUME NEW u, Sound(u)
  PROVE  /\ \A m \in Modes : Plays(u, [u EXCEPT !.mode = m])
         /\ \A b \in Nat : Plays(u, [u EXCEPT !.brush = b])
<1>1. ASSUME NEW m \in Modes PROVE Plays(u, [u EXCEPT !.mode = m])
  <2>1. Aside(u, [u EXCEPT !.mode = m]) /\ Orderly([u EXCEPT !.mode = m])
    BY DEF Sound, CoreFields, Aside, Orderly
  <2> QED BY <2>1, AsidePlays
<1>2. ASSUME NEW b \in Nat PROVE Plays(u, [u EXCEPT !.brush = b])
  <2>1. Aside(u, [u EXCEPT !.brush = b]) /\ Orderly([u EXCEPT !.brush = b])
    BY DEF Sound, CoreFields, Aside, Orderly
  <2> QED BY <2>1, AsidePlays
<1> QED BY <1>1, <1>2

-----------------------------------------------------------------------------
(* Handlers: selection, turns and single events *)

LEMMA MapEventGame ==
  ASSUME NEW e, IsEvent(e)
  PROVE  IsGameEvent(MapEvent(e))
BY DEF MapEvent, IsGameEvent

LEMMA PlaysSelf ==
  ASSUME NEW u, Sound(u)
  PROVE  Plays(u, u)
BY DeedRefl DEF Plays

\* The turn list or the selection changed, the reach made new.
LEMMA TurnedPlays ==
  ASSUME NEW u, Sound(u), NEW v, DOMAIN v = DOMAIN u,
         v.map = u.map, v.undo = u.undo, v.redo = u.redo,
         v.viewer = u.viewer, v.channels = u.channels, v.visible = u.visible,
         v.net = u.net, v.held = u.held,
         v.mode = u.mode, v.brush = u.brush, v.asks = u.asks, v.outbox = u.outbox,
         SoundTurns(v.turns), ShrinkKeeps(u.turns, v.turns)
  PROVE  Sound(v) /\ Deed(u, v) /\ FogStep(u, v) /\ Plays(u, Reached(v))
<1>1. Sends(v) <=> Sends(u)
  BY DEF Sends
<1>2. Sound(v)
  BY <1>1 DEF Sound, Orderly, Spares
<1>3. Deed(u, v)
  BY DEF Deed, Unwound
<1>4. FogStep(u, v)
  BY DeedRefl, FogSame
<1> QED BY <1>2, <1>3, <1>4, ReachedPlays

\* Selecting a token computes its reach.
LEMMA SelectPlays ==
  ASSUME NEW u, Sound(u), NEW id
  PROVE  Plays(u, SelectToken(u, id))
<1> DEFINE v == [u EXCEPT !.token = id]
<1>1. /\ DOMAIN v = DOMAIN u
      /\ v.map = u.map /\ v.undo = u.undo /\ v.redo = u.redo
      /\ v.viewer = u.viewer /\ v.channels = u.channels /\ v.visible = u.visible
      /\ v.net = u.net /\ v.held = u.held /\ v.turns = u.turns
      /\ v.mode = u.mode /\ v.brush = u.brush /\ v.asks = u.asks /\ v.outbox = u.outbox
  BY DEF Sound, CoreFields
<1>2. SelectToken(u, id) = Reached(v)
  BY DEF SelectToken
<1> HIDE DEF v
<1>3. SoundTurns(v.turns) /\ ShrinkKeeps(u.turns, v.turns)
  BY <1>1 DEF Sound, ShrinkKeeps
<1> QED BY <1>1, <1>2, <1>3, TurnedPlays

\* A right press selects.
LEMMA OpenMenuPlays ==
  ASSUME NEW u, Sound(u), NEW id
  PROVE  Plays(u, OpenMenu(u, id))
<1> DEFINE v == SelectToken(u, id)
           w == [v EXCEPT !.menu = id]
<1>1. Plays(u, v)
  BY SelectPlays
<1> HIDE DEF v
<1>2. Sound(v)
  BY <1>1 DEF Plays
<1>3. Quiet(v, w)
  BY <1>2, QuietHandlers
<1>4. OpenMenu(u, id) = w
  BY DEF OpenMenu, v
<1> HIDE DEF w
<1> QED BY <1>1, <1>2, <1>3, <1>4, QuietOrderly, PlaysAside

\* Alone at the table a step of editing followed by the reach plays.
LEMMA SoloStep ==
  ASSUME NEW u, Sound(u), NEW e, IsEvent(e), e.kind = "TokenPlaced" => e.token.id \notin u.held
  PROVE  /\ Sends(u) => Plays(u, Send(u, MapEvent(e)))
         /\ ~Sends(u) /\ e.kind # "TokenMoved" => Plays(u, ApplyStep(u, <<e>>))
         /\ ~Sends(u) => Plays(u, Reached(ApplyStep(u, <<e>>)))
<1>1. Sends(u) => Plays(u, Send(u, MapEvent(e)))
  BY PlaysSelf, MapEventGame, SendPlays
<1> QED BY <1>1, OnePlays

\* The events the handlers send are board events.
LEMMA EventShapes ==
  /\ \A id, to : IsEvent(Move(id, to)) /\ Move(id, to).kind = "TokenMoved"
  /\ \A id, f : IsEvent(Face(id, f)) /\ Face(id, f).kind = "TokenFaced"
  /\ \A id : IsEvent(Leave(id)) /\ Leave(id).kind = "TokenRemoved"
  /\ \A t : IsToken(t) => IsEvent(Place(t)) /\ Place(t).kind = "TokenPlaced" /\ Place(t).token = t
  /\ \A at, h : h \in Nat => IsEvent([kind |-> "ElevationSet", at |-> at, height |-> h])
  /\ \A id \in Nat \ {0} : \A at, s : IsToken(Fresh(id, at, s)) /\ Fresh(id, at, s).id = id
<1>1. \A id, to : IsEvent(Move(id, to)) /\ Move(id, to).kind = "TokenMoved"
  BY DEF IsEvent, Move
<1>2. \A id, f : IsEvent(Face(id, f)) /\ Face(id, f).kind = "TokenFaced"
  BY DEF IsEvent, Face
<1>3. \A id : IsEvent(Leave(id)) /\ Leave(id).kind = "TokenRemoved"
  BY DEF IsEvent, Leave
<1>4. \A t : IsToken(t) => IsEvent(Place(t)) /\ Place(t).kind = "TokenPlaced" /\ Place(t).token = t
  BY DEF IsEvent, Place
<1>5. \A at, h : h \in Nat => IsEvent([kind |-> "ElevationSet", at |-> at, height |-> h])
  BY DEF IsEvent
<1>6. \A id \in Nat \ {0} : \A at, s : IsToken(Fresh(id, at, s)) /\ Fresh(id, at, s).id = id
  BY DEF IsToken, Fresh
<1> QED BY <1>1, <1>2, <1>3, <1>4, <1>5, <1>6

\* A drop plays.
LEMMA DragMovePlays ==
  ASSUME NEW u, Sound(u), NEW id, NEW to
  PROVE  Plays(u, DragMove(u, id, to))
<1> DEFINE e == Move(id, to)
<1>1. IsEvent(e) /\ e.kind # "TokenPlaced"
  BY EventShapes
<1>2. DragMove(u, id, to) \in
        {u} \cup (IF Sends(u) THEN {Send(u, MapEvent(e))} ELSE {Reached(ApplyStep(u, <<e>>))})
  BY DEF DragMove
<1> HIDE DEF e
<1> QED BY <1>1, <1>2, SoloStep, PlaysSelf

\* Turning the selected token plays.
LEMMA RotatePlays ==
  ASSUME NEW u, Sound(u)
  PROVE  Plays(u, RotateSelected(u))
<1> DEFINE e == Face(u.token, Clockwise[TokenOf(u.map, u.token).facing])
<1>1. IsEvent(e) /\ e.kind = "TokenFaced"
  BY EventShapes
<1>2. RotateSelected(u) \in
        {u} \cup (IF Sends(u) THEN {Send(u, MapEvent(e))} ELSE {ApplyStep(u, <<e>>)})
  BY DEF RotateSelected
<1> HIDE DEF e
<1> QED BY <1>1, <1>2, SoloStep, PlaysSelf

\* In or out of the turn order plays.
LEMMA ToggleTurnPlays ==
  ASSUME NEW u, Sound(u), NEW id, id # NoToken
  PROVE  Plays(u, ToggleTurn(u, id))
<1> DEFINE listed == id \in Range(u.turns.order)
           e == [kind |-> IF listed THEN "TurnRemove" ELSE "TurnAdd", id |-> id]
           t == IF listed THEN TurnRemove(u.turns, id) ELSE TurnAdd(u.turns, id)
           v == [u EXCEPT !.turns = t]
<1>1. ToggleTurn(u, id) = IF Sends(u) THEN Send(u, e) ELSE Reached(v)
  BY DEF ToggleTurn, Sound, CoreFields
<1>2. IsGameEvent(e)
  BY DEF IsGameEvent
<1>3. SoundTurns(t) /\ ShrinkKeeps(u.turns, t)
  BY TurnRemoveSound, TurnAddSound DEF Sound
<1> HIDE DEF t, listed
<1>4. /\ DOMAIN v = DOMAIN u
      /\ v.map = u.map /\ v.undo = u.undo /\ v.redo = u.redo
      /\ v.viewer = u.viewer /\ v.channels = u.channels /\ v.visible = u.visible
      /\ v.net = u.net /\ v.held = u.held /\ v.turns = t
      /\ v.mode = u.mode /\ v.brush = u.brush /\ v.asks = u.asks /\ v.outbox = u.outbox
  BY DEF Sound, CoreFields
<1> HIDE DEF v, e
<1>5. Plays(u, Reached(v))
  BY <1>3, <1>4, TurnedPlays
<1>6. Plays(u, Send(u, e))
  BY <1>2, PlaysSelf, SendPlays
<1> QED BY <1>1, <1>5, <1>6

-----------------------------------------------------------------------------
(* Handlers: a token taken off, a walk, the end of a turn *)

\* A step, and then the turn list changed.
LEMMA TurnedStep ==
  ASSUME NEW u, NEW v, Sound(v), Deed(u, v), NEW w, DOMAIN w = DOMAIN v,
         w.map = v.map, w.undo = v.undo, w.redo = v.redo, w.net = v.net, w.held = v.held,
         w.mode = v.mode, w.brush = v.brush, w.asks = v.asks, w.outbox = v.outbox,
         SoundTurns(w.turns), ShrinkKeeps(u.turns, w.turns)
  PROVE  Sound(w) /\ Deed(u, w)
<1>1. Sound(w)
  BY DEF Sound, Orderly, Spares, Sends
<1>2. Deed(u, w)
  BY DEF Deed, Unwound
<1> QED BY <1>1, <1>2

\* A click on a token plays.
LEMMA ClickTokenPlays ==
  ASSUME NEW u, Sound(u), NEW id
  PROVE  Plays(u, ClickToken(u, id))
<1> DEFINE e == Leave(id)
           v == ApplyStep(u, <<e>>)
           t == TurnRemove(v.turns, id)
           w == [v EXCEPT !.turns = t]
<1>1. ClickToken(u, id) \in {u, SelectToken(u, id)} \/ (~Sends(u) /\ ClickToken(u, id) = Reached([v EXCEPT !.turns = TurnRemove(@, id)]))
  BY DEF ClickToken
<1>2. CASE ClickToken(u, id) \in {u, SelectToken(u, id)}
  BY <1>2, PlaysSelf, SelectPlays
<1>3. CASE ~Sends(u) /\ ClickToken(u, id) = Reached([v EXCEPT !.turns = TurnRemove(@, id)])
  <2>1. IsEvent(e) /\ e.kind = "TokenRemoved"
    BY EventShapes
  <2>2. IsBatch(<<e>>) /\ PutDown(<<e>>) = {}
    BY <2>1, SingleBatch
  <2>3. Sound(v) /\ Deed(u, v) /\ Lit(v) /\ v.turns = u.turns
    BY <1>3, <2>2, ApplyFacts
  <2>4. SoundTurns(t) /\ ShrinkKeeps(u.turns, t)
    BY <2>3, TurnRemoveSound DEF Sound
  <2>5. ClickToken(u, id) = Reached(w)
    <3>1. [v EXCEPT !.turns = TurnRemove(@, id)] = w
      OBVIOUS
    <3> QED BY <3>1, <1>3
  <2> HIDE DEF v, t
  <2>6. /\ DOMAIN w = DOMAIN v
        /\ w.map = v.map /\ w.undo = v.undo /\ w.redo = v.redo /\ w.net = v.net /\ w.held = v.held
        /\ w.mode = v.mode /\ w.brush = v.brush /\ w.asks = v.asks /\ w.outbox = v.outbox
        /\ w.viewer = v.viewer /\ w.channels = v.channels /\ w.visible = v.visible /\ w.turns = t
    BY <2>3 DEF Sound, CoreFields
  <2> HIDE DEF w
  <2>7. Sound(w) /\ Deed(u, w)
    BY <2>3, <2>4, <2>6, TurnedStep
  <2>8. FogStep(u, w)
    BY <2>3, <2>6, FogSame DEF FogStep
  <2> QED BY <2>5, <2>7, <2>8, ReachedPlays
<1> QED BY <1>1, <1>2, <1>3

\* A step of one event the board takes is on the board.
LEMMA TakenOff ==
  ASSUME NEW u, Sound(u), NEW id \in Ids(u.map)
  PROVE  Ground(ApplyStep(u, <<Leave(id)>>).map) # Ground(u.map)
<1> DEFINE e == Leave(id)
           r == Run(u.map, <<e>>)
           a == [u EXCEPT !.map = r.map, !.undo = Append(@, Reverse(r.inverses)), !.redo = <<>>]
           n == AppliedTo(u.map, e)
<1>1. IsEvent(e) /\ e.kind = "TokenRemoved" /\ e.id = id
  BY EventShapes DEF Leave
<1>2. ~Rejects(u.map, e)
  BY <1>1 DEF Rejects
<1>3. r = After([map |-> u.map, inverses |-> <<>>], e)
  <2>0. Len(<<e>>) = 1
    OBVIOUS
  <2>1. PICK f : /\ f[0] = [map |-> u.map, inverses |-> <<>>]
                 /\ \A k \in 1..Len(<<e>>) : f[k] = After(f[k - 1], <<e>>[k])
                 /\ r = f[Len(<<e>>)]
    BY <2>0, RunUnfold
  <2> HIDE DEF r, e
  <2>2. f[1] = After(f[1 - 1], <<e>>[1])
    BY <2>0, <2>1
  <2> QED BY <2>0, <2>1, <2>2
<1>4. r.map = n /\ r.inverses = Append(<<>>, InverseOf(u.map, e))
  <2> DEFINE start == [map |-> u.map, inverses |-> <<>>]
  <2>1. start.map = u.map /\ start.inverses = <<>>
    OBVIOUS
  <2>2. r = After(start, e)
    BY <1>3
  <2> DEFINE back == Append(start.inverses, InverseOf(start.map, e))
             next == AppliedTo(start.map, e)
  <2>3. ~Rejects(start.map, e)
    BY <1>2
  <2>4. r = [map |-> next, inverses |-> back]
    BY <2>2, <2>3 DEF After
  <2>5. next = n /\ back = Append(<<>>, InverseOf(u.map, e))
    OBVIOUS
  <2> HIDE DEF next, back
  <2>6. r.map = next /\ r.inverses = back
    <3> HIDE DEF r
    <3> QED BY <2>4
  <2> QED BY <2>5, <2>6
<1>5. r.inverses # <<>>
  <2> DEFINE back == InverseOf(u.map, e)
             none == <<>>
             more == Append(none, back)
  <2>1. IsList(none) /\ Len(none) = 0
    BY EmptyList
  <2>2. r.inverses = more
    BY <1>4
  <2> HIDE DEF back, none, r
  <2>3. Len(more) = 1
    BY <2>1, ListAppend
  <2> HIDE DEF more
  <2>4. r.inverses # none
    BY <2>1, <2>2, <2>3
  <2> QED BY <2>4 DEF r, none
<1>6. IsDocument(n) /\ Laid(n) = Relaid(Laid(u.map), e)
  BY <1>1, <1>2, Applied DEF Sound
<1>7. id \notin Ids(n)
  <2>1. Range(n.tokens) = Retokened(Range(u.map.tokens), e)
    <3>1. Laid(n).tokens = Range(n.tokens) /\ Relaid(Laid(u.map), e).tokens = Retokened(Range(u.map.tokens), e)
      BY DEF Laid, Relaid
    <3> QED BY <1>6, <3>1
  <2>2. Range(n.tokens) = {t \in Range(u.map.tokens) : t.id # id}
    BY <1>1, <2>1 DEF Retokened
  <2> HIDE DEF n
  <2> QED BY <2>2 DEF Ids
<1>8. Ground(n) # Ground(u.map)
  <2> HIDE DEF n
  <2> QED BY <1>7 DEF Ground
<1>9. ApplyStep(u, <<e>>) = Fogged(a)
  BY <1>5 DEF ApplyStep
<1> HIDE DEF r
<1>10. CoreFields \subseteq DOMAIN a /\ a.map = r.map
  BY DEF Sound, CoreFields
<1> HIDE DEF a
<1>11. Fogged(a).map = r.map
  BY <1>10, FoggedFacts
<1> QED BY <1>4, <1>8, <1>9, <1>11

\* Removing a token plays: whoever is up stays up.
LEMMA RemoveTokenPlays ==
  ASSUME NEW u, Sound(u), NEW id \in Ids(u.map)
  PROVE  Plays(u, RemoveToken(u, id))
<1> DEFINE e == Leave(id)
           v == IF Sends(u) THEN Send(u, MapEvent(e)) ELSE ApplyStep(u, <<e>>)
           t == TurnRemove(v.turns, id)
           token == IF u.token = id THEN NoToken ELSE v.token
           reach == IF u.token = id THEN <<>> ELSE v.reach
           w == [v EXCEPT !.turns = t, !.menu = NoToken, !.token = token, !.reach = reach]
<1>1. IsEvent(e) /\ e.kind = "TokenRemoved"
  BY EventShapes
<1>2. IsBatch(<<e>>) /\ PutDown(<<e>>) = {}
  BY <1>1, SingleBatch
<1>3. /\ Sound(v) /\ Deed(u, v) /\ FogStep(u, v)
      /\ v.turns = u.turns /\ v.token = u.token /\ v.reach = u.reach /\ v.net = u.net
      /\ Sends(u) => v.map = u.map
      /\ ~Sends(u) => Ground(v.map) # Ground(u.map)
  <2>1. CASE Sends(u)
    <3>1. v = Send(u, MapEvent(e))
      BY <2>1
    <3>2. Plays(u, v) /\ Aside(u, v)
      BY <1>1, <3>1, PlaysSelf, MapEventGame, SendPlays
    <3> HIDE DEF v
    <3> QED BY <2>1, <3>2 DEF Plays, Aside
  <2>2. CASE ~Sends(u)
    <3>1. v = ApplyStep(u, <<e>>)
      BY <2>2
    <3>2. Ground(v.map) # Ground(u.map)
      BY <3>1, TakenOff
    <3>3. /\ Sound(v) /\ Deed(u, v) /\ Lit(v)
          /\ v.turns = u.turns /\ v.token = u.token /\ v.reach = u.reach /\ v.net = u.net
      BY <1>2, <2>2, <3>1, ApplyFacts
    <3> HIDE DEF v
    <3> QED BY <2>2, <3>2, <3>3 DEF FogStep
  <2> QED BY <2>1, <2>2
<1>4. RemoveToken(u, id) = w
  BY DEF RemoveToken
<1> HIDE DEF v
<1>5. SoundTurns(t) /\ ShrinkKeeps(u.turns, t)
  BY <1>3, TurnRemoveSound DEF Sound
<1> HIDE DEF t, token, reach
<1>6. /\ DOMAIN w = DOMAIN v
      /\ w.map = v.map /\ w.undo = v.undo /\ w.redo = v.redo /\ w.net = v.net /\ w.held = v.held
      /\ w.mode = v.mode /\ w.brush = v.brush /\ w.asks = v.asks /\ w.outbox = v.outbox
      /\ w.viewer = v.viewer /\ w.channels = v.channels /\ w.visible = v.visible
      /\ w.turns = t /\ w.token = token /\ w.reach = reach
  BY <1>3 DEF Sound, CoreFields
<1> HIDE DEF w
<1>7. Sound(w) /\ Deed(u, w)
  BY <1>3, <1>5, <1>6, TurnedStep
<1>8. FogStep(u, w)
  BY <1>3, <1>6, FogSame
<1>9. ReachStep(u, w)
  <2>1. CASE u.token = id
    <3>1. w.token = NoToken /\ w.reach = <<>>
      BY <1>6, <2>1 DEF token, reach
    <3>2. ReachOf(w, NoToken) = <<>>
      BY DEF ReachOf
    <3> QED BY <3>1, <3>2 DEF ReachStep
  <2>2. CASE u.token # id /\ Sends(u)
    <3>1. w.token = u.token /\ w.reach = u.reach /\ w.map = u.map /\ Sends(w)
      BY <1>3, <1>6, <2>2 DEF token, reach, Sends
    <3> QED BY <3>1 DEF ReachStep, ReachView
  <2>3. CASE ~Sends(u)
    BY <1>3, <1>6, <2>3 DEF ReachStep
  <2> QED BY <2>1, <2>2, <2>3
<1>10. Plays(u, w)
  BY <1>7, <1>8, <1>9 DEF Plays
<1> QED BY <1>4, <1>10

-----------------------------------------------------------------------------
(* Handlers: walks, turns, dice and time *)

\* What goes over the wire, by its members.
LEMMA EventsRange ==
  ASSUME NEW s
  PROVE  IsEvents(s) <=> IsList(s) /\ \A e \in Range(s) : IsGameEvent(e)
<1>1. Range(s) = {s[n] : n \in DOMAIN s}
  BY DEF Range
<1> QED BY <1>1 DEF IsEvents

\* What goes over the wire, two lists of it.
LEMMA EventsConcat ==
  ASSUME NEW s, IsEvents(s), NEW t, IsEvents(t)
  PROVE  IsEvents(s \o t)
<1>1. IsList(s \o t) /\ Range(s \o t) = Range(s) \cup Range(t)
  BY EventsRange, ListConcat
<1> QED BY <1>1, EventsRange

\* More in the outbox.
LEMMA OutboxPlays ==
  ASSUME NEW u, Sound(u), NEW s, IsEvents(s)
  PROVE  Plays(u, [u EXCEPT !.outbox = s])
<1> DEFINE w == [u EXCEPT !.outbox = s]
<1>1. Aside(u, w) /\ Orderly(w)
  BY DEF Sound, CoreFields, Aside, Orderly
<1> QED BY <1>1, AsidePlays

\* Two events are a batch.
LEMMA TwoBatch ==
  ASSUME NEW d, IsEvent(d), NEW e, IsEvent(e), d.kind # "TokenPlaced", e.kind # "TokenPlaced"
  PROVE  IsBatch(<<d, e>>) /\ PutDown(<<d, e>>) = {} /\ IsEvents(<<MapEvent(d), MapEvent(e)>>)
<1>1. /\ DOMAIN <<d, e>> = 1..2 /\ <<d, e>>[1] = d /\ <<d, e>>[2] = e
      /\ <<d, e>> = [i \in 1..2 |-> <<d, e>>[i]]
  OBVIOUS
<1>2. IsList(<<d, e>>)
  BY <1>1, IsListOf
<1>3. IsBatch(<<d, e>>)
  BY <1>1, <1>2 DEF IsBatch
<1>4. PutDown(<<d, e>>) = {}
  BY <1>1 DEF PutDown
<1> DEFINE a == MapEvent(d)
           b == MapEvent(e)
<1>5. IsGameEvent(a) /\ IsGameEvent(b)
  BY MapEventGame
<1> HIDE DEF a, b
<1>6. /\ DOMAIN <<a, b>> = 1..2 /\ <<a, b>>[1] = a /\ <<a, b>>[2] = b
      /\ <<a, b>> = [i \in 1..2 |-> <<a, b>>[i]]
  OBVIOUS
<1>7. IsList(<<a, b>>)
  BY <1>6, IsListOf
<1>8. IsEvents(<<a, b>>)
  BY <1>5, <1>6, <1>7 DEF IsEvents
<1> QED BY <1>3, <1>4, <1>8 DEF a, b

\* A walk plays.
LEMMA WalkPlays ==
  ASSUME NEW u, Sound(u), NEW at
  PROVE  Plays(u, Walk(u, at))
<1> DEFINE path == PathTo(u.reach, at)
           here == IF u.token \in Ids(u.map) THEN TokenOf(u.map, u.token).at ELSE at
           last == IF Len(path) >= 2 THEN path[Len(path) - 1] ELSE here
           d == Move(u.token, at)
           e == Face(u.token, FacingBetween(last, at))
           two == <<MapEvent(d), MapEvent(e)>>
           s == u.outbox \o two
<1>1. \/ Walk(u, at) = u
      \/ Sends(u) /\ Walk(u, at) = [u EXCEPT !.outbox = s]
      \/ ~Sends(u) /\ Walk(u, at) = Reached(ApplyStep(u, <<d, e>>))
  BY DEF Walk, Sound, CoreFields
<1>2. IsEvent(d) /\ IsEvent(e) /\ d.kind # "TokenPlaced" /\ e.kind # "TokenPlaced"
  BY EventShapes
<1> HIDE DEF d, e
<1>3. IsBatch(<<d, e>>) /\ PutDown(<<d, e>>) = {} /\ IsEvents(two)
  BY <1>2, TwoBatch
<1> HIDE DEF two
<1>4. IsEvents(s)
  BY <1>3, EventsConcat DEF Sound, Orderly
<1> HIDE DEF s
<1>5. Plays(u, [u EXCEPT !.outbox = s])
  BY <1>4, OutboxPlays
<1>6. ~Sends(u) => Plays(u, Reached(ApplyStep(u, <<d, e>>)))
  BY <1>3, ApplyReached
<1> QED BY <1>1, <1>5, <1>6, PlaysSelf

\* What is noted beside the board changed, but for sheets and rulings.
LEMMA NotedPlays ==
  ASSUME NEW u, Sound(u), NEW v, DOMAIN v = DOMAIN u, ~Sends(u),
         IsDocument(v.map), Board(v.map) = Board(u.map), Numbers(v.map) = Numbers(u.map),
         v.undo = u.undo, v.redo = u.redo,
         v.viewer = u.viewer, v.channels = u.channels, v.visible = u.visible,
         v.net = u.net, v.held = u.held,
         v.mode = u.mode, v.brush = u.brush, v.asks = u.asks, v.outbox = u.outbox,
         SoundTurns(v.turns), ShrinkKeeps(u.turns, v.turns)
  PROVE  Sound(v) /\ Deed(u, v) /\ FogStep(u, v) /\ Plays(u, Reached(v))
<1>1. ~Sends(v)
  BY DEF Sends
<1>2. Sound(v)
  BY <1>1 DEF Sound, Orderly, Spares
<1>3. Board(Unwound(v)) = Board(Unwound(u))
  BY PeelSame DEF Unwound, Sound
<1>4. Deed(u, v)
  BY <1>3 DEF Deed
<1>5. FogStep(u, v)
  BY DEF FogStep, FogView
<1> QED BY <1>2, <1>4, <1>5, ReachedPlays

\* Ending a turn plays.
LEMMA EndTurnPlays ==
  ASSUME NEW u, Sound(u)
  PROVE  Plays(u, EndTurn(u))
<1> DEFINE turns == AdvanceSkipping(u.turns, u.map.defeated)
           e == [kind |-> "TurnAdvance"]
           clock == IF u.place = NoOne THEN u.clock ELSE u.clock + (turns.round - u.turns.round)
           ended == [u EXCEPT !.turns = turns,
                              !.clock = IF u.place = NoOne THEN @ ELSE @ + (turns.round - u.turns.round)]
           id == Active(turns)
           left == Drop(u.map.counters, id)
           cleared == [u.map EXCEPT !.counters = left]
           v == [ended EXCEPT !.map = cleared]
           w == [v EXCEPT !.token = id]
<1>0. SoundTurns(turns) /\ turns.order = u.turns.order /\ (u.turns.order = <<>> => turns = u.turns)
  BY AdvanceSkippingSound DEF Sound
<1>1. EndTurn(u) = IF Sends(u) THEN Send(u, e)
                   ELSE IF id = NoToken THEN ended
                   ELSE SelectToken([ended EXCEPT !.map = ClearCounters(@, id)], id)
  BY DEF EndTurn
<1>2. CASE Sends(u)
  <2>1. IsGameEvent(e)
    BY DEF IsGameEvent
  <2>2. EndTurn(u) = Send(u, e)
    BY <1>1, <1>2
  <2> HIDE DEF e
  <2> QED BY <2>1, <2>2, PlaysSelf, SendPlays
<1>3. CASE ~Sends(u) /\ id = NoToken
  <2>1. turns = u.turns
    BY <1>0, <1>3, TurnFacts
  <2>2. EndTurn(u) = ended
    BY <1>1, <1>3
  <2> HIDE DEF turns
  <2>3. Aside(u, ended) /\ Orderly(ended)
    BY <2>1 DEF Sound, CoreFields, Aside, Orderly
  <2> QED BY <2>2, <2>3, AsidePlays
<1>4. CASE ~Sends(u) /\ id # NoToken
  <2> HIDE DEF turns
  <2>1. ended.map = u.map /\ DOMAIN ended = DOMAIN u
    BY DEF Sound, CoreFields
  <2>2. ClearCounters(u.map, id) = cleared
    BY DEF ClearCounters
  <2>3. EndTurn(u) = Reached(w)
    BY <1>1, <1>4, <2>1, <2>2 DEF SelectToken
  <2> HIDE DEF id, left
  <2>4. IsDocument(u.map) /\ DOMAIN u.map = Parts
    BY DEF Sound, IsDocument
  <2>5. /\ DOMAIN cleared = DOMAIN u.map
        /\ \A f \in Parts \ {"counters"} : cleared[f] = u.map[f]
    BY <2>4 DEF Parts
  <2> HIDE DEF cleared
  <2>6. /\ cleared.width = u.map.width /\ cleared.height = u.map.height /\ cleared.kinds = u.map.kinds
        /\ cleared.ground = u.map.ground /\ cleared.props = u.map.props /\ cleared.elevation = u.map.elevation
        /\ cleared.tokens = u.map.tokens /\ cleared.sheets = u.map.sheets /\ cleared.mobility = u.map.mobility
    BY <2>5 DEF Parts
  <2>7. IsDocument(cleared) /\ Board(cleared) = Board(u.map) /\ Numbers(cleared) = Numbers(u.map)
    <3>1. Cells(cleared) = Cells(u.map)
      BY <2>6 DEF Cells
    <3> QED BY <2>4, <2>5, <2>6, <3>1 DEF IsDocument, Board, Laid, Numbers
  <2>8. /\ DOMAIN ended = DOMAIN u
        /\ ended.undo = u.undo /\ ended.redo = u.redo
        /\ ended.viewer = u.viewer /\ ended.channels = u.channels /\ ended.visible = u.visible
        /\ ended.net = u.net /\ ended.held = u.held /\ ended.turns = turns
        /\ ended.mode = u.mode /\ ended.brush = u.brush /\ ended.asks = u.asks /\ ended.outbox = u.outbox
    BY DEF Sound, CoreFields
  <2> HIDE DEF ended
  <2>9. /\ DOMAIN w = DOMAIN u /\ w.map = cleared
        /\ w.undo = u.undo /\ w.redo = u.redo
        /\ w.viewer = u.viewer /\ w.channels = u.channels /\ w.visible = u.visible
        /\ w.net = u.net /\ w.held = u.held /\ w.turns = turns
        /\ w.mode = u.mode /\ w.brush = u.brush /\ w.asks = u.asks /\ w.outbox = u.outbox
    BY <2>8 DEF Sound, CoreFields
  <2> HIDE DEF w
  <2>10. ShrinkKeeps(u.turns, w.turns)
    BY <1>0, <2>9, TurnFacts DEF ShrinkKeeps, Sound
  <2> QED BY <1>0, <1>4, <2>3, <2>7, <2>9, <2>10, NotedPlays
<1> QED BY <1>2, <1>3, <1>4

\* Dice and time play.
LEMMA DicePlays ==
  ASSUME NEW u, Sound(u)
  PROVE  /\ \A label, total : Plays(u, RollDice(u, label, total))
         /\ \A ticks : Plays(u, PassTime(u, ticks))
         /\ \A id, beat : Plays(u, Emote(u, id, beat))
<1>1. ASSUME NEW label, NEW total PROVE Plays(u, RollDice(u, label, total))
  <2> DEFINE record == [by |-> IF u.viewer = NoOne THEN "dm" ELSE u.viewer, for |-> label, total |-> total]
             e == [kind |-> "Rolled", roll |-> record]
             log == PushRoll(u.rolls, record)
             v == [u EXCEPT !.rolls = PushRoll(@, record)]
  <2>1. RollDice(u, label, total) = IF Sends(u) THEN Send(u, e) ELSE v
    BY DEF RollDice
  <2>2. IsGameEvent(e)
    BY DEF IsGameEvent
  <2>3. Aside(u, v) /\ Orderly(v)
    BY DEF Sound, CoreFields, Aside, Orderly
  <2> HIDE DEF e, v
  <2> QED BY <2>1, <2>2, <2>3, PlaysSelf, SendPlays, AsidePlays
<1>2. ASSUME NEW ticks PROVE Plays(u, PassTime(u, ticks))
  <2> DEFINE e == [kind |-> "TimeAdvanced", ticks |-> ticks]
             v == [u EXCEPT !.clock = @ + ticks]
  <2>1. PassTime(u, ticks) \in {u, v} \/ PassTime(u, ticks) = Send(u, e)
    BY DEF PassTime
  <2>2. IsGameEvent(e)
    BY DEF IsGameEvent
  <2>3. Aside(u, v) /\ Orderly(v)
    BY DEF Sound, CoreFields, Aside, Orderly
  <2> HIDE DEF e, v
  <2> QED BY <2>1, <2>2, <2>3, PlaysSelf, SendPlays, AsidePlays
<1>3. ASSUME NEW id, NEW beat PROVE Plays(u, Emote(u, id, beat))
  <2> DEFINE shut == [u EXCEPT !.menu = NoToken]
             e == [kind |-> "Emoted", id |-> id, beat |-> beat]
             v == StageBeats(shut, u.seq + 1, id :> beat)
  <2>1. Emote(u, id, beat) \in {u, Send(shut, e), v}
    BY DEF Emote
  <2>2. IsGameEvent(e)
    BY DEF IsGameEvent
  <2>3. Quiet(u, shut)
    BY QuietHandlers
  <2> HIDE DEF shut, e
  <2>4. Sound(shut) /\ Plays(u, shut)
    BY <2>3, QuietOrderly
  <2>5. Quiet(shut, v)
    BY <2>4, QuietHandlers
  <2>6. Plays(u, v)
    BY <2>4, <2>5, QuietOrderly, PlaysAside
  <2>7. Plays(u, Send(shut, e))
    BY <2>2, <2>4, SendPlays
  <2> HIDE DEF v
  <2> QED BY <2>1, <2>4, <2>6, <2>7, PlaysSelf
<1> QED BY <1>1, <1>2, <1>3

-----------------------------------------------------------------------------
(* Handlers: initiative, clicks on the board, creatures, sheets *)

\* Rolling initiative plays.
LEMMA InitiativePlays ==
  ASSUME NEW u, Sound(u), NEW faces \in [Rollers(u) -> DieFaces]
  PROVE  Plays(u, RollInitiative(u, faces))
<1> DEFINE by(n)  == IF u.init = "individual" THEN Combatants(u)[n] ELSE SideOf(u, Combatants(u)[n])
           rolled == InOrder(Rollers(u))
           log    == [n \in DOMAIN rolled |-> [by |-> by(rolled[n]), for |-> "init", total |-> faces[rolled[n]]]]
           order  == ByRoll(u, faces)
           told   == [n \in DOMAIN log |-> [kind |-> "Rolled", roll |-> log[n]]]
           last   == <<[kind |-> "TurnSetOrder", order |-> order]>>
           out    == u.outbox \o told \o last
           turns  == SetOrder(order)
           v      == [u EXCEPT !.rolls = Capped(@ \o log, RollCap), !.turns = turns]
<1>1. RollInitiative(u, faces) \in {u} \cup (IF Sends(u) THEN {[u EXCEPT !.outbox = out]} ELSE {Reached(v)})
  BY DEF RollInitiative, Sound, CoreFields
<1>2. IsOrder(order) /\ Len(order) = Len(Combatants(u))
  BY ByRollOrder
<1>3. DOMAIN rolled = 1..Cardinality(Rollers(u)) /\ Cardinality(Rollers(u)) \in Nat
  BY RollersFinite DEF InOrder
<1> HIDE DEF rolled, order
<1>4. DOMAIN log = 1..Cardinality(Rollers(u))
  BY <1>3
<1> HIDE DEF log
<1>5. IsEvents(told)
  <2>1. DOMAIN told = 1..Cardinality(Rollers(u)) /\ told = [n \in 1..Cardinality(Rollers(u)) |-> told[n]]
    BY <1>4
  <2>2. \A n \in DOMAIN told : told[n].kind = "Rolled"
    OBVIOUS
  <2> HIDE DEF told
  <2>3. IsList(told)
    BY <1>3, <2>1, IsListOf
  <2> QED BY <2>2, <2>3 DEF IsEvents, IsGameEvent
<1>6. IsEvents(last)
  <2> DEFINE e == [kind |-> "TurnSetOrder", order |-> order]
  <2>1. IsGameEvent(e)
    BY <1>2 DEF IsGameEvent
  <2>2. last = <<e>>
    OBVIOUS
  <2> HIDE DEF e, last
  <2>3. DOMAIN last = 1..1 /\ last[1] = e /\ last = [i \in 1..1 |-> last[i]]
    BY <2>2
  <2>4. IsList(last)
    BY <2>3, IsListOf
  <2> QED BY <2>1, <2>3, <2>4 DEF IsEvents
<1> HIDE DEF told, last
<1>7. IsEvents(out)
  BY <1>5, <1>6, EventsConcat DEF Sound, Orderly
<1> HIDE DEF out
<1>8. Plays(u, [u EXCEPT !.outbox = out])
  BY <1>7, OutboxPlays
<1>9. SoundTurns(turns)
  BY <1>2, SetOrderSound
<1>10. ShrinkKeeps(u.turns, turns)
  <2>1. turns.order = order
    BY DEF SetOrder
  <2>2. ~(Len(order) < Len(u.turns.order))
    <3>1. CASE u.turns.order = <<>>
      BY <1>2, <3>1, CombatantsOrder, TurnFacts DEF Sound
    <3>2. CASE u.turns.order # <<>>
      <4>1. Combatants(u) = u.turns.order
        BY <3>2 DEF Combatants
      <4> QED BY <4>1, <1>2, CombatantsOrder
    <3> QED BY <3>1, <3>2
  <2> HIDE DEF turns
  <2> QED BY <2>1, <2>2 DEF ShrinkKeeps
<1> HIDE DEF turns
<1>11. /\ DOMAIN v = DOMAIN u
      /\ v.map = u.map /\ v.undo = u.undo /\ v.redo = u.redo
      /\ v.viewer = u.viewer /\ v.channels = u.channels /\ v.visible = u.visible
      /\ v.net = u.net /\ v.held = u.held /\ v.turns = turns
      /\ v.mode = u.mode /\ v.brush = u.brush /\ v.asks = u.asks /\ v.outbox = u.outbox
  BY DEF Sound, CoreFields
<1> HIDE DEF v
<1>12. Plays(u, Reached(v))
  BY <1>9, <1>10, <1>11, TurnedPlays
<1> QED BY <1>1, <1>8, <1>12, PlaysSelf

\* A click on a tile plays.
LEMMA ClickTilePlays ==
  ASSUME NEW u, Sound(u), NEW at \in Cells(u.map)
  PROVE  Plays(u, ClickTile(u, at))
<1>0. u.mode \in Modes /\ u.brush \in Nat /\ IsDocument(u.map)
  BY DEF Sound, Orderly
<1>1. CASE Sends(u) /\ u.mode \notin {"Play", "Select", "Measure"}
  <2>1. ClickTile(u, at) = u
    BY <1>1 DEF ClickTile
  <2> QED BY <2>1, PlaysSelf
<1>2. CASE u.mode = "Select"
  <2>1. ClickTile(u, at) = [u EXCEPT !.tile = at]
    BY <1>2 DEF ClickTile
  <2> QED BY <2>1, QuietHandlers, QuietOrderly
<1>3. CASE u.mode = "Measure"
  <2>1. ClickTile(u, at) = [u EXCEPT !.anchor = at]
    BY <1>3 DEF ClickTile
  <2> QED BY <2>1, QuietHandlers, QuietOrderly
<1>4. CASE u.mode = "Play"
  <2>1. ClickTile(u, at) \in {SelectToken(u, TokenAt(u, at)), Walk(u, at)}
    BY <1>4 DEF ClickTile
  <2> QED BY <2>1, SelectPlays, WalkPlays
<1>5. CASE ~Sends(u) /\ u.mode = "Token"
  <2> DEFINE t == Fresh(NextTokenId(u), at, u.sprite)
             e == Place(t)
  <2>1. ClickTile(u, at) \in {ClickToken(u, TokenAt(u, at)), ApplyStep(u, <<e>>)}
    BY <1>5 DEF ClickTile
  <2>2. IsToken(t) /\ t.id = NextTokenId(u) /\ t.id \notin u.held
    BY EventShapes, FreshId
  <2>3. IsEvent(e) /\ e.kind = "TokenPlaced" /\ e.token = t
    BY <2>2, EventShapes
  <2> HIDE DEF e, t
  <2> QED BY <1>5, <2>1, <2>2, <2>3, ClickTokenPlays, SoloStep
<1>6. CASE ~Sends(u) /\ u.mode \in {"PaintGround", "PaintProp"}
  <2> DEFINE e == Paint(IF u.mode = "PaintGround" THEN "ground" ELSE "prop", at, u.brush)
  <2>1. ClickTile(u, at) = ApplyStep(u, <<e>>)
    BY <1>6 DEF ClickTile
  <2>2. IsEvent(e) /\ e.kind = "TilePlaced"
    BY <1>0, PaintEvent
  <2> HIDE DEF e
  <2> QED BY <1>6, <2>1, <2>2, SoloStep
<1>7. CASE ~Sends(u) /\ u.mode = "Fill"
  <2> DEFINE s == SetToSeq({Paint("ground", c, u.brush) : c \in FloodRegion(u.map, u.map.ground, at)})
  <2>1. ClickTile(u, at) = ApplyStep(u, s)
    BY <1>7 DEF ClickTile
  <2>2. IsBatch(s) /\ \A k \in DOMAIN s : s[k].kind = "TilePlaced"
    BY <1>0, FillBatch
  <2> HIDE DEF s
  <2>3. Plain(u.map, Run(u.map, s).map) /\ PutDown(s) = {}
    BY <1>0, <2>2, PaintsPlain
  <2> QED BY <1>7, <2>1, <2>2, <2>3, ApplyPlays
<1>8. CASE ~Sends(u) /\ u.mode \in {"Raise", "Lower"}
  <2> DEFINE h == u.map.elevation[at]
             new == IF u.mode = "Raise" THEN Min({h + 1, MaxHeight}) ELSE Max({h - 1, 0})
             e == [kind |-> "ElevationSet", at |-> at, height |-> new]
  <2>1. ClickTile(u, at) \in {u, ApplyStep(u, <<e>>)}
    BY <1>8 DEF ClickTile
  <2>2. h \in Nat
    BY <1>0 DEF IsDocument
  <2>3. Min({h + 1, 12}) \in Nat /\ Max({h - 1, 0}) \in Nat
    <3> DEFINE up == h + 1
               down == h - 1
    <3>1. up \in Int /\ down \in Int /\ up \in Nat
      BY <2>2
    <3> HIDE DEF up, down
    <3>2. Min({up, 12}) \in {up, 12}
      BY <3>1, MinOfTwo, SMTT(60)
    <3>3. Max({down, 0}) \in {down, 0} /\ Max({down, 0}) >= 0
      BY <3>1, MaxOfTwo
    <3>4. Min({up, 12}) \in Nat /\ Max({down, 0}) \in Nat
      BY <3>1, <3>2, <3>3
    <3> QED BY <3>4 DEF up, down
  <2>4. new \in Nat
    BY <2>3 DEF MaxHeight
  <2> HIDE DEF new
  <2>5. IsEvent(e) /\ e.kind = "ElevationSet"
    BY <2>4, EventShapes
  <2> HIDE DEF e
  <2> QED BY <1>8, <2>1, <2>5, SoloStep, PlaysSelf
<1> QED BY <1>0, <1>1, <1>2, <1>3, <1>4, <1>5, <1>6, <1>7, <1>8 DEF Modes

\* The stat block of a creature of the book.
LEMMA BookSheet ==
  ASSUME NEW key, EntryOf(key) # 0
  PROVE  IsSheet(StatBlock(key))
<1> DEFINE I == {i \in 1..Len(Book.monsters) : Book.monsters[i].key = key}
<1>1. EntryOf(key) = IF I # {} THEN Min(I) ELSE 0
  BY DEF EntryOf, SelectInSeq
<1>2. I # {} /\ I \subseteq Nat /\ EntryOf(key) = Min(I)
  BY <1>1
<1>3. PICK n \in I : \A x \in I : n <= x
  BY <1>2, LeastOf
<1>4. Min(I) \in I
  BY <1>3 DEF Min
<1>5. DOMAIN Book.monsters = 1..Len(Book.monsters)
  BY BookAssumption, ListFacts
<1>6. EntryOf(key) \in DOMAIN Book.monsters
  BY <1>2, <1>4, <1>5
<1> QED BY <1>6, BookAssumption DEF StatBlock, Monster

\* A creature from the book plays, under an id nobody holds things under.
LEMMA SpawnPlays ==
  ASSUME NEW u, Sound(u), NEW key
  PROVE  Plays(u, SpawnMonster(u, key))
<1>1. CASE EntryOf(key) = 0
  <2>1. SpawnMonster(u, key) = u
    BY <1>1 DEF SpawnMonster
  <2> QED BY <2>1, PlaysSelf
<1>2. CASE EntryOf(key) # 0
  <2> DEFINE id == NextTokenId(u)
             t == Fresh(id, FreeSpawnTile(u), Monster(key).sprite)
             e == Place(t)
             put == IF Sends(u) THEN Send(u, MapEvent(e)) ELSE ApplyStep(u, <<e>>)
             ask == [put.asks EXCEPT !.spawn = <<id, key>>]
             w == [put EXCEPT !.asks.spawn = <<id, key>>, !.search.open = FALSE, !.page = ""]
  <2>1. SpawnMonster(u, key) = w
    BY <1>2 DEF SpawnMonster
  <2>2. IsToken(t) /\ t.id = id /\ id \notin u.held
    BY EventShapes, FreshId
  <2>3. IsEvent(e) /\ e.kind = "TokenPlaced" /\ e.token = t
    BY <2>2, EventShapes
  <2> HIDE DEF e, t, id
  <2>4. Plays(u, put)
    BY <2>2, <2>3, SoloStep
  <2> HIDE DEF put
  <2>5. Sound(put)
    BY <2>4 DEF Plays
  <2>6. /\ Aside(put, w) /\ w.mode = put.mode /\ w.brush = put.brush /\ w.outbox = put.outbox
        /\ w.asks = ask
    BY <2>5 DEF Aside, Sound, CoreFields
  <2>7. SoundAsks(put.asks)
    BY <2>5 DEF Sound, Orderly
  <2>8. SoundAsks(ask)
    <3>1. DOMAIN ask = DOMAIN put.asks /\ ask.edit = put.asks.edit /\ ask.spawn = <<id, key>>
      BY <2>7 DEF SoundAsks
    <3> HIDE DEF ask
    <3> QED BY <1>2, <2>7, <3>1, BookSheet DEF SoundAsks
  <2>9. Orderly(w)
    BY <2>5, <2>6, <2>8 DEF Sound, Orderly
  <2> QED BY <2>1, <2>4, <2>6, <2>9, PlaysAside
<1> QED BY <1>1, <1>2

\* A command line plays.
LEMMA CommandPlays ==
  ASSUME NEW u, Sound(u), NEW total
  PROVE  Plays(u, CommandSubmit(u, total))
<1> DEFINE shut == CommandCancel(u)
           cmd == Parse(u.command.draft)
<1>1. Quiet(u, shut) /\ Sound(shut) /\ Plays(u, shut) /\ Aside(u, shut)
  BY QuietHandlers, QuietOrderly
<1>2. \/ CommandSubmit(u, total) \in {shut, SpawnQuery(shut, cmd.rest), FindQuery(shut, cmd.rest),
                                      RollDice(shut, cmd.rest, total), PassTime(shut, Ticks[cmd.rest])}
  <2> HIDE DEF shut, cmd
  <2>1. CASE u.command.draft = <<>>
    BY <2>1 DEF CommandSubmit, shut, cmd
  <2>2. CASE u.command.draft # <<>> /\ cmd.verb = "spawn"
    BY <2>2 DEF CommandSubmit, shut, cmd
  <2>3. CASE u.command.draft # <<>> /\ cmd.verb = "find"
    BY <2>3 DEF CommandSubmit, shut, cmd
  <2>4. CASE u.command.draft # <<>> /\ cmd.verb = "roll"
    BY <2>4 DEF CommandSubmit, shut, cmd
  <2>5. CASE u.command.draft # <<>> /\ cmd.verb = "time"
    BY <2>5 DEF CommandSubmit, shut, cmd
  <2>6. CASE u.command.draft # <<>> /\ cmd.verb \notin {"spawn", "find", "roll", "time"}
    BY <2>6 DEF CommandSubmit, shut, cmd
  <2> QED BY <2>1, <2>2, <2>3, <2>4, <2>5, <2>6
<1> HIDE DEF shut, cmd
<1>3. Plays(shut, FindQuery(shut, cmd.rest))
  BY <1>1, QuietHandlers, QuietOrderly
<1>4. Plays(shut, RollDice(shut, cmd.rest, total)) /\ Plays(shut, PassTime(shut, Ticks[cmd.rest]))
  BY <1>1, DicePlays
<1>5. Plays(shut, SpawnQuery(shut, cmd.rest))
  BY <1>1, SpawnPlays, PlaysSelf DEF SpawnQuery
<1> QED BY <1>1, <1>2, <1>3, <1>4, <1>5, AsideThen

\* Opening a sheet and its steppers play.
LEMMA SheetPlays ==
  ASSUME NEW u, Sound(u)
  PROVE  /\ Plays(u, OpenSheet(u))
         /\ \A key, by : by \in Int => Plays(u, RequestEdit(u, key, by))
         /\ \A id, name : Plays(u, [u EXCEPT !.asks.clear = <<id, name>>])
<1>0. SoundAsks(u.asks)
  BY DEF Sound, Orderly
<1>1. Plays(u, OpenSheet(u))
  <2> DEFINE id == IF u.token # NoToken THEN u.token ELSE Active(u.turns)
             w == [u EXCEPT !.sheet = id, !.asks.bind = id]
             ask == [u.asks EXCEPT !.bind = id]
  <2>1. OpenSheet(u) \in {u, [u EXCEPT !.sheet = id], w}
    BY DEF OpenSheet
  <2> HIDE DEF id
  <2>2. /\ Aside(u, w) /\ w.mode = u.mode /\ w.brush = u.brush /\ w.outbox = u.outbox
        /\ w.asks = ask
    BY DEF Aside, Sound, CoreFields
  <2>3. SoundAsks(ask)
    BY <1>0 DEF SoundAsks
  <2>4. Orderly(w)
    BY <2>2, <2>3 DEF Sound, Orderly
  <2>5. Plays(u, w)
    BY <2>2, <2>4, AsidePlays
  <2>6. Plays(u, [u EXCEPT !.sheet = id])
    BY QuietHandlers, QuietOrderly
  <2> HIDE DEF w
  <2> QED BY <2>1, <2>5, <2>6, PlaysSelf
<1>2. ASSUME NEW key, NEW by, by \in Int PROVE Plays(u, RequestEdit(u, key, by))
  <2> DEFINE w == [u EXCEPT !.asks.edit = <<u.sheet, key, by>>]
             ask == [u.asks EXCEPT !.edit = <<u.sheet, key, by>>]
  <2>1. RequestEdit(u, key, by) \in {u, w}
    BY DEF RequestEdit
  <2>2. /\ Aside(u, w) /\ w.mode = u.mode /\ w.brush = u.brush /\ w.outbox = u.outbox
        /\ w.asks = ask
    BY DEF Aside, Sound, CoreFields
  <2>3. SoundAsks(ask)
    BY <1>0, <1>2 DEF SoundAsks
  <2>4. Orderly(w)
    BY <2>2, <2>3 DEF Sound, Orderly
  <2>5. Plays(u, w)
    BY <2>2, <2>4, AsidePlays
  <2> HIDE DEF w
  <2> QED BY <2>1, <2>5, PlaysSelf
<1>3. ASSUME NEW id, NEW name PROVE Plays(u, [u EXCEPT !.asks.clear = <<id, name>>])
  <2> DEFINE w == [u EXCEPT !.asks.clear = <<id, name>>]
             ask == [u.asks EXCEPT !.clear = <<id, name>>]
  <2>2. /\ Aside(u, w) /\ w.mode = u.mode /\ w.brush = u.brush /\ w.outbox = u.outbox
        /\ w.asks = ask
    BY DEF Aside, Sound, CoreFields
  <2>3. SoundAsks(ask)
    BY <1>0 DEF SoundAsks
  <2>4. Orderly(w)
    BY <2>2, <2>3 DEF Sound, Orderly
  <2>5. Plays(u, w)
    BY <2>2, <2>4, AsidePlays
  <2> QED BY <2>5
<1> QED BY <1>1, <1>2, <1>3

-----------------------------------------------------------------------------
(* Handlers: the viewer, the menu *)

\* Another viewer plays.
LEMMA CycleViewerPlays ==
  ASSUME NEW u, Sound(u)
  PROVE  Plays(u, CycleViewer(u))
<1>1. \E x : CycleViewer(u) = Fogged([u EXCEPT !.viewer = x, !.explored = {}])
  BY DEF CycleViewer
<1>2. PICK x : CycleViewer(u) = Fogged([u EXCEPT !.viewer = x, !.explored = {}])
  BY <1>1
<1> DEFINE v == [u EXCEPT !.viewer = x, !.explored = {}]
<1>3. /\ DOMAIN v = DOMAIN u
      /\ v.map = u.map /\ v.undo = u.undo /\ v.redo = u.redo /\ v.turns = u.turns
      /\ v.net = u.net /\ v.held = u.held /\ v.token = u.token /\ v.reach = u.reach
      /\ v.mode = u.mode /\ v.brush = u.brush /\ v.asks = u.asks /\ v.outbox = u.outbox
  BY DEF Sound, CoreFields
<1> HIDE DEF v
<1>4. Sound(v)
  BY <1>3, SoundSame
<1>5. Deed(u, v) /\ ReachStep(u, v)
  BY <1>3, DeedRefl, DeedSame, ReachStepSame
<1>6. Plays(u, Fogged(v))
  BY <1>4, <1>5, FoggedPlays
<1> QED BY <1>2, <1>6 DEF v

\* A row of the menu plays.
LEMMA ChosenPlays ==
  ASSUME NEW u, Sound(u), MenuDrawn(u), NEW row
  PROVE  Plays(u, Chosen(u, row))
<1>1. CASE row.act = "sheet"
  BY <1>1, SheetPlays DEF Chosen
<1>2. CASE row.act = "endTurn"
  BY <1>2, EndTurnPlays DEF Chosen
<1>3. CASE row.act = "emote"
  BY <1>3, DicePlays DEF Chosen
<1>4. CASE row.act = "clear"
  BY <1>4, SheetPlays DEF Chosen
<1>5. CASE row.act = "remove"
  BY <1>5, RemoveTokenPlays DEF Chosen, MenuDrawn
<1>6. CASE row.act \notin {"sheet", "endTurn", "emote", "clear", "remove"}
  BY <1>6, PlaysSelf DEF Chosen
<1> QED BY <1>1, <1>2, <1>3, <1>4, <1>5, <1>6

-----------------------------------------------------------------------------
(* The pump *)

\* What is noted beside the board changed.
LEMMA Noted ==
  ASSUME NEW m, IsDocument(m), NEW n, DOMAIN n = DOMAIN m,
         n.width = m.width, n.height = m.height, n.kinds = m.kinds,
         n.ground = m.ground, n.props = m.props, n.elevation = m.elevation, n.tokens = m.tokens,
         \A id \in DOMAIN n.sheets : IsSheet(n.sheets[id]),
         \A id \in DOMAIN n.mobility : n.mobility[id][1] \in Nat
  PROVE  IsDocument(n) /\ Board(n) = Board(m)
<1>1. Cells(n) = Cells(m)
  BY DEF Cells
<1> QED BY <1>1 DEF IsDocument, Board, Laid

\* Other sheets, the same board.
LEMMA SheetsChanged ==
  ASSUME NEW m, IsDocument(m), NEW s, \A id \in DOMAIN s : IsSheet(s[id])
  PROVE  IsDocument([m EXCEPT !.sheets = s]) /\ Board([m EXCEPT !.sheets = s]) = Board(m)
<1> DEFINE n == [m EXCEPT !.sheets = s]
<1>1. DOMAIN m = Parts /\ \A id \in DOMAIN m.mobility : m.mobility[id][1] \in Nat
  BY DEF IsDocument
<1>2. /\ DOMAIN n = DOMAIN m /\ n.sheets = s /\ n.mobility = m.mobility
      /\ n.width = m.width /\ n.height = m.height /\ n.kinds = m.kinds
      /\ n.ground = m.ground /\ n.props = m.props /\ n.elevation = m.elevation /\ n.tokens = m.tokens
  BY <1>1 DEF Parts
<1> HIDE DEF n
<1>3. IsDocument(n) /\ Board(n) = Board(m)
  BY <1>1, <1>2, Noted
<1> QED BY <1>3 DEF n

\* A condition cleared, the same board.
LEMMA ConditionGone ==
  ASSUME NEW m, IsDocument(m), NEW id, NEW name
  PROVE  LET n == SetMobility(SetCondition(m, id, name, 0), id, <<>>)
         IN  IsDocument(n) /\ Board(n) = Board(m)
<1> DEFINE k == SetCondition(m, id, name, 0)
           n == SetMobility(k, id, <<>>)
<1>1. DOMAIN m = Parts
      /\ (\A i \in DOMAIN m.sheets : IsSheet(m.sheets[i]))
      /\ \A i \in DOMAIN m.mobility : m.mobility[i][1] \in Nat
  BY DEF IsDocument
<1>2. /\ DOMAIN k = DOMAIN m /\ k.sheets = m.sheets /\ k.mobility = m.mobility
      /\ k.width = m.width /\ k.height = m.height /\ k.kinds = m.kinds
      /\ k.ground = m.ground /\ k.props = m.props /\ k.elevation = m.elevation /\ k.tokens = m.tokens
  <2>1. \E c : k = [m EXCEPT !.conditions = c]
    BY DEF SetCondition
  <2> HIDE DEF k
  <2> QED BY <1>1, <2>1 DEF Parts
<1> HIDE DEF k
<1>3. /\ DOMAIN n = DOMAIN k /\ n.sheets = k.sheets /\ n.mobility = Drop(k.mobility, id)
      /\ n.width = k.width /\ n.height = k.height /\ n.kinds = k.kinds
      /\ n.ground = k.ground /\ n.props = k.props /\ n.elevation = k.elevation /\ n.tokens = k.tokens
  <2>1. n = [k EXCEPT !.mobility = Drop(@, id)]
    BY DEF SetMobility
  <2> HIDE DEF n
  <2> QED BY <1>1, <1>2, <2>1 DEF Parts
<1> HIDE DEF n
<1>4. \A i \in DOMAIN n.mobility : n.mobility[i][1] \in Nat
  BY <1>1, <1>2, <1>3 DEF Drop
<1>5. IsDocument(n) /\ Board(n) = Board(m)
  BY <1>1, <1>2, <1>3, <1>4, Noted
<1> QED BY <1>5 DEF n, k

\* The pumps change sheets, and tell of it.
Sheeted(v, w) ==
  /\ DOMAIN w = DOMAIN v
  /\ IsDocument(w.map) /\ Board(w.map) = Board(v.map)
  /\ w.undo = v.undo /\ w.redo = v.redo /\ w.turns = v.turns
  /\ w.viewer = v.viewer /\ w.channels = v.channels
  /\ w.net = v.net /\ w.held = v.held
  /\ w.mode = v.mode /\ w.brush = v.brush /\ w.asks = v.asks
  /\ IsEvents(w.outbox)

Tended(v, w) ==
  /\ Sheeted(v, w)
  /\ \/ w.visible = v.visible /\ w.token = v.token /\ w.reach = v.reach
     \/ Lit(w) /\ w.reach = ReachOf(w, w.token)

\* A sheet told to the session.
LEMMA ToldSheet ==
  ASSUME NEW v, CoreFields \subseteq DOMAIN v, NEW w, Sheeted(v, w),
         w.visible = v.visible, w.token = v.token, w.reach = v.reach,
         NEW s, \A i \in DOMAIN s : IsSheet(s[i]), NEW e, IsGameEvent(e)
  PROVE  LET x == Told([w EXCEPT !.map = [@ EXCEPT !.sheets = s]], e)
         IN  Sheeted(v, x) /\ x.visible = v.visible /\ x.token = v.token /\ x.reach = v.reach
<1> DEFINE n == [w.map EXCEPT !.sheets = s]
           y == [w EXCEPT !.map = n]
           out == Append(w.outbox, e)
           x == Told([w EXCEPT !.map = [@ EXCEPT !.sheets = s]], e)
<1>1. IsDocument(n) /\ Board(n) = Board(w.map)
  BY SheetsChanged DEF Sheeted
<1>2. x \in {y, [y EXCEPT !.outbox = Append(@, e)]}
  BY DEF Told, Send
<1>3. IsEvents(out)
  <2>1. IsList(w.outbox) /\ \A k \in Range(w.outbox) : IsGameEvent(k)
    BY EventsRange DEF Sheeted
  <2>2. IsList(out) /\ Range(out) = Range(w.outbox) \cup {e}
    BY <2>1, ListAppend
  <2> HIDE DEF out
  <2> QED BY <2>1, <2>2, EventsRange
<1> HIDE DEF n
<1>4. DOMAIN y = DOMAIN w /\ y.map = n /\ \A f \in CoreFields \ {"map"} : y[f] = w[f]
  BY DEF Sheeted, CoreFields
<1> HIDE DEF y
<1>5. [y EXCEPT !.outbox = Append(@, e)] = [y EXCEPT !.outbox = out]
  BY <1>4 DEF CoreFields
<1> HIDE DEF out
<1>6. /\ DOMAIN x = DOMAIN w /\ x.map = n /\ x.outbox \in {w.outbox, out}
      /\ \A f \in CoreFields \ {"map", "outbox"} : x[f] = w[f]
  <2> HIDE DEF x
  <2> QED BY <1>2, <1>4, <1>5 DEF Sheeted, CoreFields
<1> HIDE DEF x
<1>7. /\ x.undo = w.undo /\ x.redo = w.redo /\ x.turns = w.turns
      /\ x.viewer = w.viewer /\ x.channels = w.channels
      /\ x.net = w.net /\ x.held = w.held
      /\ x.mode = w.mode /\ x.brush = w.brush /\ x.asks = w.asks
      /\ x.visible = w.visible /\ x.token = w.token /\ x.reach = w.reach
  BY <1>6 DEF CoreFields
<1>8. Sheeted(v, x) /\ x.visible = v.visible /\ x.token = v.token /\ x.reach = v.reach
  BY <1>1, <1>3, <1>6, <1>7 DEF Sheeted
<1> QED BY <1>8 DEF x

\* The sheet a token is bound to.
LEMMA BoundTended ==
  ASSUME NEW v, CoreFields \subseteq DOMAIN v, NEW w, Sheeted(v, w),
         w.visible = v.visible, w.token = v.token, w.reach = v.reach
  PROVE  LET x == BoundSheet(w)
         IN  Sheeted(v, x) /\ x.visible = v.visible /\ x.token = v.token /\ x.reach = v.reach
<1> DEFINE id == w.asks.bind
           s == Put(w.map.sheets, id, FreshSheet)
           e == [kind |-> "SheetSet", id |-> id, sheet |-> FreshSheet]
           x == Told([w EXCEPT !.map = [@ EXCEPT !.sheets = s]], e)
<1>1. IsSheet(FreshSheet)
  BY DEF IsSheet, FreshSheet
<1>2. IsGameEvent(e)
  BY <1>1 DEF IsGameEvent
<1>3. \A i \in DOMAIN s : IsSheet(s[i])
  BY <1>1 DEF Sheeted, IsDocument, Put
<1>4. BoundSheet(w) \in {w, x}
  BY DEF BoundSheet
<1> HIDE DEF s, e
<1>5. Sheeted(v, x) /\ x.visible = v.visible /\ x.token = v.token /\ x.reach = v.reach
  BY <1>2, <1>3, ToldSheet
<1> HIDE DEF x
<1> QED BY <1>4, <1>5

\* The sheet of a creature.
LEMMA SpawnedTended ==
  ASSUME NEW v, CoreFields \subseteq DOMAIN v, NEW w, Sheeted(v, w), SoundAsks(v.asks),
         w.visible = v.visible, w.token = v.token, w.reach = v.reach
  PROVE  LET x == SpawnedSheet(w)
         IN  Sheeted(v, x) /\ x.visible = v.visible /\ x.token = v.token /\ x.reach = v.reach
<1>1. CASE w.asks.spawn = <<>>
  BY <1>1 DEF SpawnedSheet
<1>2. CASE w.asks.spawn # <<>>
  <2> DEFINE id == w.asks.spawn[1]
             sheet == StatBlock(w.asks.spawn[2])
             s == Put(w.map.sheets, id, sheet)
             e == [kind |-> "SheetSet", id |-> id, sheet |-> sheet]
             x == Told([w EXCEPT !.map = [@ EXCEPT !.sheets = s]], e)
  <2>1. IsSheet(sheet)
    BY <1>2 DEF SoundAsks, Sheeted
  <2>2. SpawnedSheet(w) = x
    BY <1>2 DEF SpawnedSheet
  <2> HIDE DEF sheet
  <2>3. IsGameEvent(e)
    BY <2>1 DEF IsGameEvent
  <2>4. \A i \in DOMAIN s : IsSheet(s[i])
    BY <2>1 DEF Sheeted, IsDocument, Put
  <2> HIDE DEF s, e
  <2>5. Sheeted(v, x) /\ x.visible = v.visible /\ x.token = v.token /\ x.reach = v.reach
    BY <2>3, <2>4, ToldSheet
  <2> HIDE DEF x
  <2> QED BY <2>2, <2>5
<1> QED BY <1>1, <1>2

\* A number of a sheet, never below zero.
LEMMA EditedTended ==
  ASSUME NEW v, CoreFields \subseteq DOMAIN v, NEW w, Sheeted(v, w), SoundAsks(v.asks),
         w.visible = v.visible, w.token = v.token, w.reach = v.reach
  PROVE  LET x == EditedSheet(w)
         IN  Sheeted(v, x) /\ x.visible = v.visible /\ x.token = v.token /\ x.reach = v.reach
<1> DEFINE id == w.asks.edit[1]
           key == w.asks.edit[2]
           by == w.asks.edit[3]
           was == Get(w.map.sheets[id], key, 0)
           now == Max({0, was + by})
           sheet == Put(w.map.sheets[id], key, now)
           s == [w.map.sheets EXCEPT ![id] = sheet]
           e == [kind |-> "SheetSet", id |-> id, sheet |-> sheet]
           x == Told([w EXCEPT !.map = [@ EXCEPT !.sheets = s]], e)
<1>1. CASE w.asks.edit = <<>> \/ id \notin DOMAIN w.map.sheets
  BY <1>1 DEF EditedSheet
<1>2. CASE w.asks.edit # <<>> /\ id \in DOMAIN w.map.sheets
  <2>0. by \in Int
    BY <1>2 DEF SoundAsks, Sheeted
  <2>1. /\ "map" \in DOMAIN w /\ "sheets" \in DOMAIN w.map
        /\ \A i \in DOMAIN w.map.sheets : IsSheet(w.map.sheets[i])
    BY DEF Sheeted, CoreFields, IsDocument, Parts
  <2>2. was \in Int
    BY <1>2, <2>1 DEF IsSheet, Get
  <2>3. now \in Int
    <3> DEFINE sum == was + by
    <3>1. sum \in Int
      BY <2>0, <2>2
    <3> HIDE DEF sum
    <3>2. Max({0, sum}) \in {0, sum}
      BY <3>1, MaxOfTwo
    <3>3. Max({0, sum}) \in Int
      BY <3>1, <3>2
    <3> QED BY <3>3 DEF sum
  <2>4. EditedSheet(w) = x
    <3>1. EditedSheet(w) = Told([w EXCEPT !.map.sheets[id] = sheet], e)
      BY <1>2 DEF EditedSheet
    <3> HIDE DEF sheet, e, id
    <3>2. [w EXCEPT !.map.sheets[id] = sheet] = [w EXCEPT !.map = [@ EXCEPT !.sheets = s]]
      BY <2>1
    <3> QED BY <3>1, <3>2
  <2> HIDE DEF now
  <2>5. IsSheet(sheet)
    BY <1>2, <2>1, <2>3 DEF IsSheet, Put
  <2> HIDE DEF sheet
  <2>6. IsGameEvent(e)
    BY <2>5 DEF IsGameEvent
  <2> HIDE DEF id
  <2>7. \A i \in DOMAIN s : IsSheet(s[i])
    BY <2>1, <2>5
  <2> HIDE DEF s, e
  <2>8. Sheeted(v, x) /\ x.visible = v.visible /\ x.token = v.token /\ x.reach = v.reach
    BY <2>6, <2>7, ToldSheet
  <2> HIDE DEF x
  <2> QED BY <2>4, <2>8
<1> QED BY <1>1, <1>2, SMTT(60)

\* A condition cleared: with fog and reach computed after it.
LEMMA ClearedTended ==
  ASSUME NEW v, CoreFields \subseteq DOMAIN v, NEW w, Sheeted(v, w),
         w.visible = v.visible, w.token = v.token, w.reach = v.reach
  PROVE  Tended(v, ClearedCondition(w))
<1>0. CoreFields \subseteq DOMAIN w
  BY DEF Sheeted
<1>1. CASE w.asks.clear = <<>>
  BY <1>1 DEF ClearedCondition, Tended
<1>2. CASE w.asks.clear # <<>> /\ Sends(w)
  <2> DEFINE e == [kind |-> "ConditionSet", id |-> w.asks.clear[1], name |-> w.asks.clear[2]]
             out == Append(w.outbox, e)
             x == [w EXCEPT !.outbox = out]
  <2>1. ClearedCondition(w) = x
    BY <1>2 DEF ClearedCondition, Send
  <2>2. IsGameEvent(e)
    BY DEF IsGameEvent
  <2> HIDE DEF e
  <2>3. IsEvents(out)
    <3>1. IsList(w.outbox) /\ \A k \in Range(w.outbox) : IsGameEvent(k)
      BY EventsRange DEF Sheeted
    <3>2. IsList(out) /\ Range(out) = Range(w.outbox) \cup {e}
      BY <3>1, ListAppend
    <3> HIDE DEF out
    <3> QED BY <2>2, <3>1, <3>2, EventsRange
  <2> HIDE DEF out
  <2>4. Tended(v, x)
    BY <1>0, <2>3 DEF Sheeted, Tended, CoreFields
  <2> QED BY <2>1, <2>4
<1>3. CASE w.asks.clear # <<>> /\ ~Sends(w)
  <2> DEFINE id == w.asks.clear[1]
             name == w.asks.clear[2]
             n == SetMobility(SetCondition(w.map, id, name, 0), id, <<>>)
             y == [w EXCEPT !.map = n]
             f == Fogged(y)
             x == Reached(f)
  <2>1. ClearedCondition(w) = x
    BY <1>0, <1>3 DEF ClearedCondition, CoreFields
  <2>2. IsDocument(n) /\ Board(n) = Board(w.map)
    BY ConditionGone DEF Sheeted
  <2> HIDE DEF n
  <2>3. /\ DOMAIN y = DOMAIN w /\ y.map = n
        /\ y.undo = w.undo /\ y.redo = w.redo /\ y.turns = w.turns
        /\ y.viewer = w.viewer /\ y.channels = w.channels
        /\ y.net = w.net /\ y.held = w.held
        /\ y.mode = w.mode /\ y.brush = w.brush /\ y.asks = w.asks /\ y.outbox = w.outbox
    BY <1>0 DEF CoreFields
  <2> HIDE DEF y
  <2>4. /\ DOMAIN f = DOMAIN y
        /\ f.map = y.map /\ f.undo = y.undo /\ f.redo = y.redo /\ f.turns = y.turns
        /\ f.viewer = y.viewer /\ f.channels = y.channels
        /\ f.net = y.net /\ f.held = y.held
        /\ f.mode = y.mode /\ f.brush = y.brush /\ f.asks = y.asks /\ f.outbox = y.outbox
        /\ Lit(f)
    BY <1>0, <2>3, FoggedFacts
  <2> HIDE DEF f
  <2>5. /\ DOMAIN x = DOMAIN f
        /\ x.map = f.map /\ x.undo = f.undo /\ x.redo = f.redo /\ x.turns = f.turns
        /\ x.viewer = f.viewer /\ x.channels = f.channels /\ x.visible = f.visible
        /\ x.net = f.net /\ x.held = f.held
        /\ x.mode = f.mode /\ x.brush = f.brush /\ x.asks = f.asks /\ x.outbox = f.outbox
        /\ x.reach = ReachOf(x, x.token)
    BY <1>0, <2>3, <2>4, ReachedFacts
  <2> HIDE DEF x
  <2>6. Lit(x)
    BY <2>4, <2>5, LitSame
  <2>7. Sheeted(v, x)
    BY <2>2, <2>3, <2>4, <2>5 DEF Sheeted
  <2> QED BY <2>1, <2>5, <2>6, <2>7 DEF Tended
<1> QED BY <1>1, <1>2, <1>3

\* What a handler left, pumped.
Pump(v, w) ==
  /\ Sound(w) /\ Board(w.map) = Board(v.map)
  /\ w.undo = v.undo /\ w.turns = v.turns /\ w.viewer = v.viewer /\ w.channels = v.channels
  /\ w.net = v.net /\ w.held = v.held
  /\ \/ w.visible = v.visible /\ w.token = v.token /\ w.reach = v.reach
     \/ Lit(w) /\ w.reach = ReachOf(w, w.token)

\* What the pump leaves, and what it sends.
Settled(u) == Emptied(Pumped(u))
Outbox(u)  == Pumped(u).outbox

\* What the pump does after a handler.
LEMMA PumpSettles ==
  ASSUME NEW v, Sound(v)
  PROVE  Pump(v, Settled(v)) /\ IsEvents(Outbox(v))
<1> DEFINE a == BoundSheet(v)
           b == EditedSheet(a)
           c == SpawnedSheet(b)
           d == ClearedCondition(c)
           p == [d EXCEPT !.asks = NoAsks]
           w == [p EXCEPT !.outbox = <<>>, !.letters = <<>>]
<1>0. CoreFields \subseteq DOMAIN v /\ SoundAsks(v.asks) /\ Sheeted(v, v)
  BY DEF Sound, Orderly, Sheeted
<1>1. Sheeted(v, a) /\ a.visible = v.visible /\ a.token = v.token /\ a.reach = v.reach
  BY <1>0, BoundTended
<1> HIDE DEF a
<1>2. Sheeted(v, b) /\ b.visible = v.visible /\ b.token = v.token /\ b.reach = v.reach
  BY <1>0, <1>1, EditedTended
<1> HIDE DEF b
<1>3. Sheeted(v, c) /\ c.visible = v.visible /\ c.token = v.token /\ c.reach = v.reach
  BY <1>0, <1>2, SpawnedTended
<1> HIDE DEF c
<1>4. Tended(v, d)
  BY <1>0, <1>3, ClearedTended
<1>5. Settled(v) = w /\ Outbox(v) = p.outbox
  BY DEF Settled, Emptied, Outbox, Pumped, a, b, c
<1> HIDE DEF d
<1>6. DOMAIN d = DOMAIN v
  BY <1>4 DEF Tended, Sheeted
<1>7. /\ p.outbox = d.outbox
      /\ DOMAIN w = DOMAIN d /\ w.asks = NoAsks /\ w.outbox = <<>>
      /\ w.map = d.map /\ w.undo = d.undo /\ w.redo = d.redo /\ w.turns = d.turns
      /\ w.viewer = d.viewer /\ w.channels = d.channels /\ w.visible = d.visible
      /\ w.token = d.token /\ w.reach = d.reach
      /\ w.net = d.net /\ w.held = d.held /\ w.mode = d.mode /\ w.brush = d.brush
  BY <1>0, <1>6 DEF CoreFields
<1> HIDE DEF w, p
<1>8. IsEvents(<<>>)
  BY EmptyList DEF IsEvents
<1>9. SoundAsks(NoAsks)
  BY DEF SoundAsks, NoAsks
<1>10. Sound(w)
  <2>1. Orderly(w)
    BY <1>4, <1>7, <1>8, <1>9 DEF Tended, Sheeted, Orderly, Sound
  <2>2. Spares(w)
    BY <1>4, <1>7 DEF Tended, Sheeted, Spares, Sound
  <2> QED BY <1>4, <1>6, <1>7, <2>1, <2>2 DEF Tended, Sheeted, Sound, Sends
<1>11. Lit(d) => Lit(w)
  BY <1>7, LitSame
<1>12. ReachOf(w, w.token) = ReachOf(d, d.token)
  BY <1>7, ReachOfSame
<1>13. Pump(v, w)
  BY <1>4, <1>7, <1>10, <1>11, <1>12 DEF Tended, Sheeted, Pump
<1>14. IsEvents(p.outbox)
  BY <1>4, <1>7 DEF Tended, Sheeted
<1> QED BY <1>5, <1>13, <1>14

-----------------------------------------------------------------------------
(* The invariant *)

SoundGame(g) ==
  /\ DOMAIN g = {"map", "turns", "rolls", "held", "place", "clock", "beats", "seq"}
  /\ IsDocument(g.map) /\ SoundTurns(g.turns)
  /\ IsFiniteSet(g.held) /\ g.held \subseteq Nat

\* What every state of a sitting keeps: the view and the snapshot are sound, the wire
\* carries events, undoing everything leads to the board as opened, and the fog and
\* the reach are new unless something they do not follow has made them old.
IInv ==
  /\ Sound(ui) /\ SoundGame(game) /\ IsEvents(wire)
  /\ fresh => Sends(ui)
  /\ opened.doc \in Documents
  /\ ~Sends(ui) => Board(Unwound(ui)) = Board(opened.doc)
  /\ opened.fog \/ Lit(ui)
  /\ opened.reach \/ ui.reach = ReachOf(ui, ui.token)

\* What no step of the app does.
Kind ==
  /\ ~Sends(ui) => ShrinkKeeps(ui.turns, ui'.turns)
  /\ Len(ui'.undo) > Len(ui.undo) => (Ids(ui'.map) \ Ids(ui.map)) \cap ui.held = {}
  /\ Sends(ui) => Laid(ui'.map) = Laid(ui.map)

\* A play and its pumping keep the invariant.
LEMMA TakesKeeps ==
  ASSUME IInv, NEW v, Plays(ui, v), Takes(v)
  PROVE  IInv' /\ Kind /\ game' = game
<1> DEFINE w == Settled(v)
<1>1. ui' = w /\ wire' = wire \o Outbox(v) /\ opened' = Drift(ui, w) /\ game' = game /\ fresh' = fresh
  BY DEF Takes, Posts, Settled, Outbox
<1>2. Sound(v) /\ Deed(ui, v) /\ FogStep(ui, v) /\ ReachStep(ui, v)
  BY DEF Plays
<1>3. Pump(v, w) /\ IsEvents(Outbox(v))
  BY <1>2, PumpSettles
<1> HIDE DEF w
<1>4. w.net = ui.net /\ (Sends(w) <=> Sends(ui)) /\ (Sends(v) <=> Sends(ui))
  BY <1>2, <1>3 DEF Pump, Deed, Sends
<1>5. Sound(w) /\ IsDocument(w.map) /\ IsDocument(v.map) /\ IsDocument(ui.map)
  BY <1>2, <1>3 DEF Pump, Sound, IInv
<1>6. WalkView(w.map) = WalkView(v.map) /\ Ground(w.map) = Ground(v.map) /\ Laid(w.map) = Laid(v.map) /\ Ids(w.map) = Ids(v.map)
  BY <1>3, BoardWalk, BoardSame DEF Pump
<1>7. Numbers(v.map) = Numbers(ui.map)
  BY <1>2 DEF Deed
<1>8. ~Sends(w) => Board(Unwound(w)) = Board(opened.doc)
  <2>1. Board(Unwound(w)) = Board(Unwound(v))
    BY <1>2, <1>3, <1>5, PeelSame DEF Unwound, Pump, Sound
  <2> QED BY <1>2, <1>4, <2>1 DEF Deed, IInv
<1> DEFINE sees == Numbers(w.map) # Numbers(ui.map)
           goes == sees \/ Ground(w.map) # Ground(ui.map) \/ (Sends(w) /\ w.turns # ui.turns)
<1>9. /\ opened'.doc = opened.doc
      /\ opened'.fog = ((opened.fog \/ sees) /\ w.visible # Sees(w))
      /\ opened'.reach = ((opened.reach \/ goes) /\ w.reach # ReachOf(w, w.token))
  BY <1>1 DEF Drift
<1>10. opened.fog \/ sees \/ Lit(w)
  <2>1. SUFFICES ASSUME ~opened.fog, ~sees PROVE Lit(w)
    OBVIOUS
  <2>2. Lit(ui)
    BY <2>1 DEF IInv
  <2>3. Lit(v)
    <3>1. CASE FogView(v) = FogView(ui)
      BY <1>7, <2>2, <3>1, LitSame DEF FogView
    <3> QED BY <1>2, <3>1 DEF FogStep
  <2> QED BY <1>3, <1>7, <2>1, <2>3, LitSame DEF Pump
<1>11. opened'.fog \/ Lit(w)
  BY <1>9, <1>10 DEF Lit
<1>12. opened.reach \/ goes \/ w.reach = ReachOf(w, w.token)
  <2>1. SUFFICES ASSUME ~opened.reach, ~goes, w.reach # ReachOf(w, w.token) PROVE FALSE
    OBVIOUS
  <2>2. ui.reach = ReachOf(ui, ui.token)
    BY <2>1 DEF IInv
  <2>3. w.token = v.token /\ w.reach = v.reach /\ w.turns = v.turns
    BY <1>3, <2>1 DEF Pump
  <2>4. Numbers(w.map) = Numbers(ui.map) /\ Ground(w.map) = Ground(ui.map)
    BY <2>1
  <2>5. CASE v.reach = ReachOf(v, v.token)
    <3>1. ReachOf(w, w.token) = ReachOf(v, w.token)
      BY <1>5, <1>6, <1>7, <2>3, <2>4, ReachSame
    <3> QED BY <2>1, <2>3, <2>5, <3>1
  <2>6. CASE ReachView(v) = ReachView(ui)
    <3>1. v.reach = ui.reach /\ v.token = ui.token /\ v.turns = ui.turns /\ WalkView(v.map) = WalkView(ui.map)
      BY <2>6 DEF ReachView
    <3>2. ReachOf(w, w.token) = ReachOf(ui, w.token)
      BY <1>5, <1>6, <2>3, <2>4, <3>1, ReachSame
    <3> QED BY <2>1, <2>2, <2>3, <3>1, <3>2
  <2>7. CASE Ground(v.map) # Ground(ui.map)
    BY <1>6, <2>4, <2>7
  <2>8. CASE Sends(v) /\ v.turns # ui.turns
    BY <1>4, <2>1, <2>3, <2>8
  <2> QED BY <1>2, <2>5, <2>6, <2>7, <2>8 DEF ReachStep
<1>13. opened'.reach \/ w.reach = ReachOf(w, w.token)
  BY <1>9, <1>12
<1>14. IsEvents(wire \o Outbox(v))
  BY <1>3, EventsConcat DEF IInv
<1>15. IInv'
  <2>1. /\ Sound(w) /\ SoundGame(game) /\ IsEvents(wire \o Outbox(v))
        /\ (fresh => Sends(w)) /\ opened'.doc \in Documents
        /\ (~Sends(w) => Board(Unwound(w)) = Board(opened'.doc))
        /\ (opened'.fog \/ Lit(w))
        /\ (opened'.reach \/ w.reach = ReachOf(w, w.token))
    BY <1>4, <1>5, <1>8, <1>9, <1>11, <1>13, <1>14 DEF IInv
  <2> QED BY <1>1, <2>1 DEF IInv
<1>16. Kind
  <2>1. w.undo = v.undo /\ w.turns = v.turns
    BY <1>3 DEF Pump
  <2> QED BY <1>1, <1>2, <1>6, <2>1 DEF Deed, Kind
<1> QED BY <1>1, <1>15, <1>16

-----------------------------------------------------------------------------
(* The steps of the session *)

\* What no step does: TurnKept, FreshIds and RemoteFollows, of one step.
Tidy ==
  /\ IF ~Sends(ui) THEN ShrinkKeeps(ui.turns, ui'.turns)
     ELSE \/ ShrinkKeeps(game.turns, game'.turns)
          \/ \E e \in Foreign \cup Range(wire) :
               e.kind = "TurnSetOrder" /\ game'.turns = SetOrder(e.order)
  /\ Len(ui'.undo) > Len(ui.undo) => (Ids(ui'.map) \ Ids(ui.map)) \cap ui.held = {}
  /\ Sends(ui) /\ Laid(ui'.map) # Laid(ui.map) => Laid(ui'.map) = Laid(game.map) \/ ClickLoad

LEMMA ShrinkRefl ==
  ASSUME NEW t
  PROVE  ShrinkKeeps(t, t)
BY DEF ShrinkKeeps

\* A step that leaves the session alone is tidy when the app's part is.
LEMMA KindTidy ==
  ASSUME Kind, game' = game
  PROVE  Tidy
BY ShrinkRefl DEF Kind, Tidy

\* The view as it was.
LEMMA StillTidy ==
  ASSUME IInv, ui' = ui, game' = game
  PROVE  Tidy
<1>1. ~(Len(ui.undo) > Len(ui.undo))
  <2>1. Len(ui.undo) \in Nat
    BY ListFacts DEF IInv, Sound, IsHistory
  <2> QED BY <2>1
<1> QED BY <1>1, ShrinkRefl DEF Tidy

\* A handler no pump follows, of what neither board nor turns nor fog is made of.
LEMMA QuietKeeps ==
  ASSUME IInv, Quiet(ui, ui'), UNCHANGED <<game, wire, fresh, opened>>
  PROVE  IInv' /\ Tidy
<1>1. Sound(ui') /\ Plays(ui, ui')
  BY QuietOrderly DEF IInv
<1>2. /\ Sends(ui') <=> Sends(ui)
      /\ Lit(ui') <=> Lit(ui)
      /\ \A id : ReachOf(ui', id) = ReachOf(ui, id)
      /\ Unwound(ui') = Unwound(ui)
      /\ ui'.reach = ui.reach /\ ui'.token = ui.token
  BY AsideSame DEF Quiet, Aside
<1>3. IInv'
  BY <1>1, <1>2 DEF IInv
<1>4. Kind
  BY <1>1 DEF Plays, Deed, Kind
<1> QED BY <1>3, <1>4, KindTidy

\* Counters cleared, the same board.
LEMMA ClearedCounters ==
  ASSUME NEW m, IsDocument(m), NEW id
  PROVE  IsDocument(ClearCounters(m, id))
<1> DEFINE left == Drop(m.counters, id)
           n == [m EXCEPT !.counters = left]
<1>1. ClearCounters(m, id) = n
  BY DEF ClearCounters
<1> HIDE DEF left
<1>2. DOMAIN m = Parts
      /\ (\A i \in DOMAIN m.sheets : IsSheet(m.sheets[i]))
      /\ \A i \in DOMAIN m.mobility : m.mobility[i][1] \in Nat
  BY DEF IsDocument
<1>3. /\ DOMAIN n = DOMAIN m /\ n.sheets = m.sheets /\ n.mobility = m.mobility
      /\ n.width = m.width /\ n.height = m.height /\ n.kinds = m.kinds
      /\ n.ground = m.ground /\ n.props = m.props /\ n.elevation = m.elevation /\ n.tokens = m.tokens
  BY <1>2 DEF Parts
<1> HIDE DEF n
<1>4. IsDocument(n)
  BY <1>2, <1>3, Noted
<1> QED BY <1>1, <1>4

\* The host's ruling of an event it accepts.
LEMMA RuledSound ==
  ASSUME NEW g, SoundGame(g), NEW e, IsGameEvent(e), Accepts(g, e)
  PROVE  LET h == Ruled(g, e)
         IN  /\ SoundGame(h)
             /\ ShrinkKeeps(g.turns, h.turns) \/ (e.kind = "TurnSetOrder" /\ h.turns = SetOrder(e.order))
<1> DEFINE h == Ruled(g, e)
           goal(x) == /\ SoundGame(x)
                      /\ ShrinkKeeps(g.turns, x.turns) \/ (e.kind = "TurnSetOrder" /\ x.turns = SetOrder(e.order))
<1> USE DEF SoundGame
<1>0. ShrinkKeeps(g.turns, g.turns)
  BY ShrinkRefl
<1>1. CASE e.kind = "Map"
  <2> DEFINE n == AppliedTo(g.map, e.event)
  <2>1. h = [g EXCEPT !.map = n]
    BY <1>1 DEF Ruled
  <2>2. IsEvent(e.event) /\ ~Rejects(g.map, e.event)
    BY <1>1 DEF IsGameEvent, Accepts
  <2>3. IsDocument(n)
    BY <2>2, Applied
  <2> HIDE DEF n, h
  <2> QED BY <1>0, <2>1, <2>3 DEF h
<1>2. CASE e.kind = "TurnAdd"
  <2> DEFINE t == TurnAdd(g.turns, e.id)
  <2>1. h = [g EXCEPT !.turns = t]
    BY <1>2 DEF Ruled
  <2>2. e.id # NoToken
    <3>1. e.id \in Ids(g.map)
      BY <1>2 DEF Accepts
    <3> QED BY <3>1, TokenFacts DEF NoToken
  <2>3. SoundTurns(t) /\ ShrinkKeeps(g.turns, t)
    BY <2>2, TurnAddSound
  <2> HIDE DEF t, h
  <2> QED BY <2>1, <2>3 DEF h
<1>3. CASE e.kind = "TurnRemove"
  <2> DEFINE t == TurnRemove(g.turns, e.id)
  <2>1. h = [g EXCEPT !.turns = t]
    BY <1>3 DEF Ruled
  <2>3. SoundTurns(t) /\ ShrinkKeeps(g.turns, t)
    BY TurnRemoveSound
  <2> HIDE DEF t, h
  <2> QED BY <2>1, <2>3 DEF h
<1>4. CASE e.kind = "TurnAdvance"
  <2> DEFINE t == AdvanceSkipping(g.turns, g.map.defeated)
             c == IF g.place = NoOne THEN g.clock ELSE g.clock + t.round - g.turns.round
             n == IF Active(t) = NoToken THEN g.map ELSE ClearCounters(g.map, Active(t))
  <2>1. h = [g EXCEPT !.turns = t, !.clock = c, !.map = n]
    <3>1. h = [g EXCEPT !.turns = t,
                        !.clock = IF g.place = NoOne THEN @ ELSE @ + t.round - g.turns.round,
                        !.map = IF Active(t) = NoToken THEN @ ELSE ClearCounters(@, Active(t))]
      BY <1>4 DEF Ruled
    <3> QED BY <3>1
  <2>2. SoundTurns(t) /\ t.order = g.turns.order
    BY AdvanceSkippingSound
  <2>3. ShrinkKeeps(g.turns, t)
    <3> HIDE DEF t
    <3> QED BY <2>2, TurnFacts DEF ShrinkKeeps
  <2>4. IsDocument(n)
    BY ClearedCounters
  <2> HIDE DEF t, c, n, h
  <2> QED BY <2>1, <2>2, <2>3, <2>4 DEF h
<1>5. CASE e.kind = "TurnSetOrder"
  <2> DEFINE t == SetOrder(e.order)
  <2>1. h = [g EXCEPT !.turns = t]
    BY <1>5 DEF Ruled
  <2>2. SoundTurns(t)
    BY <1>5, SetOrderSound DEF IsGameEvent
  <2> HIDE DEF t, h
  <2> QED BY <1>5, <2>1, <2>2 DEF h, t
<1>6. CASE e.kind = "Rolled"
  <2> DEFINE x == PushRoll(g.rolls, e.roll)
  <2>1. h = [g EXCEPT !.rolls = x]
    BY <1>6 DEF Ruled
  <2> HIDE DEF x, h
  <2> QED BY <1>0, <2>1 DEF h
<1>7. CASE e.kind = "TimeAdvanced"
  <2> DEFINE x == g.clock + e.ticks
  <2>1. h = [g EXCEPT !.clock = x]
    BY <1>7 DEF Ruled
  <2> HIDE DEF x, h
  <2> QED BY <1>0, <2>1 DEF h
<1>8. CASE e.kind = "Emoted"
  <2> DEFINE x == e.id :> e.beat
             y == g.seq + 1
  <2>1. h = [g EXCEPT !.beats = x, !.seq = y]
    BY <1>8 DEF Ruled
  <2> HIDE DEF x, y, h
  <2> QED BY <1>0, <2>1 DEF h
<1>9. CASE e.kind = "SheetSet"
  <2> DEFINE s == Put(g.map.sheets, e.id, e.sheet)
             n == [g.map EXCEPT !.sheets = s]
  <2>1. h = [g EXCEPT !.map = n]
    <3>1. h = [g EXCEPT !.map.sheets = Put(@, e.id, e.sheet)]
      BY <1>9 DEF Ruled
    <3>2. "sheets" \in DOMAIN g.map
      BY DEF IsDocument, Parts
    <3> QED BY <3>1, <3>2
  <2>2. \A i \in DOMAIN s : IsSheet(s[i])
    BY <1>9 DEF IsGameEvent, IsDocument, Put
  <2> HIDE DEF s
  <2>3. IsDocument(n)
    BY <2>2, SheetsChanged
  <2> HIDE DEF n, h
  <2> QED BY <1>0, <2>1, <2>3 DEF h
<1>10. CASE e.kind = "ConditionSet"
  <2> DEFINE n == SetMobility(SetCondition(g.map, e.id, e.name, 0), e.id, <<>>)
  <2>1. h = [g EXCEPT !.map = n]
    <3>1. h = [g EXCEPT !.map = SetMobility(SetCondition(@, e.id, e.name, 0), e.id, <<>>)]
      BY <1>10 DEF Ruled
    <3> QED BY <3>1
  <2>3. IsDocument(n)
    BY ConditionGone
  <2> HIDE DEF n, h
  <2> QED BY <1>0, <2>1, <2>3 DEF h
<1>11. e.kind \in {"Map", "TurnSetOrder", "SheetSet", "TurnAdd", "TurnRemove", "TurnAdvance", "Rolled", "TimeAdvanced", "Emoted", "ConditionSet"}
  BY DEF IsGameEvent
<1> QED BY <1>1, <1>2, <1>3, <1>4, <1>5, <1>6, <1>7, <1>8, <1>9, <1>10, <1>11

\* An event committed.
LEMMA CommitsKeeps ==
  ASSUME IInv, NEW e \in Foreign \cup Range(wire), Commits(e), ui' = ui, opened' = opened,
         IsEvents(wire')
  PROVE  IInv' /\ Tidy
<1>1. IsGameEvent(e)
  BY ForeignAssumption, EventsRange DEF IInv
<1>2. /\ SoundGame(game')
      /\ \/ ShrinkKeeps(game.turns, game'.turns)
         \/ e.kind = "TurnSetOrder" /\ game'.turns = SetOrder(e.order)
  <2>1. CASE Accepts(game, e)
    <3>1. game' = Ruled(game, e)
      BY <2>1 DEF Commits
    <3> QED BY <1>1, <2>1, <3>1, RuledSound DEF IInv
  <2>2. CASE ~Accepts(game, e)
    <3>1. game' = game
      BY <2>2 DEF Commits
    <3> QED BY <3>1, ShrinkRefl DEF IInv
  <2> QED BY <2>1, <2>2
<1>3. fresh' => Sends(ui)
  BY DEF Commits, IInv
<1>4. IInv'
  BY <1>2, <1>3 DEF IInv
<1>5. ~(Len(ui.undo) > Len(ui.undo))
  <2>1. Len(ui.undo) \in Nat
    BY ListFacts DEF IInv, Sound, IsHistory
  <2> QED BY <2>1
<1>6. Tidy
  BY <1>2, <1>5, ShrinkRefl DEF Tidy
<1> QED BY <1>4, <1>6

-----------------------------------------------------------------------------
(* The start, the mirror and the file *)

\* Mirroring the session keeps the invariant.
LEMMA MirrorKeeps ==
  ASSUME IInv, Mirror
  PROVE  IInv' /\ Tidy
<1> DEFINE lit == IF game.beats = <<>> THEN ui ELSE StageBeats(ui, game.seq, game.beats)
           token == IF lit.token \in Ids(game.map) THEN lit.token ELSE NoToken
           y == [lit EXCEPT !.map = game.map, !.turns = game.turns, !.rolls = game.rolls,
                            !.held = game.held, !.clock = game.clock, !.token = token]
           f == Fogged(y)
           w == Reached(f)
<1>1. /\ fresh /\ fresh' = FALSE /\ ui' = Mirrored(ui, game) /\ opened' = Drift(ui, ui')
      /\ UNCHANGED <<game, wire>>
  BY DEF Mirror
<1>2. Sound(ui) /\ Sends(ui) /\ SoundGame(game)
  BY <1>1 DEF IInv
<1>3. Quiet(ui, lit) /\ Sound(lit) /\ Aside(ui, lit)
  <2>1. Quiet(ui, StageBeats(ui, game.seq, game.beats))
    BY <1>2, QuietHandlers
  <2>2. Quiet(ui, ui)
    BY DEF Quiet, Aside
  <2>3. Quiet(ui, lit)
    BY <2>1, <2>2
  <2> HIDE DEF lit
  <2> QED BY <1>2, <2>3, QuietOrderly
<1>4. Mirrored(ui, game) = w
  BY <1>3 DEF Mirrored, Sound, CoreFields
<1> HIDE DEF lit, token
<1>5. /\ DOMAIN y = DOMAIN lit /\ y.map = game.map /\ y.turns = game.turns /\ y.held = game.held
      /\ y.undo = lit.undo /\ y.redo = lit.redo /\ y.net = lit.net
      /\ y.mode = lit.mode /\ y.brush = lit.brush /\ y.asks = lit.asks /\ y.outbox = lit.outbox
  BY <1>3 DEF Sound, CoreFields
<1> HIDE DEF y
<1>6. Sends(y) /\ Sends(lit) /\ lit.undo = <<>> /\ lit.redo = <<>> /\ lit.undo = ui.undo
  BY <1>2, <1>3, <1>5 DEF Aside, Sends, Sound
<1>7. Sound(y)
  <2>1. Spares(y)
    BY <1>5, <1>6, EmptyList DEF Spares
  <2> QED BY <1>2, <1>3, <1>5, <1>6, <2>1 DEF Sound, SoundGame, Orderly
<1>8. /\ DOMAIN f = DOMAIN y
      /\ f.map = y.map /\ f.undo = y.undo /\ f.redo = y.redo /\ f.turns = y.turns
      /\ f.net = y.net /\ f.held = y.held
      /\ f.mode = y.mode /\ f.brush = y.brush /\ f.asks = y.asks /\ f.outbox = y.outbox
      /\ Lit(f)
  BY <1>7, FoggedFacts DEF Sound
<1> HIDE DEF f
<1>9. Sound(f)
  BY <1>7, <1>8, SoundSame
<1>10. /\ DOMAIN w = DOMAIN f
       /\ w.map = f.map /\ w.undo = f.undo /\ w.redo = f.redo /\ w.turns = f.turns
       /\ w.viewer = f.viewer /\ w.channels = f.channels /\ w.visible = f.visible
       /\ w.net = f.net /\ w.held = f.held
       /\ w.mode = f.mode /\ w.brush = f.brush /\ w.asks = f.asks /\ w.outbox = f.outbox
       /\ w.reach = ReachOf(w, w.token)
  BY <1>9, ReachedFacts DEF Sound
<1> HIDE DEF w
<1>11. Sound(w) /\ Lit(w) /\ Sends(w)
  BY <1>5, <1>6, <1>8, <1>9, <1>10, SoundSame, LitSame DEF Sends
<1>12. opened'.doc = opened.doc
  BY <1>1 DEF Drift
<1>13. IInv'
  <2>1. /\ Sound(w) /\ SoundGame(game) /\ IsEvents(wire) /\ opened'.doc \in Documents
        /\ Sends(w) /\ Lit(w) /\ w.reach = ReachOf(w, w.token)
    BY <1>10, <1>11, <1>12 DEF IInv
  <2> QED BY <1>1, <1>4, <2>1 DEF IInv
<1>14. Tidy
  <2>1. w.undo = ui.undo /\ w.map = game.map
    BY <1>5, <1>6, <1>8, <1>10
  <2>2. ~(Len(ui.undo) > Len(ui.undo))
    BY <1>6, EmptyList
  <2> QED BY <1>1, <1>2, <1>4, <2>1, <2>2, ShrinkRefl DEF Tidy
<1> QED BY <1>13, <1>14

\* Loading a file keeps the invariant.
LEMMA LoadKeeps ==
  ASSUME IInv, ClickLoad
  PROVE  IInv' /\ Tidy
<1>1. PICK doc \in Documents :
        /\ ui' = ReplaceMap(ui, doc)
        /\ opened' = [doc |-> doc, fog |-> FALSE, reach |-> FALSE]
  BY DEF ClickLoad
<1>2. UNCHANGED <<game, wire, fresh>>
  BY DEF ClickLoad
<1> DEFINE y == [ui EXCEPT !.map = doc, !.undo = <<>>, !.redo = <<>>, !.tile = NoTile, !.turns = NoTurns,
                           !.token = NoToken, !.reach = <<>>, !.explored = {}]
           f == Fogged(y)
<1>3. Sound(ui) /\ SoundGame(game) /\ IsEvents(wire) /\ (fresh => Sends(ui))
  BY DEF IInv
<1>4. /\ DOMAIN y = DOMAIN ui /\ y.map = doc /\ y.turns = NoTurns /\ y.held = ui.held
      /\ y.undo = <<>> /\ y.redo = <<>> /\ y.net = ui.net /\ y.token = NoToken /\ y.reach = <<>>
      /\ y.mode = ui.mode /\ y.brush = ui.brush /\ y.asks = ui.asks /\ y.outbox = ui.outbox
  BY <1>3 DEF Sound, CoreFields
<1>5. ui' = f
  BY <1>1 DEF ReplaceMap
<1> HIDE DEF y
<1>6. Sound(y)
  <2>1. Spares(y) /\ IsHistory(<<>>)
    BY <1>4, EmptyList DEF Spares, IsHistory
  <2> QED BY <1>3, <1>4, <2>1, DocumentsAssumption, NoTurnsSound DEF Sound, Orderly, Sends
<1>8. /\ DOMAIN f = DOMAIN y
      /\ f.map = y.map /\ f.undo = y.undo /\ f.redo = y.redo /\ f.turns = y.turns
      /\ f.token = y.token /\ f.reach = y.reach
      /\ f.net = y.net /\ f.held = y.held
      /\ f.mode = y.mode /\ f.brush = y.brush /\ f.asks = y.asks /\ f.outbox = y.outbox
      /\ Lit(f)
  BY <1>6, FoggedFacts DEF Sound
<1> HIDE DEF f
<1>9. Sound(f) /\ (Sends(f) <=> Sends(ui))
  BY <1>4, <1>6, <1>8, SoundSame DEF Sends
<1>10. Unwound(f) = doc
  BY <1>4, <1>8, PeelNone DEF Unwound
<1>11. f.reach = ReachOf(f, f.token)
  BY <1>4, <1>8 DEF ReachOf
<1>12. IInv'
  <2>1. opened'.doc = doc
    BY <1>1
  <2>2. Board(Unwound(f)) = Board(opened'.doc)
    BY <1>10, <2>1
  <2> QED BY <1>2, <1>3, <1>5, <1>8, <1>9, <1>11, <2>1, <2>2 DEF IInv
<1>13. Tidy
  <2>1. ~(Len(f.undo) > Len(ui.undo))
    <3>1. Len(ui.undo) \in Nat /\ Len(f.undo) = 0
      BY <1>3, <1>4, <1>8, ListFacts, EmptyList DEF Sound, IsHistory
    <3> QED BY <3>1
  <2>2. ShrinkKeeps(ui.turns, f.turns)
    <3>1. f.turns.order = <<>>
      BY <1>4, <1>8 DEF NoTurns
    <3>2. Range(<<>>) = {}
      BY DEF Range
    <3> QED BY <3>1, <3>2 DEF ShrinkKeeps
  <2> QED BY <1>2, <1>5, <2>1, <2>2, ShrinkRefl DEF Tidy
<1> QED BY <1>12, <1>13

\* The table starts within the invariant.
LEMMA InitKeeps ==
  ASSUME Init
  PROVE  IInv
<1>1. PICK doc \in Documents :
        /\ errand \in Errands /\ ui = Seated(doc, errand.seat)
        /\ game = Kept(ui) /\ wire = <<>> /\ fresh = FALSE
        /\ opened = [doc |-> doc, fog |-> FALSE, reach |-> FALSE]
  BY DEF Init
<1> DEFINE seat == errand.seat
           ids == [n \in DOMAIN doc.tokens |-> doc.tokens[n].id]
           turns == [NoTurns EXCEPT !.order = ids]
           y == [NewView(doc) EXCEPT
                   !.turns = turns,
                   !.net = seat.net, !.author = seat.author, !.viewer = seat.viewer,
                   !.place = seat.place, !.held = seat.held, !.players = <<"bea", "cal">>]
           f == Fogged(y)
<1>2. ui = f
  BY <1>1 DEF Seated
<1>3. IsDocument(doc) /\ IsFiniteSet(seat.held) /\ seat.held \subseteq Nat
  BY <1>1, DocumentsAssumption, ErrandsAssumption
<1>4. SoundTurns(turns)
  <2>1. /\ IsList(doc.tokens) /\ \A n \in DOMAIN doc.tokens : doc.tokens[n].id \in Nat \ {0}
        /\ \A n, k \in DOMAIN doc.tokens : doc.tokens[n].id = doc.tokens[k].id => n = k
    BY <1>3 DEF IsDocument, IsToken
  <2>2. DOMAIN doc.tokens = 1..Len(doc.tokens) /\ Len(doc.tokens) \in Nat
    BY <2>1, ListFacts
  <2>3. DOMAIN ids = 1..Len(doc.tokens) /\ ids = [i \in 1..Len(doc.tokens) |-> ids[i]]
        /\ \A n \in DOMAIN doc.tokens : ids[n] = doc.tokens[n].id
    BY <2>2
  <2> HIDE DEF ids
  <2>4. IsList(ids) /\ Len(ids) = Len(doc.tokens)
    BY <2>2, <2>3, IsListOf
  <2>5. NoToken \notin Range(ids)
    <3>1. \A n \in DOMAIN ids : ids[n] # 0
      <4> SUFFICES ASSUME NEW n \in DOMAIN ids
                   PROVE  ids[n] # 0
        OBVIOUS
      <4>1. n \in DOMAIN doc.tokens
        BY <2>2, <2>3
      <4>2. ids[n] = doc.tokens[n].id
        BY <2>3, <4>1
      <4> QED BY <2>1, <4>1, <4>2
    <3> QED BY <3>1 DEF Range, NoToken
  <2>6. IsOrder(ids)
    <3>1. \A n, k \in DOMAIN ids : ids[n] = ids[k] => n = k
      <4> SUFFICES ASSUME NEW n \in DOMAIN ids, NEW k \in DOMAIN ids, ids[n] = ids[k]
                   PROVE  n = k
        OBVIOUS
      <4>1. n \in DOMAIN doc.tokens /\ k \in DOMAIN doc.tokens
        BY <2>2, <2>3
      <4>2. doc.tokens[n].id = doc.tokens[k].id
        BY <2>3, <4>1
      <4> QED BY <2>1, <4>1, <4>2
    <3> QED BY <2>4, <2>5, <3>1 DEF IsOrder
  <2>7. DOMAIN turns = {"order", "at", "round"} /\ turns.order = ids /\ turns.at = 0
    BY DEF NoTurns
  <2>8. ids = <<>> \/ 0 < Len(ids)
    <3>1. CASE Len(ids) = 0
      <4>1. ids = <<>>
        <5> DEFINE none == <<>>
        <5>1. IsList(none) /\ Len(none) = 0
          BY EmptyList
        <5> HIDE DEF none
        <5>2. ids = none
          BY <2>4, <3>1, <5>1, ListsEqual
        <5> QED BY <5>2 DEF none
      <4> QED BY <4>1
    <3> QED BY <2>2, <2>4, <3>1
  <2> HIDE DEF turns
  <2> QED BY <2>6, <2>7, <2>8 DEF SoundTurns
<1> HIDE DEF turns
<1>5. /\ CoreFields \subseteq DOMAIN y
      /\ y.map = doc /\ y.turns = turns /\ y.held = seat.held
      /\ y.undo = <<>> /\ y.redo = <<>> /\ y.token = NoToken /\ y.reach = <<>>
      /\ y.mode = "Select" /\ y.brush = 1 /\ y.asks = NoAsks /\ y.outbox = <<>>
  BY DEF NewView, CoreFields
<1> HIDE DEF y, seat
<1>6. Sound(y)
  <2>1. Spares(y) /\ IsHistory(<<>>) /\ IsEvents(<<>>)
    BY <1>5, EmptyList DEF Spares, IsHistory, IsEvents
  <2>2. SoundAsks(NoAsks)
    BY DEF SoundAsks, NoAsks
  <2> QED BY <1>3, <1>4, <1>5, <2>1, <2>2 DEF Sound, Orderly, Modes
<1>8. /\ DOMAIN f = DOMAIN y
      /\ f.map = y.map /\ f.undo = y.undo /\ f.redo = y.redo /\ f.turns = y.turns
      /\ f.token = y.token /\ f.reach = y.reach
      /\ f.net = y.net /\ f.held = y.held
      /\ f.mode = y.mode /\ f.brush = y.brush /\ f.asks = y.asks /\ f.outbox = y.outbox
      /\ Lit(f)
  BY <1>6, FoggedFacts DEF Sound
<1> HIDE DEF f
<1>9. Sound(f)
  BY <1>6, <1>8, SoundSame
<1>10. Unwound(f) = doc
  BY <1>5, <1>8, PeelNone DEF Unwound
<1>11. f.reach = ReachOf(f, f.token)
  BY <1>5, <1>8 DEF ReachOf
<1>12. SoundGame(game)
  <2>1. game = Kept(f)
    BY <1>1, <1>2
  <2>2. DOMAIN game = {"map", "turns", "rolls", "held", "place", "clock", "beats", "seq"}
        /\ game.map = f.map /\ game.turns = f.turns /\ game.held = f.held
    BY <2>1 DEF Kept
  <2> QED BY <1>3, <1>4, <1>5, <1>8, <2>2 DEF SoundGame
<1>13. IsEvents(wire)
  BY <1>1, EmptyList DEF IsEvents
<1> QED BY <1>1, <1>2, <1>8, <1>9, <1>10, <1>11, <1>12, <1>13 DEF IInv

-----------------------------------------------------------------------------
(* Every step *)

\* A handler that plays, taken by the app, keeps the invariant and is tidy.
LEMMA TakesTidy ==
  ASSUME IInv, NEW v, Plays(ui, v), Takes(v)
  PROVE  IInv' /\ Tidy
BY TakesKeeps, KindTidy

\* A press takes what its handler left, with no menu open.
LEMMA PressedTidy ==
  ASSUME IInv, NEW v, Plays(ui, v), NEW hit, NEW under, Pressed(v, hit, under)
  PROVE  IInv' /\ Tidy
<1> DEFINE w == [v EXCEPT !.menu = NoToken]
<1>1. Sound(v)
  BY DEF Plays
<1>2. Quiet(v, w)
  BY <1>1, QuietHandlers
<1>3. Takes(w)
  BY DEF Pressed
<1> HIDE DEF w
<1>4. Plays(ui, w)
  BY <1>1, <1>2, QuietOrderly, PlaysAside
<1> QED BY <1>3, <1>4, TakesTidy

LEMMA ClickTidy ==
  ASSUME IInv, NEW v, Plays(ui, v), Click(v)
  PROVE  IInv' /\ Tidy
BY PressedTidy DEF Click

LEMMA KeyTidy ==
  ASSUME IInv, NEW v, Plays(ui, v), Key(v)
  PROVE  IInv' /\ Tidy
BY TakesTidy DEF Key

\* The mouse keeps the invariant and is tidy.
LEMMA MouseKeeps ==
  ASSUME IInv, Mouse
  PROVE  IInv' /\ Tidy
<1>0. Sound(ui)
  BY DEF IInv
<1>1. CASE ClickOnToken
  <2>1. PICK t \in DrawnTokens(ui) : Pressed(ClickToken(ui, t.id), t.at, Flat(ui, t.at))
    BY <1>1 DEF ClickOnToken
  <2>2. Plays(ui, ClickToken(ui, t.id))
    BY <1>0, ClickTokenPlays
  <2> QED BY <2>1, <2>2, PressedTidy
<1>2. CASE ClickOnTile
  <2>1. PICK at \in DrawnGround(ui, AllShown) : Pressed(ClickTile(ui, at), at, Flat(ui, at))
    BY <1>2 DEF ClickOnTile
  <2>2. at \in Cells(ui.map)
    BY DEF DrawnGround, BoardCells
  <2>3. Plays(ui, ClickTile(ui, at))
    BY <1>0, <2>2, ClickTilePlays
  <2> QED BY <2>1, <2>3, PressedTidy
<1>3. CASE PaintOn
  <2>1. PICK at \in DrawnGround(ui, AllShown) : Takes(ClickTile(ui, at))
    BY <1>3 DEF PaintOn
  <2>2. at \in Cells(ui.map)
    BY DEF DrawnGround, BoardCells
  <2>3. Plays(ui, ClickTile(ui, at))
    BY <1>0, <2>2, ClickTilePlays
  <2> QED BY <2>1, <2>3, TakesTidy
<1>4. CASE ReleaseMouse
  <2>1. CASE UNCHANGED <<ui, game, wire, fresh, opened, steps, errand>>
    <3>1. IInv'
      BY <2>1 DEF IInv
    <3> QED BY <2>1, <3>1, StillTidy
  <2>2. CASE \E to \in Cells(ui.map) : Takes(DragMove(ui, mouse.grab, to))
    <3>1. PICK to : Takes(DragMove(ui, mouse.grab, to))
      BY <2>2
    <3>2. Plays(ui, DragMove(ui, mouse.grab, to))
      BY <1>0, DragMovePlays
    <3> QED BY <3>1, <3>2, TakesTidy
  <2> QED BY <1>4, <2>1, <2>2 DEF ReleaseMouse
<1>5. CASE RightPress
  <2>1. PICK at \in Cells(ui.map) : Takes(OpenMenu(ui, TokenAt(ui, at)))
    BY <1>5 DEF RightPress
  <2>2. Plays(ui, OpenMenu(ui, TokenAt(ui, at)))
    BY <1>0, OpenMenuPlays
  <2> QED BY <2>1, <2>2, TakesTidy
<1>6. CASE MovePointer
  <2>1. PICK at : ui' = Hover(ui, at)
    BY <1>6 DEF MovePointer
  <2>2. Quiet(ui, ui')
    BY <1>0, <2>1, QuietHandlers
  <2>3. UNCHANGED <<game, wire, fresh, opened>>
    BY <1>6 DEF MovePointer
  <2> QED BY <2>2, <2>3, QuietKeeps
<1>7. CASE ClickMenuRow
  <2>1. PICK row : Pressed(Chosen(ui, row), NoTile, NoTile)
    BY <1>7 DEF ClickMenuRow
  <2>2. Plays(ui, Chosen(ui, row))
    BY <1>0, <1>7, ChosenPlays DEF ClickMenuRow
  <2> QED BY <2>1, <2>2, PressedTidy
<1> QED BY <1>1, <1>2, <1>3, <1>4, <1>5, <1>6, <1>7 DEF Mouse

LEMMA QuietPlays ==
  ASSUME NEW u, Sound(u)
  PROVE  \A v : Quiet(u, v) => Plays(u, v)
BY QuietOrderly

\* So do the panel and the overlays.
LEMMA PanelKeeps ==
  ASSUME IInv, Panel
  PROVE  IInv' /\ Tidy
<1>0. Sound(ui)
  BY DEF IInv
<1>1. CASE ClickMode
  <2>1. PICK m \in Modes : Click([ui EXCEPT !.mode = m])
    BY <1>1 DEF ClickMode
  <2> QED BY <1>0, <2>1, ClickedMode, ClickTidy
<1>2. CASE ClickBrush
  <2>1. PICK b \in 0..(Len(ui.map.kinds) - 1) : Click([ui EXCEPT !.brush = b])
    BY <1>2 DEF ClickBrush
  <2>2. b \in Nat
    OBVIOUS
  <2> QED BY <1>0, <2>1, <2>2, ClickedMode, ClickTidy
<1>3. CASE ClickSprite
  <2>1. PICK s : Click([ui EXCEPT !.sprite = s])
    BY <1>3 DEF ClickSprite
  <2> QED BY <1>0, <2>1, QuietHandlers, QuietPlays, ClickTidy
<1>4. CASE ClickUndo
  BY <1>0, <1>4, UndoPlays, ClickTidy DEF ClickUndo
<1>5. CASE ClickRedo
  BY <1>0, <1>5, RedoPlays, ClickTidy DEF ClickRedo
<1>6. CASE ClickTurnRow
  <2>1. PICK id : Click(SelectToken(ui, id))
    BY <1>6 DEF ClickTurnRow
  <2> QED BY <1>0, <2>1, SelectPlays, ClickTidy
<1>7. CASE ClickInOut
  <2>1. PICK row \in Range(TurnRows(ui)) : Click(ToggleTurn(ui, row.id))
    BY <1>7 DEF ClickInOut
  <2>2. row.id # NoToken
    <3>1. PICK n \in DOMAIN TurnRows(ui) : row = TurnRows(ui)[n]
      BY DEF Range
    <3>2. n \in DOMAIN ui.map.tokens /\ row.id = ui.map.tokens[n].id
      BY <3>1 DEF TurnRows
    <3> QED BY <1>0, <3>2 DEF Sound, IsDocument, IsToken, NoToken
  <2> QED BY <1>0, <2>1, <2>2, ToggleTurnPlays, ClickTidy
<1>8. CASE ClickEndTurn
  BY <1>0, <1>8, EndTurnPlays, ClickTidy DEF ClickEndTurn
<1>9. CASE ClickInit
  <2>1. PICK s : Click([ui EXCEPT !.init = s])
    <3>1. Click([ui EXCEPT !.init = IF ui.init = "side" THEN "individual" ELSE "side"])
      BY <1>9 DEF ClickInit
    <3> QED BY <3>1
  <2> QED BY <1>0, <2>1, QuietHandlers, QuietPlays, ClickTidy
<1>10. CASE ClickRoll
  <2>1. PICK faces \in [Rollers(ui) -> DieFaces] : Click(RollInitiative(ui, faces))
    BY <1>10 DEF ClickRoll
  <2> QED BY <1>0, <2>1, InitiativePlays, ClickTidy
<1>11. CASE ClickTime
  <2>1. PICK n : Click(PassTime(ui, n))
    BY <1>11 DEF ClickTime
  <2> QED BY <1>0, <2>1, DicePlays, ClickTidy
<1>12. CASE ClickDie
  <2>1. PICK n : Click(RollDice(ui, "1d20", n))
    BY <1>12 DEF ClickDie
  <2> QED BY <1>0, <2>1, DicePlays, ClickTidy
<1>13. CASE ClickShape
  <2>1. Quiet(ui, NextShape(ui)) /\ Click(NextShape(ui))
    BY <1>0, <1>13, QuietHandlers DEF ClickShape
  <2> QED BY <1>0, <2>1, QuietPlays, ClickTidy
<1>14. CASE ClickSize
  <2>1. PICK by : Click(Resized(ui, by))
    BY <1>14 DEF ClickSize
  <2>2. Quiet(ui, Resized(ui, by))
    BY <1>0, QuietHandlers
  <2> QED BY <1>0, <2>1, <2>2, QuietPlays, ClickTidy
<1>15. CASE ClickWhisper
  <2>1. Quiet(ui, StartCompose(ui)) /\ Quiet(ui, CycleTarget(ui))
    BY <1>0, QuietHandlers
  <2> QED BY <1>0, <1>15, <2>1, QuietPlays, ClickTidy DEF ClickWhisper
<1>16. CASE ClickSheet
  BY <1>0, <1>16, SheetPlays, ClickTidy DEF ClickSheet
<1>17. CASE CloseSheet
  <2>1. Quiet(ui, [ui EXCEPT !.sheet = NoToken])
    BY <1>0, QuietHandlers
  <2> QED BY <1>0, <1>17, <2>1, QuietPlays, ClickTidy DEF CloseSheet
<1>18. CASE ClickStepper
  <2>1. PICK key, by : by \in {-1, 1} /\ Click(RequestEdit(ui, key, by))
    BY <1>18 DEF ClickStepper
  <2>2. Plays(ui, RequestEdit(ui, key, by))
    BY <1>0, <2>1, SheetPlays
  <2> QED BY <2>1, <2>2, ClickTidy
<1>19. CASE ClickBestiary
  <2>1. Quiet(ui, [ui EXCEPT !.search.open = TRUE])
    BY <1>0, QuietHandlers
  <2> QED BY <1>0, <1>19, <2>1, QuietPlays, ClickTidy DEF ClickBestiary
<1>20. CASE ClickBook
  <2>1. CASE Click(CloseCompendium(ui))
    <3>1. Quiet(ui, CloseCompendium(ui))
      BY <1>0, QuietHandlers
    <3> QED BY <1>0, <2>1, <3>1, QuietPlays, ClickTidy
  <2>2. CASE Click([ui EXCEPT !.page = ""])
    <3>1. Quiet(ui, [ui EXCEPT !.page = ""])
      BY <1>0, QuietHandlers
    <3> QED BY <1>0, <2>2, <3>1, QuietPlays, ClickTidy
  <2>3. CASE \E tab : Click(SetTab(ui, tab))
    <3>1. \A tab : Quiet(ui, SetTab(ui, tab))
      BY <1>0, QuietHandlers
    <3> QED BY <1>0, <2>3, <3>1, QuietPlays, ClickTidy
  <2>4. CASE \E col : Click(SortBy(ui, col))
    <3>1. \A col : Quiet(ui, SortBy(ui, col))
      BY <1>0, QuietHandlers
    <3> QED BY <1>0, <2>4, <3>1, QuietPlays, ClickTidy
  <2>5. CASE \E n : Click([ui EXCEPT !.page = CompendiumBody(ui)[n]])
    <3>1. \A p : Quiet(ui, [ui EXCEPT !.page = p])
      BY <1>0, QuietHandlers
    <3> QED BY <1>0, <2>5, <3>1, QuietPlays, ClickTidy
  <2> QED BY <1>20, <2>1, <2>2, <2>3, <2>4, <2>5 DEF ClickBook
<1>21. CASE ClickLoad
  BY <1>21, LoadKeeps
<1> QED BY <1>1, <1>2, <1>3, <1>4, <1>5, <1>6, <1>7, <1>8, <1>9, <1>10, <1>11, <1>12, <1>13, <1>14,
           <1>15, <1>16, <1>17, <1>18, <1>19, <1>20, <1>21 DEF Panel

\* So does the keyboard.
LEMMA KeyboardKeeps ==
  ASSUME IInv, Keyboard
  PROVE  IInv' /\ Tidy
<1>0. Sound(ui)
  BY DEF IInv
<1>1. CASE KeyInCommand
  <2>1. CASE Key(CommandCancel(ui))
    <3>1. Quiet(ui, CommandCancel(ui))
      BY <1>0, QuietHandlers
    <3> QED BY <1>0, <2>1, <3>1, QuietPlays, KeyTidy
  <2>2. CASE \E n \in DieFaces : Key(CommandSubmit(ui, n))
    BY <1>0, <2>2, CommandPlays, KeyTidy
  <2>3. CASE \E w \in Words : Key(Typed(ui, "command", w))
    <3>1. \A w : Quiet(ui, Typed(ui, "command", w))
      BY <1>0, QuietHandlers
    <3> QED BY <1>0, <2>3, <3>1, QuietPlays, KeyTidy
  <2>4. CASE Key(Rubbed(ui, "command"))
    <3>1. Quiet(ui, Rubbed(ui, "command"))
      BY <1>0, QuietHandlers
    <3> QED BY <1>0, <2>4, <3>1, QuietPlays, KeyTidy
  <2> QED BY <1>1, <2>1, <2>2, <2>3, <2>4 DEF KeyInCommand
<1>2. CASE KeyInWhisper
  <2>1. /\ Quiet(ui, ComposeCancel(ui)) /\ Quiet(ui, ComposeSend(ui))
        /\ (\A w : Quiet(ui, Typed(ui, "whisper", w))) /\ Quiet(ui, Rubbed(ui, "whisper"))
    BY <1>0, QuietHandlers
  <2> QED BY <1>0, <1>2, <2>1, QuietPlays, KeyTidy DEF KeyInWhisper
<1>3. CASE KeyInBook
  <2>1. /\ Quiet(ui, CompendiumEscape(ui))
        /\ (\A w : Quiet(ui, Typed(ui, "search", w))) /\ Quiet(ui, Rubbed(ui, "search"))
    BY <1>0, QuietHandlers
  <2> QED BY <1>0, <1>3, <2>1, QuietPlays, KeyTidy DEF KeyInBook
<1>4. CASE PressCommandKey
  <2>1. Quiet(ui, StartCommand(ui))
    BY <1>0, QuietHandlers
  <2> QED BY <1>0, <1>4, <2>1, QuietPlays, KeyTidy DEF PressCommandKey
<1>5. CASE PressWhisperKey
  <2>1. Quiet(ui, StartCompose(ui))
    BY <1>0, QuietHandlers
  <2> QED BY <1>0, <1>5, <2>1, QuietPlays, KeyTidy DEF PressWhisperKey
<1>6. CASE PressRotateKey
  BY <1>0, <1>6, RotatePlays, KeyTidy DEF PressRotateKey
<1>7. CASE PressFogKey
  BY <1>0, <1>7, CycleViewerPlays, KeyTidy DEF PressFogKey
<1>8. CASE PressEnter
  BY <1>0, <1>8, EndTurnPlays, KeyTidy DEF PressEnter
<1>9. CASE PressUndoKey
  BY <1>0, <1>9, UndoPlays, KeyTidy DEF PressUndoKey
<1>10. CASE PressRedoKey
  BY <1>0, <1>10, RedoPlays, KeyTidy DEF PressRedoKey
<1> QED BY <1>1, <1>2, <1>3, <1>4, <1>5, <1>6, <1>7, <1>8, <1>9, <1>10 DEF Keyboard

\* So do the session and the end of an animation.
LEMMA SessionKeeps ==
  ASSUME IInv, Session
  PROVE  IInv' /\ Tidy
<1>0. Sound(ui)
  BY DEF IInv
<1>1. CASE Rules
  <2>1. wire # <<>> /\ Commits(Head(wire)) /\ wire' = Tail(wire) /\ ui' = ui /\ opened' = opened
    BY <1>1 DEF Rules
  <2>2. IsList(wire) /\ \A e \in Range(wire) : IsGameEvent(e)
    BY EventsRange DEF IInv
  <2>3. Head(wire) \in Range(wire) /\ IsEvents(wire')
    <3>1. IsList(Tail(wire)) /\ Range(Tail(wire)) \subseteq Range(wire) /\ Head(wire) \in Range(wire)
      BY <2>1, <2>2, ListTail
    <3> QED BY <2>1, <2>2, <3>1, EventsRange
  <2> QED BY <2>1, <2>3, CommitsKeeps
<1>2. CASE OthersPlay
  <2>1. PICK e \in Foreign : Commits(e)
    BY <1>2 DEF OthersPlay
  <2>2. ui' = ui /\ opened' = opened /\ wire' = wire
    BY <1>2 DEF OthersPlay
  <2>3. IsEvents(wire')
    BY <2>2 DEF IInv
  <2> QED BY <2>1, <2>2, <2>3, CommitsKeeps
<1>3. CASE Mirror
  BY <1>3, MirrorKeeps
<1>4. CASE HearWhisper
  <2>1. PICK who : ui' = ReceiveWhisper(ui, who)
    BY <1>4 DEF HearWhisper
  <2>2. Quiet(ui, ui')
    BY <1>0, <2>1, QuietHandlers
  <2>3. UNCHANGED <<game, wire, fresh, opened>>
    BY <1>4 DEF HearWhisper
  <2> QED BY <2>2, <2>3, QuietKeeps
<1>5. CASE BeatsEnd
  <2>1. Quiet(ui, ui')
    BY <1>0, <1>5, QuietHandlers DEF BeatsEnd
  <2>3. UNCHANGED <<game, wire, fresh, opened>>
    BY <1>5 DEF BeatsEnd
  <2> QED BY <2>1, <2>3, QuietKeeps
<1> QED BY <1>1, <1>2, <1>3, <1>4, <1>5 DEF Session

\* So does every step.
LEMMA NextKeeps ==
  ASSUME IInv, [Next]_vars
  PROVE  IInv' /\ Tidy
<1>1. CASE UNCHANGED vars
  <2>1. IInv'
    BY <1>1 DEF vars, IInv
  <2>2. Tidy
    BY <1>1, StillTidy DEF vars
  <2> QED BY <2>1, <2>2
<1>2. CASE Next
  BY <1>2, MouseKeeps, PanelKeeps, KeyboardKeeps, SessionKeeps DEF Next
<1> QED BY <1>1, <1>2

-----------------------------------------------------------------------------
(* The walk *)

\* A tile's neighbours met one after the other.
LEMMA ExploreUnfold ==
  ASSUME NEW treads, NEW walk, NEW at, Len(Step8) \in Nat
  PROVE  \E f : /\ f[0] = walk
                /\ \A k \in 1..Len(Step8) : f[k] = Meet(treads, f[k - 1], at, Shift(at, Step8[k]))
                /\ Explore(treads, walk, at) = f[Len(Step8)]
<1> DEFINE N == Len(Step8)
           W == Explore(treads, walk, at)
           base == walk
           P(n, f) == f = [k \in 0..n |-> IF k = 0 THEN base ELSE Meet(treads, f[k - 1], at, Shift(at, Step8[k]))]
           S == {n \in Nat : \E f : P(n, f)}
<1>0. N \in Nat
  OBVIOUS
<1>1. W = (CHOOSE f : P(N, f))[N]
  BY DEF Explore
<1> HIDE DEF N, W, base
<1>2. 0 \in S
  <2>1. P(0, [k \in 0..0 |-> base])
    OBVIOUS
  <2> QED BY <2>1
<1>3. ASSUME NEW n \in Nat, n \in S PROVE n + 1 \in S
  <2>1. PICK f : P(n, f)
    BY <1>3
  <2> DEFINE next == Meet(treads, f[n], at, Shift(at, Step8[(n + 1)]))
             h == [k \in 0..(n + 1) |-> IF k = n + 1 THEN next ELSE f[k]]
  <2> HIDE DEF next
  <2>2. ASSUME NEW k \in 0..(n + 1)
        PROVE  h[k] = IF k = 0 THEN base ELSE Meet(treads, h[k - 1], at, Shift(at, Step8[k]))
    <3>1. CASE k = n + 1
      <4>1. h[k] = next /\ h[k - 1] = f[n] /\ k # 0
        BY <3>1
      <4> QED BY <3>1, <4>1 DEF next
    <3>2. CASE k \in 1..n
      <4>1. h[k] = f[k] /\ h[k - 1] = f[k - 1] /\ k # 0 /\ k \in 0..n
        BY <3>2
      <4>2. f[k] = Meet(treads, f[k - 1], at, Shift(at, Step8[k]))
        BY <2>1, <4>1
      <4> QED BY <4>1, <4>2
    <3>3. CASE k = 0
      <4>1. h[0] = f[0] /\ f[0] = base
        BY <2>1
      <4> QED BY <3>3, <4>1
    <3> QED BY <3>1, <3>2, <3>3
  <2>3. h = [k \in 0..(n + 1) |-> h[k]]
    OBVIOUS
  <2> HIDE DEF h
  <2>4. P(n + 1, h)
    BY <2>2, <2>3
  <2>5. n + 1 \in Nat
    OBVIOUS
  <2> HIDE DEF P
  <2> QED BY <2>4, <2>5
<1> HIDE DEF S
<1>4. N \in S
  BY <1>0, <1>2, <1>3, NatInduct
<1> DEFINE g == CHOOSE f : P(N, f)
<1>5. P(N, g)
  <2>1. \E f : P(N, f)
    BY <1>4 DEF S
  <2> HIDE DEF P, N
  <2> QED BY <2>1
<1>6. W = g[N]
  BY <1>1
<1> HIDE DEF g
<1>7. g[0] = base /\ \A k \in 1..N : g[k] = Meet(treads, g[k - 1], at, Shift(at, Step8[k]))
  BY <1>0, <1>5
<1> HIDE DEF P
<1>8. \E f : /\ f[0] = base
             /\ \A k \in 1..N : f[k] = Meet(treads, f[k - 1], at, Shift(at, Step8[k]))
             /\ W = f[N]
  BY <1>6, <1>7
<1> QED BY <1>8 DEF N, W, base

\* A frontier explored tile by tile.
LEMMA WaveUnfold ==
  ASSUME NEW treads, NEW walk, Len(walk.next) \in Nat
  PROVE  \E f : /\ f[0] = [prev |-> walk.prev, next |-> <<>>]
                /\ \A k \in 1..Len(walk.next) : f[k] = Explore(treads, f[k - 1], walk.next[k])
                /\ Wave(treads, walk) = f[Len(walk.next)]
<1> DEFINE N == Len(walk.next)
           W == Wave(treads, walk)
           base == [prev |-> walk.prev, next |-> <<>>]
           P(n, f) == f = [k \in 0..n |-> IF k = 0 THEN base ELSE Explore(treads, f[k - 1], walk.next[k])]
           S == {n \in Nat : \E f : P(n, f)}
<1>0. N \in Nat
  OBVIOUS
<1>1. W = (CHOOSE f : P(N, f))[N]
  BY DEF Wave
<1> HIDE DEF N, W, base
<1>2. 0 \in S
  <2>1. P(0, [k \in 0..0 |-> base])
    OBVIOUS
  <2> QED BY <2>1
<1>3. ASSUME NEW n \in Nat, n \in S PROVE n + 1 \in S
  <2>1. PICK f : P(n, f)
    BY <1>3
  <2> DEFINE next == Explore(treads, f[n], walk.next[(n + 1)])
             h == [k \in 0..(n + 1) |-> IF k = n + 1 THEN next ELSE f[k]]
  <2> HIDE DEF next
  <2>2. ASSUME NEW k \in 0..(n + 1)
        PROVE  h[k] = IF k = 0 THEN base ELSE Explore(treads, h[k - 1], walk.next[k])
    <3>1. CASE k = n + 1
      <4>1. h[k] = next /\ h[k - 1] = f[n] /\ k # 0
        BY <3>1
      <4> QED BY <3>1, <4>1 DEF next
    <3>2. CASE k \in 1..n
      <4>1. h[k] = f[k] /\ h[k - 1] = f[k - 1] /\ k # 0 /\ k \in 0..n
        BY <3>2
      <4>2. f[k] = Explore(treads, f[k - 1], walk.next[k])
        BY <2>1, <4>1
      <4> QED BY <4>1, <4>2
    <3>3. CASE k = 0
      <4>1. h[0] = f[0] /\ f[0] = base
        BY <2>1
      <4> QED BY <3>3, <4>1
    <3> QED BY <3>1, <3>2, <3>3
  <2>3. h = [k \in 0..(n + 1) |-> h[k]]
    OBVIOUS
  <2> HIDE DEF h
  <2>4. P(n + 1, h)
    BY <2>2, <2>3
  <2>5. n + 1 \in Nat
    OBVIOUS
  <2> HIDE DEF P
  <2> QED BY <2>4, <2>5
<1> HIDE DEF S
<1>4. N \in S
  BY <1>0, <1>2, <1>3, NatInduct
<1> DEFINE g == CHOOSE f : P(N, f)
<1>5. P(N, g)
  <2>1. \E f : P(N, f)
    BY <1>4 DEF S
  <2> HIDE DEF P, N
  <2> QED BY <2>1
<1>6. W = g[N]
  BY <1>1
<1> HIDE DEF g
<1>7. g[0] = base /\ \A k \in 1..N : g[k] = Explore(treads, g[k - 1], walk.next[k])
  BY <1>0, <1>5
<1> HIDE DEF P
<1>8. \E f : /\ f[0] = base
             /\ \A k \in 1..N : f[k] = Explore(treads, f[k - 1], walk.next[k])
             /\ W = f[N]
  BY <1>6, <1>7
<1> QED BY <1>8 DEF N, W, base

\* Where a walk starts.
Outset(from) == [prev |-> [c \in {from} |-> from], next |-> <<from>>]

\* A walk wave by wave.
LEMMA WalkedUnfold ==
  ASSUME NEW treads, NEW from, NEW budget \in Nat
  PROVE  \E f : /\ f[0] = Outset(from)
                /\ \A k \in 1..budget : f[k] = Wave(treads, f[k - 1])
                /\ Walked(treads, from, budget) = f[budget]
<1> DEFINE N == budget
           W == Walked(treads, from, budget)
           base == Outset(from)
           P(n, f) == f = [k \in 0..n |-> IF k = 0 THEN base ELSE Wave(treads, f[k - 1])]
           S == {n \in Nat : \E f : P(n, f)}
<1>0. N \in Nat
  OBVIOUS
<1>1. W = (CHOOSE f : P(N, f))[N]
  BY DEF Walked, Outset
<1> HIDE DEF N, W, base
<1>2. 0 \in S
  <2>1. P(0, [k \in 0..0 |-> base])
    OBVIOUS
  <2> QED BY <2>1
<1>3. ASSUME NEW n \in Nat, n \in S PROVE n + 1 \in S
  <2>1. PICK f : P(n, f)
    BY <1>3
  <2> DEFINE next == Wave(treads, f[n])
             h == [k \in 0..(n + 1) |-> IF k = n + 1 THEN next ELSE f[k]]
  <2> HIDE DEF next
  <2>2. ASSUME NEW k \in 0..(n + 1)
        PROVE  h[k] = IF k = 0 THEN base ELSE Wave(treads, h[k - 1])
    <3>1. CASE k = n + 1
      <4>1. h[k] = next /\ h[k - 1] = f[n] /\ k # 0
        BY <3>1
      <4> QED BY <3>1, <4>1 DEF next
    <3>2. CASE k \in 1..n
      <4>1. h[k] = f[k] /\ h[k - 1] = f[k - 1] /\ k # 0 /\ k \in 0..n
        BY <3>2
      <4>2. f[k] = Wave(treads, f[k - 1])
        BY <2>1, <4>1
      <4> QED BY <4>1, <4>2
    <3>3. CASE k = 0
      <4>1. h[0] = f[0] /\ f[0] = base
        BY <2>1
      <4> QED BY <3>3, <4>1
    <3> QED BY <3>1, <3>2, <3>3
  <2>3. h = [k \in 0..(n + 1) |-> h[k]]
    OBVIOUS
  <2> HIDE DEF h
  <2>4. P(n + 1, h)
    BY <2>2, <2>3
  <2>5. n + 1 \in Nat
    OBVIOUS
  <2> HIDE DEF P
  <2> QED BY <2>4, <2>5
<1> HIDE DEF S
<1>4. N \in S
  BY <1>0, <1>2, <1>3, NatInduct
<1> DEFINE g == CHOOSE f : P(N, f)
<1>5. P(N, g)
  <2>1. \E f : P(N, f)
    BY <1>4 DEF S
  <2> HIDE DEF P, N
  <2> QED BY <2>1
<1>6. W = g[N]
  BY <1>1
<1> HIDE DEF g
<1>7. g[0] = base /\ \A k \in 1..N : g[k] = Wave(treads, g[k - 1])
  BY <1>0, <1>5
<1> HIDE DEF P
<1>8. \E f : /\ f[0] = base
             /\ \A k \in 1..N : f[k] = Wave(treads, f[k - 1])
             /\ W = f[N]
  BY <1>6, <1>7
<1> QED BY <1>8 DEF N, W, base

\* A wave on its way: what it met before stands, what it meets is next, and is
\* met by a tread from the frontier.
Spreads(treads, w, r) ==
  /\ DOMAIN w.prev \subseteq DOMAIN r.prev
  /\ \A c \in DOMAIN w.prev : r.prev[c] = w.prev[c]
  /\ IsList(r.next) /\ Range(r.next) = DOMAIN r.prev \ DOMAIN w.prev
  /\ \A c \in Range(r.next) : r.prev[c] \in Range(w.next) /\ <<r.prev[c], c>> \in treads

\* One neighbour looked at.
LEMMA MeetSpreads ==
  ASSUME NEW treads, NEW w, NEW r, Spreads(treads, w, r), NEW at \in Range(w.next), NEW to
  PROVE  /\ Spreads(treads, w, Meet(treads, r, at, to))
         /\ DOMAIN r.prev \subseteq DOMAIN Meet(treads, r, at, to).prev
         /\ <<at, to>> \in treads => to \in DOMAIN Meet(treads, r, at, to).prev
<1> DEFINE s == Meet(treads, r, at, to)
<1>1. CASE to \notin DOMAIN r.prev /\ <<at, to>> \in treads
  <2>1. s.prev = Put(r.prev, to, at) /\ s.next = Append(r.next, to)
    BY <1>1 DEF Meet
  <2>2. DOMAIN s.prev = DOMAIN r.prev \cup {to} /\ s.prev[to] = at
        /\ \A c \in DOMAIN r.prev : s.prev[c] = r.prev[c]
    BY <1>1, <2>1 DEF Put
  <2>3. IsList(s.next) /\ Range(s.next) = Range(r.next) \cup {to}
    BY <2>1, ListAppend DEF Spreads
  <2> HIDE DEF s
  <2>4. Spreads(treads, w, s)
    BY <1>1, <2>2, <2>3 DEF Spreads
  <2> QED BY <2>2, <2>4 DEF s
<1>2. CASE ~(to \notin DOMAIN r.prev /\ <<at, to>> \in treads)
  <2>1. s = r
    BY <1>2 DEF Meet
  <2> QED BY <1>2, <2>1
<1> QED BY <1>1, <1>2

\* A tile explored: every tread from it has been met.
LEMMA ExploreSpreads ==
  ASSUME NEW treads, NEW w, NEW r, Spreads(treads, w, r), NEW at \in Range(w.next)
  PROVE  /\ Spreads(treads, w, Explore(treads, r, at))
         /\ DOMAIN r.prev \subseteq DOMAIN Explore(treads, r, at).prev
         /\ \A k \in 1..Len(Step8) :
              <<at, Shift(at, Step8[k])>> \in treads => Shift(at, Step8[k]) \in DOMAIN Explore(treads, r, at).prev
<1> DEFINE L == Len(Step8)
<1>1. L \in Nat
  BY DEF Step8
<1>2. PICK f : /\ f[0] = r
               /\ \A k \in 1..Len(Step8) : f[k] = Meet(treads, f[k - 1], at, Shift(at, Step8[k]))
               /\ Explore(treads, r, at) = f[Len(Step8)]
  BY <1>1, ExploreUnfold
<1> DEFINE Met(n) == /\ Spreads(treads, w, f[n])
                     /\ DOMAIN r.prev \subseteq DOMAIN f[n].prev
                     /\ \A k \in 1..n : <<at, Shift(at, Step8[k])>> \in treads => Shift(at, Step8[k]) \in DOMAIN f[n].prev
           S == {n \in Nat : n <= L => Met(n)}
<1> HIDE DEF L
<1>3. 0 \in S
  BY <1>2
<1>4. ASSUME NEW n \in Nat, n \in S PROVE n + 1 \in S
  <2>1. SUFFICES ASSUME n + 1 <= L PROVE Met(n + 1)
    OBVIOUS
  <2>2. n <= L /\ n + 1 \in 1..L /\ (n + 1) - 1 = n
    BY <1>1, <2>1
  <2>3. Met(n)
    BY <1>4, <2>2
  <2>4. f[n + 1] = Meet(treads, f[n], at, Shift(at, Step8[n + 1]))
    BY <1>2, <2>2 DEF L
  <2>5. /\ Spreads(treads, w, f[n + 1])
        /\ DOMAIN f[n].prev \subseteq DOMAIN f[n + 1].prev
        /\ <<at, Shift(at, Step8[n + 1])>> \in treads => Shift(at, Step8[n + 1]) \in DOMAIN f[n + 1].prev
    BY <2>3, <2>4, MeetSpreads
  <2>6. \A k \in 1..(n + 1) : k \in 1..n \/ k = n + 1
    OBVIOUS
  <2> QED BY <2>3, <2>5, <2>6
<1> HIDE DEF S
<1>5. Met(L)
  <2>1. L \in S /\ L <= L
    BY <1>1, <1>3, <1>4, NatInduct
  <2> HIDE DEF Met
  <2> QED BY <2>1 DEF S
<1> QED BY <1>2, <1>5 DEF L

\* A wave: every tread from its frontier has been met.
LEMMA WaveSpreads ==
  ASSUME NEW treads, NEW w, IsList(w.next)
  PROVE  /\ Spreads(treads, w, Wave(treads, w))
         /\ \A at \in Range(w.next) : \A k \in 1..Len(Step8) :
              <<at, Shift(at, Step8[k])>> \in treads => Shift(at, Step8[k]) \in DOMAIN Wave(treads, w).prev
<1> DEFINE L == Len(w.next)
<1>1. L \in Nat /\ Range(w.next) = {w.next[i] : i \in 1..L}
  BY ListFacts
<1>2. PICK f : /\ f[0] = [prev |-> w.prev, next |-> <<>>]
               /\ \A k \in 1..Len(w.next) : f[k] = Explore(treads, f[k - 1], w.next[k])
               /\ Wave(treads, w) = f[Len(w.next)]
  BY <1>1, WaveUnfold
<1> DEFINE Met(n) == /\ Spreads(treads, w, f[n])
                     /\ \A i \in 1..n : \A k \in 1..Len(Step8) :
                          <<w.next[i], Shift(w.next[i], Step8[k])>> \in treads =>
                             Shift(w.next[i], Step8[k]) \in DOMAIN f[n].prev
           S == {n \in Nat : n <= L => Met(n)}
<1> HIDE DEF L
<1>3. 0 \in S
  <2>1. IsList(<<>>) /\ Range(<<>>) = {}
    BY EmptyList DEF Range
  <2>2. Spreads(treads, w, f[0])
    <3> DEFINE none == <<>>
    <3>1. IsList(none) /\ Range(none) = {} /\ f[0] = [prev |-> w.prev, next |-> none]
      BY <1>2, <2>1
    <3> HIDE DEF none
    <3> QED BY <3>1 DEF Spreads
  <2> QED BY <2>2
<1>4. ASSUME NEW n \in Nat, n \in S PROVE n + 1 \in S
  <2>1. SUFFICES ASSUME n + 1 <= L PROVE Met(n + 1)
    OBVIOUS
  <2>2. n <= L /\ n + 1 \in 1..L /\ (n + 1) - 1 = n
    BY <1>1, <2>1
  <2>3. Met(n)
    BY <1>4, <2>2
  <2>4. f[n + 1] = Explore(treads, f[n], w.next[n + 1]) /\ w.next[n + 1] \in Range(w.next)
    BY <1>1, <1>2, <2>2 DEF L
  <2>5. /\ Spreads(treads, w, f[n + 1])
        /\ DOMAIN f[n].prev \subseteq DOMAIN f[n + 1].prev
        /\ \A k \in 1..Len(Step8) :
             <<w.next[n + 1], Shift(w.next[n + 1], Step8[k])>> \in treads =>
                Shift(w.next[n + 1], Step8[k]) \in DOMAIN f[n + 1].prev
    BY <2>3, <2>4, ExploreSpreads
  <2>6. \A k \in 1..(n + 1) : k \in 1..n \/ k = n + 1
    OBVIOUS
  <2> QED BY <2>3, <2>5, <2>6
<1> HIDE DEF S
<1>5. Met(L)
  <2>1. L \in S /\ L <= L
    BY <1>1, <1>3, <1>4, NatInduct
  <2> HIDE DEF Met
  <2> QED BY <2>1 DEF S
<1> QED BY <1>1, <1>2, <1>5 DEF L

\* How far off each tile of a walk of n waves is: one further than the tile it
\* was met from.  The furthest are the frontier; from the nearer ones every tread
\* has been met.
Stands(treads, from, w, n, d) ==
  /\ DOMAIN d = DOMAIN w.prev /\ \A c \in DOMAIN d : d[c] \in Nat /\ d[c] <= n
  /\ from \in DOMAIN d /\ w.prev[from] = from /\ d[from] = 0
  /\ \A c \in DOMAIN d \ {from} :
       w.prev[c] \in DOMAIN d /\ <<w.prev[c], c>> \in treads /\ d[c] = d[w.prev[c]] + 1
  /\ IsList(w.next) /\ Range(w.next) = {c \in DOMAIN d : d[c] = n}
  /\ \A c \in DOMAIN d : d[c] < n =>
       \A k \in 1..Len(Step8) : <<c, Shift(c, Step8[k])>> \in treads => Shift(c, Step8[k]) \in DOMAIN d

\* A wave takes the walk one further.
LEMMA WaveStands ==
  ASSUME NEW treads, NEW from, NEW w, NEW n \in Nat, NEW d, Stands(treads, from, w, n, d)
  PROVE  \E e : Stands(treads, from, Wave(treads, w), n + 1, e)
<1> DEFINE r == Wave(treads, w)
           e == [c \in DOMAIN r.prev |-> IF c \in DOMAIN w.prev THEN d[c] ELSE n + 1]
<1>1. /\ Spreads(treads, w, r)
      /\ \A at \in Range(w.next) : \A k \in 1..Len(Step8) :
           <<at, Shift(at, Step8[k])>> \in treads => Shift(at, Step8[k]) \in DOMAIN r.prev
  BY WaveSpreads DEF Stands
<1> HIDE DEF r
<1>2. /\ DOMAIN e = DOMAIN r.prev /\ DOMAIN d = DOMAIN w.prev /\ DOMAIN d \subseteq DOMAIN e
      /\ \A c \in DOMAIN d : e[c] = d[c] /\ r.prev[c] = w.prev[c]
      /\ \A c \in DOMAIN e \ DOMAIN d : e[c] = n + 1
  BY <1>1 DEF Stands, Spreads
<1> HIDE DEF e
<1>3. \A c \in DOMAIN d : d[c] \in Nat /\ d[c] <= n
  BY DEF Stands
<1>4. \A c \in DOMAIN e : e[c] \in Nat /\ e[c] <= n + 1
  BY <1>2, <1>3
<1>5. from \in DOMAIN e /\ r.prev[from] = from /\ e[from] = 0
  BY <1>2 DEF Stands
<1>6. ASSUME NEW c \in DOMAIN e \ {from}
      PROVE  r.prev[c] \in DOMAIN e /\ <<r.prev[c], c>> \in treads /\ e[c] = e[r.prev[c]] + 1
  <2>1. CASE c \in DOMAIN d
    BY <1>2, <1>6, <2>1 DEF Stands
  <2>2. CASE c \notin DOMAIN d
    <3>1. c \in Range(r.next)
      BY <1>1, <1>2, <2>2 DEF Spreads
    <3>2. r.prev[c] \in Range(w.next) /\ <<r.prev[c], c>> \in treads
      BY <1>1, <3>1 DEF Spreads
    <3>3. r.prev[c] \in DOMAIN d /\ d[r.prev[c]] = n
      BY <3>2 DEF Stands
    <3> QED BY <1>2, <2>2, <3>2, <3>3
  <2> QED BY <2>1, <2>2
<1>7. IsList(r.next) /\ Range(r.next) = {c \in DOMAIN e : e[c] = n + 1}
  <2>1. IsList(r.next) /\ Range(r.next) = DOMAIN e \ DOMAIN d
    BY <1>1, <1>2 DEF Spreads
  <2>2. \A c \in DOMAIN e : e[c] = n + 1 <=> c \notin DOMAIN d
    BY <1>2, <1>3
  <2> QED BY <2>1, <2>2
<1>8. ASSUME NEW c \in DOMAIN e, e[c] < n + 1, NEW k \in 1..Len(Step8), <<c, Shift(c, Step8[k])>> \in treads
      PROVE  Shift(c, Step8[k]) \in DOMAIN e
  <2>1. c \in DOMAIN d
    BY <1>2, <1>8
  <2>2. CASE d[c] < n
    <3>1. Shift(c, Step8[k]) \in DOMAIN d
      BY <1>8, <2>1, <2>2 DEF Stands
    <3> QED BY <1>2, <3>1
  <2>3. CASE d[c] = n
    <3>1. c \in Range(w.next)
      BY <2>1, <2>3 DEF Stands
    <3> QED BY <1>1, <1>2, <1>8, <3>1
  <2> QED BY <1>3, <2>1, <2>2, <2>3
<1>9. Stands(treads, from, r, n + 1, e)
  BY <1>2, <1>4, <1>5, <1>6, <1>7, <1>8 DEF Stands
<1> QED BY <1>9 DEF r

\* So stands every walk after all its waves.
LEMMA WalkedStands ==
  ASSUME NEW treads, NEW from, NEW budget \in Nat
  PROVE  \E d : Stands(treads, from, Walked(treads, from, budget), budget, d)
<1>1. PICK f : /\ f[0] = Outset(from)
               /\ \A k \in 1..budget : f[k] = Wave(treads, f[k - 1])
               /\ Walked(treads, from, budget) = f[budget]
  BY WalkedUnfold
<1> DEFINE Far(n) == \E d : Stands(treads, from, f[n], n, d)
           S == {n \in Nat : n <= budget => Far(n)}
<1>2. 0 \in S
  <2> DEFINE one == <<from>>
             d == [c \in {from} |-> 0]
  <2>1. IsList(one) /\ Range(one) = {from}
    <3>1. Len(one) = 1 /\ DOMAIN one = 1..1 /\ one = [i \in 1..1 |-> one[i]] /\ one[1] = from
      OBVIOUS
    <3> HIDE DEF one
    <3>2. IsList(one)
      BY <3>1, IsListOf
    <3> QED BY <3>1, <3>2 DEF Range
  <2> HIDE DEF one
  <2>2. f[0].prev = [c \in {from} |-> from] /\ f[0].next = one
    BY <1>1 DEF one, Outset
  <2>3. Stands(treads, from, f[0], 0, d)
    BY <2>1, <2>2 DEF Stands
  <2> QED BY <2>3
<1>3. ASSUME NEW n \in Nat, n \in S PROVE n + 1 \in S
  <2>1. SUFFICES ASSUME n + 1 <= budget PROVE Far(n + 1)
    OBVIOUS
  <2>2. n <= budget /\ n + 1 \in 1..budget /\ (n + 1) - 1 = n
    BY <2>1
  <2>3. PICK d : Stands(treads, from, f[n], n, d)
    BY <1>3, <2>2
  <2>4. f[n + 1] = Wave(treads, f[n])
    BY <1>1, <2>2
  <2> QED BY <2>3, <2>4, WaveStands
<1> HIDE DEF S
<1>4. Far(budget)
  <2>1. budget \in S /\ budget <= budget
    BY <1>2, <1>3, NatInduct
  <2> HIDE DEF Far
  <2> QED BY <2>1 DEF S
<1> QED BY <1>1, <1>4

\* A list with one more at its front.
LEMMA ListCons ==
  ASSUME NEW s, IsList(s), NEW e
  PROVE  /\ Len(<<e>> \o s) = Len(s) + 1 /\ (<<e>> \o s)[1] = e
         /\ \A i \in 1..Len(s) : (<<e>> \o s)[i + 1] = s[i]
<1> DEFINE one == <<e>>
           T == Range(s) \cup {e}
<1>1. s \in Seq(T) /\ Len(s) \in Nat
  <2> DEFINE R == Range(s)
  <2>1. s \in Seq(R) /\ R \subseteq T
    BY DEF IsList
  <2> HIDE DEF R, T
  <2> QED BY <2>1, ListFacts
<1>2. one \in Seq(T) /\ Len(one) = 1 /\ one[1] = e
  OBVIOUS
<1> HIDE DEF one, T
<1>3. /\ Len(one \o s) = Len(one) + Len(s)
      /\ \A i \in 1..(Len(one) + Len(s)) : (one \o s)[i] = IF i <= Len(one) THEN one[i] ELSE s[i - Len(one)]
  BY <1>1, <1>2, ConcatProperties
<1>4. \A i \in 1..Len(s) : (i + 1) \in 1..(Len(one) + Len(s)) /\ ~(i + 1 <= Len(one)) /\ (i + 1) - Len(one) = i
  BY <1>1, <1>2
<1>5. 1 \in 1..(Len(one) + Len(s)) /\ 1 <= Len(one)
  BY <1>1, <1>2
<1> QED BY <1>1, <1>2, <1>3, <1>4, <1>5 DEF one

\* The path to a tile from the path to where it was met.
Onward(prev, path, at) == IF prev[at] = at THEN <<>> ELSE Append(path[prev[at]], at)

\* Every tile but the origin is one further off than where it was met, and none is
\* further than n.
Rooted(prev, n, d) ==
  /\ DOMAIN d = DOMAIN prev
  /\ \A c \in DOMAIN d : d[c] \in Nat /\ d[c] <= n
  /\ \A c \in DOMAIN d : prev[c] = c \/ (prev[c] \in DOMAIN d /\ d[c] = d[prev[c]] + 1)

\* A path is the path to the tile before, and one more.
LEMMA PathUnfold ==
  ASSUME NEW prev, NEW n \in Nat, NEW d, Rooted(prev, n, d)
  PROVE  \A at \in DOMAIN prev :
           PathTo(prev, at) = IF prev[at] = at THEN <<>> ELSE Append(PathTo(prev, prev[at]), at)
<1> DEFINE Near(k) == {c \in DOMAIN prev : d[c] <= k}
           P(k, g) == g = [c \in Near(k) |-> Onward(prev, g, c)]
           S == {k \in Nat : \E g : P(k, g)}
<1>0. /\ DOMAIN d = DOMAIN prev
      /\ \A c \in DOMAIN prev : d[c] \in Nat /\ d[c] <= n
      /\ \A c \in DOMAIN prev : prev[c] = c \/ (prev[c] \in DOMAIN prev /\ d[c] = d[prev[c]] + 1)
  BY DEF Rooted
<1>1. 0 \in S
  <2> DEFINE g == [c \in Near(0) |-> <<>>]
  <2>1. \A c \in Near(0) : prev[c] = c
    BY <1>0
  <2>2. \A c \in Near(0) : Onward(prev, g, c) = g[c]
    BY <2>1 DEF Onward
  <2>3. g = [c \in Near(0) |-> g[c]]
    OBVIOUS
  <2> HIDE DEF g, Near
  <2>4. P(0, g)
    BY <2>2, <2>3
  <2> HIDE DEF P
  <2> QED BY <2>4
<1>2. ASSUME NEW k \in Nat, k \in S PROVE k + 1 \in S
  <2>1. PICK g : P(k, g)
    BY <1>2
  <2> DEFINE h == [c \in Near(k + 1) |-> Onward(prev, g, c)]
  <2>2. Near(k) \subseteq Near(k + 1)
    BY <1>0
  <2>3. \A c \in Near(k + 1) : prev[c] = c \/ prev[c] \in Near(k)
    BY <1>0
  <2> HIDE DEF Near
  <2>4. \A c \in Near(k) : h[c] = g[c]
    <3>1. ASSUME NEW c \in Near(k) PROVE h[c] = g[c]
      <4>1. g[c] = Onward(prev, g, c)
        BY <2>1
      <4>2. h[c] = Onward(prev, g, c)
        BY <2>2
      <4> QED BY <4>1, <4>2
    <3> QED BY <3>1
  <2>5. h = [c \in Near(k + 1) |-> h[c]] /\ \A c \in Near(k + 1) : h[c] = Onward(prev, g, c)
    OBVIOUS
  <2> HIDE DEF h
  <2>6. \A c \in Near(k + 1) : h[c] = Onward(prev, h, c)
    BY <2>3, <2>4, <2>5 DEF Onward
  <2>7. P(k + 1, h)
    BY <2>5, <2>6
  <2>8. k + 1 \in Nat
    OBVIOUS
  <2> HIDE DEF P
  <2> QED BY <2>7, <2>8
<1> HIDE DEF S
<1>3. n \in S
  BY <1>1, <1>2, NatInduct
<1>4. Near(n) = DOMAIN prev
  BY <1>0
<1> HIDE DEF Near
<1> DEFINE Q(g) == g = [c \in DOMAIN prev |-> Onward(prev, g, c)]
           path == CHOOSE g : Q(g)
<1>5. Q(path)
  <2>1. \E g : Q(g)
    BY <1>3, <1>4 DEF S
  <2> HIDE DEF Q
  <2> QED BY <2>1
<1>6. \A at : PathTo(prev, at) = IF at \in DOMAIN prev THEN path[at] ELSE <<>>
  BY DEF PathTo, Onward
<1> HIDE DEF path
<1>7. ASSUME NEW at \in DOMAIN prev
      PROVE  PathTo(prev, at) = IF prev[at] = at THEN <<>> ELSE Append(PathTo(prev, prev[at]), at)
  <2>1. path[at] = Onward(prev, path, at)
    BY <1>5
  <2> HIDE DEF Q
  <2> QED BY <1>0, <1>6, <2>1 DEF Onward
<1> QED BY <1>7

\* The path to a tile is as long as the tile is far, ends there, and goes by treads.
Trails(treads, from, path, at, far) ==
  /\ IsList(path) /\ Len(path) = far
  /\ (<<from>> \o path)[far + 1] = at
  /\ \A k \in 2..(far + 1) : <<(<<from>> \o path)[k - 1], (<<from>> \o path)[k]>> \in treads

\* The paths of a walk are trails.
LEMMA StandsTrails ==
  ASSUME NEW treads, NEW from, NEW w, NEW n \in Nat, NEW d, Stands(treads, from, w, n, d)
  PROVE  \A at \in DOMAIN d : Trails(treads, from, PathTo(w.prev, at), at, d[at])
<1>1. /\ DOMAIN d = DOMAIN w.prev /\ \A c \in DOMAIN d : d[c] \in Nat /\ d[c] <= n
      /\ from \in DOMAIN d /\ w.prev[from] = from /\ d[from] = 0
      /\ \A c \in DOMAIN d \ {from} :
           w.prev[c] \in DOMAIN d /\ <<w.prev[c], c>> \in treads /\ d[c] = d[w.prev[c]] + 1
  BY DEF Stands
<1>2. \A at \in DOMAIN d :
        PathTo(w.prev, at) = IF w.prev[at] = at THEN <<>> ELSE Append(PathTo(w.prev, w.prev[at]), at)
  <2>1. Rooted(w.prev, n, d)
    BY <1>1 DEF Rooted
  <2> QED BY <1>1, <2>1, PathUnfold
<1> DEFINE path(at) == PathTo(w.prev, at)
           S == {k \in Nat : \A at \in DOMAIN d : d[at] = k => Trails(treads, from, path(at), at, k)}
<1>3. 0 \in S
  <2>1. ASSUME NEW at \in DOMAIN d, d[at] = 0 PROVE Trails(treads, from, path(at), at, 0)
    <3>1. at = from
      <4>1. SUFFICES ASSUME at # from PROVE FALSE
        OBVIOUS
      <4>2. w.prev[at] \in DOMAIN d /\ d[at] = d[w.prev[at]] + 1 /\ d[w.prev[at]] \in Nat
        BY <1>1, <4>1
      <4> QED BY <2>1, <4>2
    <3> DEFINE p == path(at)
    <3>2. p = <<>>
      BY <1>1, <1>2, <3>1
    <3>3. IsList(p) /\ Len(p) = 0
      BY <3>2, EmptyList
    <3> HIDE DEF p
    <3>4. (<<from>> \o p)[1] = from
      BY <3>3, ListCons
    <3>5. Trails(treads, from, p, at, 0)
      BY <3>1, <3>3, <3>4 DEF Trails
    <3> QED BY <3>5 DEF p
  <2> QED BY <2>1
<1>4. ASSUME NEW k \in Nat, k \in S PROVE k + 1 \in S
  <2>1. ASSUME NEW at \in DOMAIN d, d[at] = k + 1 PROVE Trails(treads, from, path(at), at, k + 1)
    <3> DEFINE b == w.prev[at]
               p == path(b)
               q == path(at)
    <3>1. at # from /\ b \in DOMAIN d /\ <<b, at>> \in treads /\ d[b] = k /\ b # at
      BY <1>1, <2>1
    <3>2. q = Append(p, at)
      BY <1>2, <3>1
    <3>3. Trails(treads, from, p, b, k)
      BY <1>4, <3>1
    <3> HIDE DEF p, q, b
    <3>4. /\ IsList(p) /\ Len(p) = k /\ (<<from>> \o p)[k + 1] = b
          /\ \A j \in 2..(k + 1) : <<(<<from>> \o p)[j - 1], (<<from>> \o p)[j]>> \in treads
      BY <3>3 DEF Trails
    <3>5. IsList(q) /\ Len(q) = k + 1 /\ q[k + 1] = at /\ \A i \in 1..k : q[i] = p[i]
      BY <3>2, <3>4, ListAppend
    <3> DEFINE pp == <<from>> \o p
               qq == <<from>> \o q
    <3>6. pp[1] = from /\ \A i \in 1..k : pp[i + 1] = p[i]
      BY <3>4, ListCons
    <3>7. qq[1] = from /\ \A i \in 1..(k + 1) : qq[i + 1] = q[i]
      BY <3>5, ListCons
    <3>8. \A j \in 2..(k + 1) : <<pp[j - 1], pp[j]>> \in treads
      BY <3>4
    <3>9. pp[k + 1] = b
      BY <3>4
    <3> HIDE DEF pp, qq
    <3>10. \A i \in 1..(k + 1) : qq[i] = pp[i]
      <4>1. ASSUME NEW i \in 1..(k + 1) PROVE qq[i] = pp[i]
        <5>1. CASE i = 1
          BY <3>6, <3>7, <5>1
        <5>2. CASE i # 1
          <6>1. i - 1 \in 1..k /\ i - 1 \in 1..(k + 1) /\ (i - 1) + 1 = i
            BY <5>2
          <6> QED BY <3>5, <3>6, <3>7, <6>1
        <5> QED BY <5>1, <5>2
      <4> QED BY <4>1
    <3>11. qq[(k + 1) + 1] = at
      BY <3>5, <3>7
    <3>12. ASSUME NEW j \in 2..((k + 1) + 1) PROVE <<qq[j - 1], qq[j]>> \in treads
      <4>1. CASE j \in 2..(k + 1)
        <5>1. j \in 1..(k + 1) /\ j - 1 \in 1..(k + 1)
          BY <4>1
        <5> QED BY <3>8, <3>10, <4>1, <5>1
      <4>2. CASE j = (k + 1) + 1
        <5>1. j - 1 = k + 1 /\ k + 1 \in 1..(k + 1)
          BY <4>2
        <5> QED BY <3>1, <3>9, <3>10, <3>11, <4>2, <5>1
      <4> QED BY <4>1, <4>2
    <3>13. Trails(treads, from, q, at, k + 1)
      BY <3>5, <3>11, <3>12 DEF Trails, qq
    <3> QED BY <3>13 DEF q
  <2>2. k + 1 \in Nat
    OBVIOUS
  <2> QED BY <2>1, <2>2
<1> HIDE DEF S
<1>5. Nat \subseteq S
  BY <1>3, <1>4, NatInduct
<1> QED BY <1>1, <1>5 DEF S

\* The neighbours of a tile are those at distance one.
LEMMA Neighbours ==
  ASSUME NEW a \in Int \X Int, NEW b \in Int \X Int
  PROVE  Distance(a, b) = 1 <=> \E k \in 1..Len(Step8) : b = Shift(a, Step8[k])
<1> DEFINE x == a[1] - b[1]
           y == a[2] - b[2]
           X == Abs(x)
           Y == Abs(y)
<1>1. x \in Int /\ y \in Int /\ b = <<a[1] - x, a[2] - y>> /\ a[1] \in Int /\ a[2] \in Int
  OBVIOUS
<1>2. Distance(a, b) = Max({X, Y})
  BY DEF Distance
<1> HIDE DEF x, y
<1>3. /\ X \in Nat /\ Y \in Nat
      /\ X <= 1 <=> x \in {-1, 0, 1}
      /\ Y <= 1 <=> y \in {-1, 0, 1}
      /\ X = 0 <=> x = 0
      /\ Y = 0 <=> y = 0
  BY <1>1 DEF Abs
<1> HIDE DEF X, Y
<1>4. Max({X, Y}) \in {X, Y} /\ Max({X, Y}) >= X /\ Max({X, Y}) >= Y
  <2>1. X \in Int /\ Y \in Int
    BY <1>3
  <2> QED BY <2>1, MaxOfTwo
<1>5. Distance(a, b) = 1 <=> x \in {-1, 0, 1} /\ y \in {-1, 0, 1} /\ ~(x = 0 /\ y = 0)
  <2> DEFINE M == Max({X, Y})
  <2>1. M \in {X, Y} /\ M >= X /\ M >= Y
    BY <1>4
  <2> HIDE DEF M
  <2>2. M = 1 <=> X <= 1 /\ Y <= 1 /\ ~(X = 0 /\ Y = 0)
    BY <1>3, <2>1
  <2> QED BY <1>2, <1>3, <2>2 DEF M
<1>6. (\E k \in 1..Len(Step8) : b = Shift(a, Step8[k])) <=>
        x \in {-1, 0, 1} /\ y \in {-1, 0, 1} /\ ~(x = 0 /\ y = 0)
  <2>1. Len(Step8) = 8
    BY DEF Step8
  <2>2. \A k \in 1..8 : b = Shift(a, Step8[k]) <=> x = -(Step8[k][1]) /\ y = -(Step8[k][2])
    <3>1. \A k \in 1..8 : Step8[k][1] \in Int /\ Step8[k][2] \in Int
      BY DEF Step8
    <3> QED BY <1>1, <3>1, SMTT(60) DEF Shift
  <2>3. /\ Step8[1] = <<1, 0>> /\ Step8[2] = <<-1, 0>> /\ Step8[3] = <<0, 1>> /\ Step8[4] = <<0, -1>>
        /\ Step8[5] = <<1, 1>> /\ Step8[6] = <<1, -1>> /\ Step8[7] = <<-1, 1>> /\ Step8[8] = <<-1, -1>>
    BY DEF Step8
  <2>4. \A k \in 1..8 : k \in {1, 2, 3, 4, 5, 6, 7, 8}
    OBVIOUS
  <2>5. ASSUME NEW k \in 1..8, b = Shift(a, Step8[k])
        PROVE  x \in {-1, 0, 1} /\ y \in {-1, 0, 1} /\ ~(x = 0 /\ y = 0)
    BY <1>1, <2>2, <2>3, <2>4, <2>5
  <2>6. ASSUME x \in {-1, 0, 1}, y \in {-1, 0, 1}, ~(x = 0 /\ y = 0)
        PROVE  \E k \in 1..8 : b = Shift(a, Step8[k])
    <3>1. \E k \in 1..8 : x = -(Step8[k][1]) /\ y = -(Step8[k][2])
      BY <1>1, <2>3, <2>6
    <3> QED BY <2>2, <3>1
  <2> QED BY <2>1, <2>5, <2>6
<1> QED BY <1>5, <1>6

\* The code's condition on a tread is the one a step of a walk has to meet.
LEMMA TreadSteps ==
  ASSUME NEW m, IsDocument(m), NEW id, NEW c, NEW to
  PROVE  /\ <<c, to>> \in Treads(m, id) => c \in Cells(m) /\ to \in Cells(m)
         /\ c \in Cells(m) /\ to \in Cells(m) =>
              (Steps(m, id, c, to) <=> <<c, to>> \in Treads(m, id))
         /\ <<c, to>> \in Treads(m, id) => \E k \in 1..Len(Step8) : to = Shift(c, Step8[k])
<1>1. <<c, to>> \in Treads(m, id) <=>
        c \in Cells(m) /\ (\E k \in 1..Len(Step8) : to = Shift(c, Step8[k])) /\ Enterable(m, c, to, id)
  <2>1. DOMAIN Step8 = 1..Len(Step8)
    BY DEF Step8
  <2> DEFINE all == {<<a, Shift(a, Step8[k])>> : a \in Cells(m), k \in DOMAIN Step8}
  <2>2. <<c, to>> \in all <=> c \in Cells(m) /\ (\E k \in DOMAIN Step8 : to = Shift(c, Step8[k]))
    OBVIOUS
  <2>3. Treads(m, id) = {step \in all : Enterable(m, step[1], step[2], id)}
    BY DEF Treads
  <2> HIDE DEF all
  <2> QED BY <2>1, <2>2, <2>3
<1>2. Enterable(m, c, to, id) => to \in Cells(m)
  BY DEF Enterable, InBounds
<1>3. ASSUME c \in Cells(m), to \in Cells(m)
      PROVE  Steps(m, id, c, to) <=> <<c, to>> \in Treads(m, id)
  <2>1. c \in Int \X Int /\ to \in Int \X Int
    BY <1>3 DEF Cells, IsDocument
  <2>2. Distance(c, to) = 1 <=> \E k \in 1..Len(Step8) : to = Shift(c, Step8[k])
    BY <2>1, Neighbours
  <2>3. m.elevation[c] \in Nat /\ m.elevation[to] \in Nat /\ m.ground[to] \in 0..(Len(m.kinds) - 1)
    BY <1>3 DEF IsDocument
  <2> DEFINE up == m.elevation[to]
             down == m.elevation[c]
             g == m.ground[to]
  <2>4. up - down \in -2..1 <=> Climbs(m, c, to)
    <3>1. up \in Nat /\ down \in Nat
      BY <2>3
    <3>2. Climbs(m, c, to) <=> up <= down + 1 /\ down <= up + 2
      BY DEF Climbs, StepUp, StepDown
    <3> HIDE DEF up, down
    <3> QED BY <3>1, <3>2
  <2>5. KindName(m, g) \notin {"empty", "water"} <=> g # 0 /\ KindName(m, g) \notin Impassable
    <3>1. Len(m.kinds) \in Nat /\ DOMAIN m.kinds = 1..Len(m.kinds)
      BY ListFacts DEF IsDocument
    <3>2. \A n \in 1..Len(m.kinds) : m.kinds[n] = "empty" <=> n = 1
      BY <3>1 DEF IsDocument
    <3>3. g \in Nat /\ g < Len(m.kinds) /\ g + 1 \in 1..Len(m.kinds) /\ (g + 1 = 1 <=> g = 0)
      BY <2>3, <3>1
    <3> HIDE DEF g
    <3>4. KindName(m, g) = m.kinds[g + 1]
      BY <3>3 DEF KindName
    <3>5. KindName(m, g) = "empty" <=> g = 0
      BY <3>2, <3>3, <3>4
    <3> QED BY <3>5 DEF Impassable
  <2>6. Steps(m, id, c, to) <=>
          /\ Distance(c, to) = 1 /\ up - down \in -2..1 /\ KindName(m, g) \notin {"empty", "water"}
          /\ \A t \in Range(m.tokens) : t.at = to => t.id = id
    BY DEF Steps
  <2>7. Enterable(m, c, to, id) <=>
          /\ g # 0 /\ KindName(m, g) \notin Impassable /\ Climbs(m, c, to)
          /\ \A t \in Range(m.tokens) : t.at = to => t.id = id
    BY <1>3 DEF Enterable, InBounds
  <2> HIDE DEF up, down, g
  <2> QED BY <1>1, <1>3, <2>2, <2>4, <2>5, <2>6, <2>7
<1> QED BY <1>1, <1>2, <1>3

\* Nobody's speed is below zero.
LEMMA SpeedNat ==
  ASSUME NEW m, IsDocument(m), NEW id
  PROVE  EffectiveMobility(m, id, Defaults)[1] \in Nat
<1>1. CASE id \in DOMAIN m.mobility
  BY <1>1 DEF IsDocument, EffectiveMobility
<1>2. CASE id \notin DOMAIN m.mobility
  <2> DEFINE sheet == Get(m.sheets, id, <<>>)
             n == Get(sheet, "speed", Defaults[1])
  <2>1. EffectiveMobility(m, id, Defaults)[1] = Max({n, 0})
    BY <1>2 DEF EffectiveMobility
  <2>2. n \in Int
    <3>1. Defaults[1] \in Int
      BY DEF Defaults
    <3>2. CASE id \in DOMAIN m.sheets
      <4>1. sheet = m.sheets[id] /\ IsSheet(m.sheets[id])
        BY <3>2 DEF Get, IsDocument
      <4> HIDE DEF sheet
      <4> QED BY <3>1, <4>1 DEF Get, IsSheet
    <3>3. CASE id \notin DOMAIN m.sheets
      <4>1. sheet = <<>>
        BY <3>3 DEF Get
      <4>2. "speed" \notin DOMAIN sheet
        BY <4>1, EmptyList
      <4> HIDE DEF sheet
      <4> QED BY <3>1, <4>2 DEF Get
    <3> QED BY <3>2, <3>3
  <2> HIDE DEF n
  <2>3. Max({n, 0}) \in {n, 0} /\ Max({n, 0}) >= n /\ Max({n, 0}) >= 0
    BY <2>2, MaxOfTwo
  <2> DEFINE top == Max({n, 0})
  <2>4. top \in {n, 0} /\ top >= 0
    BY <2>3
  <2> HIDE DEF top
  <2>5. top \in Nat
    BY <2>2, <2>4
  <2> QED BY <2>1, <2>5 DEF top
<1> QED BY <1>1, <1>2

\* A reach that is up to date is a walk of the token's speed.
LEMMA WalksHere ==
  ASSUME IInv
  PROVE  WalksFit
<1> DEFINE m == ui.map
           id == ui.token
           here == TokenOf(ui.map, ui.token).at
           speed == EffectiveMobility(ui.map, ui.token, Defaults)[1]
           T == Treads(m, id)
           w == Walked(T, here, speed)
           walk(at) == <<here>> \o PathTo(ui.reach, at)
<1> SUFFICES ASSUME ~opened.reach, ui.reach # <<>>
             PROVE  \A at \in DOMAIN ui.reach :
                      /\ Len(walk(at)) <= speed + 1
                      /\ \A n \in 2..Len(walk(at)) : Steps(ui.map, ui.token, walk(at)[n - 1], walk(at)[n])
                      /\ Len(walk(at)) <= speed =>
                           \A c \in Cells(ui.map) : Steps(ui.map, ui.token, at, c) => c \in DOMAIN ui.reach
  BY DEF WalksFit
<1>1. IsDocument(m) /\ ui.reach = ReachOf(ui, ui.token)
  BY DEF IInv, Sound
<1>2. ui.reach = Reachable(m, here, speed, id)
  BY <1>1 DEF ReachOf
<1>3. here \in Cells(m) /\ ui.reach = w.prev
  BY <1>2 DEF Reachable, InBounds
<1>4. speed \in Nat
  BY <1>1, SpeedNat
<1> HIDE DEF speed, here, id, w, m
<1>5. PICK d : Stands(T, here, w, speed, d)
  BY <1>4, WalkedStands DEF w
<1>6. /\ DOMAIN d = DOMAIN ui.reach /\ \A c \in DOMAIN d : d[c] \in Nat /\ d[c] <= speed
      /\ \A c \in DOMAIN d \ {here} : <<w.prev[c], c>> \in T
      /\ \A c \in DOMAIN d : d[c] < speed =>
           \A k \in 1..Len(Step8) : <<c, Shift(c, Step8[k])>> \in T => Shift(c, Step8[k]) \in DOMAIN d
  BY <1>3, <1>5 DEF Stands
<1>7. \A at \in DOMAIN d : Trails(T, here, PathTo(ui.reach, at), at, d[at])
  BY <1>3, <1>4, <1>5, StandsTrails
<1>8. \A at \in DOMAIN d : at \in Cells(m)
  BY <1>1, <1>3, <1>6, TreadSteps
<1>9. ASSUME NEW at \in DOMAIN ui.reach
      PROVE  /\ Len(walk(at)) <= speed + 1
             /\ \A n \in 2..Len(walk(at)) : Steps(m, id, walk(at)[n - 1], walk(at)[n])
             /\ Len(walk(at)) <= speed =>
                  \A c \in Cells(m) : Steps(m, id, at, c) => c \in DOMAIN ui.reach
  <2> DEFINE p == PathTo(ui.reach, at)
             q == <<here>> \o p
             far == d[at]
  <2>1. Trails(T, here, p, at, far) /\ far \in Nat /\ far <= speed
    BY <1>6, <1>7
  <2> HIDE DEF p, far
  <2>2. IsList(p) /\ Len(p) = far
    BY <2>1 DEF Trails
  <2>3. Len(q) = far + 1
    BY <2>2, ListCons
  <2>4. \A n \in 2..(far + 1) : <<q[n - 1], q[n]>> \in T
    BY <2>1 DEF Trails
  <2>5. walk(at) = q
    BY DEF p
  <2> HIDE DEF q
  <2>6. ASSUME NEW n \in 2..(far + 1) PROVE Steps(m, id, q[n - 1], q[n])
    BY <1>1, <2>4, TreadSteps
  <2>7. ASSUME far + 1 <= speed, NEW c \in Cells(m), Steps(m, id, at, c) PROVE c \in DOMAIN ui.reach
    <3>1. at \in Cells(m) /\ far < speed
      BY <1>4, <1>6, <1>8, <2>1, <2>7
    <3>2. <<at, c>> \in T
      BY <1>1, <2>7, <3>1, TreadSteps
    <3>3. PICK k \in 1..Len(Step8) : c = Shift(at, Step8[k])
      BY <1>1, <3>2, TreadSteps
    <3> QED BY <1>6, <3>1, <3>2, <3>3 DEF far
  <2> HIDE DEF T, walk
  <2> QED BY <1>4, <2>1, <2>3, <2>5, <2>6, <2>7
<1> QED BY <1>9 DEF m, id

-----------------------------------------------------------------------------
(* The theorems *)

\* The invariant says what the history must.
LEMMA UndoHere ==
  ASSUME IInv
  PROVE  UndoRestores
<1> SUFFICES ASSUME ~Sends(ui)
             PROVE  /\ Laid(Unwound(ui)) = Laid(opened.doc)
                    /\ ui.undo # <<>> => Laid(Redo(Undo(ui)).map) = Laid(ui.map)
  BY DEF UndoRestores
<1>1. Laid(Unwound(ui)) = Laid(opened.doc)
  BY BoardWalk DEF IInv
<1>2. ASSUME ui.undo # <<>> PROVE Laid(Redo(Undo(ui)).map) = Laid(ui.map)
  BY <1>2, UndoneAgain, BoardWalk DEF IInv
<1> QED BY <1>1, <1>2

\* Where the fog is up to date, what is drawn is what the viewer sees.
LEMMA FogHere ==
  ASSUME IInv
  PROVE  FogFollows
<1> SUFFICES ASSUME ~opened.fog, ui.viewer # NoOne
             PROVE  LET drawn == Picture(ui, AllShown, {})
                        shown == {d[1] : d \in drawn.tokens} \cup {TokenOf(ui.map, id) : id \in drawn.markers}
                    IN  /\ \A t \in shown : Commands(ui, t.owner) \/ t.at \in Sees(ui)
                        /\ \A at \in DOMAIN drawn.tiles : "shroud" \in drawn.tiles[at][2] \/ at \in Sees(ui)
  BY DEF FogFollows
<1> DEFINE drawn == Picture(ui, AllShown, {})
           shown == {d[1] : d \in drawn.tokens} \cup {TokenOf(ui.map, id) : id \in drawn.markers}
<1>1. ui.visible = Sees(ui)
  BY DEF IInv, Lit
<1>2. /\ drawn.tokens = {<<t, TokenMarks(ui, t)>> : t \in DrawnTokens(ui)}
      /\ drawn.markers = Markers(ui)
      /\ drawn.tiles = [c \in DrawnGround(ui, AllShown) |-> <<Column(ui, c), TileMarks(ui, c, {})>>]
  BY DEF Picture
<1> HIDE DEF drawn
<1>3. ASSUME NEW t \in shown PROVE Commands(ui, t.owner) \/ t.at \in Sees(ui)
  <2>1. t \in DrawnTokens(ui) \/ \E id \in Markers(ui) : t = TokenOf(ui.map, id)
    BY <1>2, <1>3
  <2>2. TokenVisible(ui, t)
    BY <2>1 DEF DrawnTokens, Markers
  <2> QED BY <1>1, <2>2 DEF TokenVisible
<1>4. ASSUME NEW at \in DOMAIN drawn.tiles PROVE "shroud" \in drawn.tiles[at][2] \/ at \in Sees(ui)
  <2>1. at \in DrawnGround(ui, AllShown) /\ drawn.tiles[at][2] = TileMarks(ui, at, {})
    BY <1>2, <1>4
  <2>2. FogLevel(ui, at) # "hidden"
    BY <2>1 DEF DrawnGround
  <2>3. CASE at \in ui.visible
    BY <1>1, <2>3
  <2>4. CASE at \notin ui.visible
    <3>1. FogLevel(ui, at) = "dim"
      BY <2>2, <2>4 DEF FogLevel
    <3> QED BY <2>1, <3>1 DEF TileMarks
  <2> QED BY <2>3, <2>4
<1> QED BY <1>3, <1>4 DEF drawn

\* What holds in every state the table reaches, and of every step it takes.
LEMMA Always == Spec => []IInv /\ [][Tidy]_vars
<1>1. Init => IInv
  BY InitKeeps
<1>2. IInv /\ [Next]_vars => IInv'
  BY NextKeeps
<1>3. IInv /\ [Next]_vars => [Tidy]_vars
  BY NextKeeps
<1> QED BY <1>1, <1>2, <1>3, PTL DEF Spec

\* Undoing everything brings back the board as it was opened, whatever was painted,
\* filled, raised, placed, walked or removed since, and what was just undone can be
\* done again: for every board, every sitting and every length of history
\* (interaction.rs:112-163).
THEOREM UndoSafe == Spec => []UndoRestores
<1>1. IInv => UndoRestores
  BY UndoHere
<1> QED BY <1>1, Always, PTL

\* A player is shown no token of others, no marker on one and no tile out of the
\* shroud but where the player's own tokens see from where they stand now: no
\* handler leaves a fog behind that was right before it (session.rs:189-228).
THEOREM FogSafe == Spec => []FogFollows
<1>1. IInv => FogFollows
  BY FogHere
<1> QED BY <1>1, Always, PTL

\* The highlighted reach is the selected token's own from where it stands, after
\* every handler that changes one of the two (interaction.rs:189-213).
THEOREM ReachSafe == Spec => []ReachHolds
<1>1. IInv => ReachHolds
  BY DEF IInv, ReachHolds
<1> QED BY <1>1, Always, PTL

\* The highlighted tiles are exactly those a walk within the token's speed reaches,
\* and the previewed path is such a walk, on a board of any size (path.rs:45-113).
THEOREM WalkSafe == Spec => []WalksFit
<1>1. IInv => WalksFit
  BY WalksHere
<1> QED BY <1>1, Always, PTL

\* Whoever is up stays up when another token leaves the turn order, whichever way
\* it leaves (turn.rs:66-78); in a session, unless an initiative sets a new order.
THEOREM TurnSafe == Spec => TurnKept
<1>1. [Tidy]_vars =>
        [IF ~Sends(ui) THEN ShrinkKeeps(ui.turns, ui'.turns)
         ELSE \/ ShrinkKeeps(game.turns, game'.turns)
              \/ \E e \in Foreign \cup Range(wire) :
                   e.kind = "TurnSetOrder" /\ game'.turns = SetOrder(e.order)]_vars
  BY DEF Tidy
<1> QED BY <1>1, Always, PTL DEF TurnKept

\* A token put on the board never takes an id of one on a stored map, nor one
\* whose things are still held (interaction.rs:165-181).
THEOREM IdsSafe == Spec => FreshIds
<1>1. [Tidy]_vars => [Len(ui'.undo) > Len(ui.undo) => (Ids(ui'.map) \ Ids(ui.map)) \cap ui.held = {}]_vars
  BY DEF Tidy
<1> QED BY <1>1, Always, PTL DEF FreshIds

\* In a session no handler but the loading of a file changes the board ahead of
\* the host (interaction.rs:309-421, session.rs:303-310).
THEOREM RemoteSafe == Spec => RemoteFollows
<1>1. [Tidy]_vars =>
        [Sends(ui) /\ Laid(ui'.map) # Laid(ui.map) =>
           Laid(ui'.map) = Laid(game.map) \/ ClickLoad]_vars
  BY DEF Tidy
<1> QED BY <1>1, Always, PTL DEF RemoteFollows
=============================================================================
