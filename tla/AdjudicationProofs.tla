------------------------- MODULE AdjudicationProofs -------------------------
(***************************************************************************)
(* Proofs about the road of an ask and of a verdict (Adjudication): its    *)
(* type invariant, that every ask is held once and in order, that the      *)
(* mirror settles on the session's board, and that one pass of rulings     *)
(* respects the cap.                                                       *)
(***************************************************************************)
EXTENDS Adjudication, Induction, SequenceTheorems

-----------------------------------------------------------------------------
(* The asks that updates bring *)

\* AsksOf is what its recursive definition says, step by step.
LEMMA AsksStepwise ==
  ASSUME NEW us \in Seq(Update)
  PROVE  \E f : /\ f \in [0..Len(us) -> Seq(Asking)]
                /\ f[0] = <<>>
                /\ \A n \in 1..Len(us) : f[n] = f[n - 1] \o Told(us[n])
                /\ AsksOf(us) = f[Len(us)]
<1> DEFINE h == [n \in 1..Len(us) |-> [x \in Seq(Asking) |-> x \o Told(us[n])]]
           upTo[n \in 0..Len(us)] == IF n = 0 THEN <<>> ELSE upTo[n - 1] \o Told(us[n])
<1>1. \A n \in 1..Len(us) : Told(us[n]) \in Seq(Asking)
  BY DEF Update, Told
<1>2. AsksOf(us) = upTo[Len(us)]
  BY DEF AsksOf
<1>3. h \in StepsTo(Len(us), Seq(Asking))
  BY <1>1 DEF StepsTo
<1>4. \A n \in 1..Len(us) : \A x \in Seq(Asking) : h[n][x] = x \o Told(us[n])
  OBVIOUS
<1>5. <<>> \in Seq(Asking) /\ Len(us) \in Nat
  OBVIOUS
<1> HIDE DEF h
<1>6. PICK f : f = [k \in 0..Len(us) |-> IF k = 0 THEN <<>> ELSE h[k][f[k - 1]]]
               /\ f \in [0..Len(us) -> Seq(Asking)]
  BY <1>3, <1>5, RecUpTo
<1>7. ASSUME NEW n \in 1..Len(us)
      PROVE  f[n] = f[n - 1] \o Told(us[n])
  <2>1. n - 1 \in 0..Len(us) /\ n \in 0..Len(us) /\ n # 0
    BY <1>5
  <2>2. f[n - 1] \in Seq(Asking)
    BY <1>6, <2>1
  <2>3. f[n] = h[n][f[n - 1]]
    BY <1>6, <2>1
  <2> QED BY <1>4, <2>2, <2>3
<1>8. f = [n \in 0..Len(us) |-> IF n = 0 THEN <<>> ELSE f[n - 1] \o Told(us[n])]
  <2> DEFINE F == [n \in 0..Len(us) |-> IF n = 0 THEN <<>> ELSE f[n - 1] \o Told(us[n])]
  <2>1. f[0] = <<>>
    BY <1>5, <1>6
  <2>2. ASSUME NEW n \in 0..Len(us) PROVE f[n] = F[n]
    <3>1. CASE n = 0
      BY <2>1, <3>1
    <3>2. CASE n # 0
      <4>1. n \in 1..Len(us)
        BY <1>5, <3>2
      <4> QED BY <1>7, <3>2, <4>1
    <3> QED BY <3>1, <3>2
  <2>3. /\ DOMAIN f = 0..Len(us) /\ f = [n \in DOMAIN f |-> f[n]]
        /\ DOMAIN F = 0..Len(us) /\ F = [n \in DOMAIN F |-> F[n]]
    BY <1>6
  <2> HIDE DEF F
  <2>4. f = F
    BY <2>2, <2>3
  <2> QED BY <2>4 DEF F
<1>9. upTo = [n \in 0..Len(us) |-> IF n = 0 THEN <<>> ELSE upTo[n - 1] \o Told(us[n])]
  BY <1>8
<1> HIDE DEF upTo
<1>10. \A n \in 0..Len(us) : f[n] = upTo[n]
  <2>1. f[0] = upTo[0]
    BY <1>5, <1>8, <1>9
  <2>2. ASSUME NEW n \in 1..Len(us), f[n - 1] = upTo[n - 1] PROVE f[n] = upTo[n]
    <3>1. n \in 0..Len(us) /\ n # 0
      BY <1>5
    <3>2. upTo[n] = upTo[n - 1] \o Told(us[n])
      BY <1>9, <3>1
    <3> QED BY <1>7, <2>2, <3>2
  <2>3. \A n \in 1..Len(us) : f[n - 1] = upTo[n - 1] => f[n] = upTo[n]
    BY <2>2
  <2>4. Len(us) \in Nat
    BY <1>5
  <2> DEFINE len == Len(us)
  <2>5. len \in Nat /\ \A n \in 1..len : f[n - 1] = upTo[n - 1] => f[n] = upTo[n]
    BY <2>3, <2>4
  <2> HIDE DEF len
  <2>6. \A n \in 0..len : f[n] = upTo[n]
    BY ONLY <2>1, <2>5, RecAgree, SMTT(60)
  <2> QED BY <2>6 DEF len
<1>11. AsksOf(us) = f[Len(us)]
  BY <1>2, <1>5, <1>10
<1>12. f[0] = <<>>
  BY <1>5, <1>8
<1> QED BY <1>6, <1>7, <1>11, <1>12

\* No update brings no asks, and one more update brings its own after the rest.
LEMMA AsksType == ASSUME NEW us \in Seq(Update) PROVE AsksOf(us) \in Seq(Asking)
<1>1. Len(us) \in 0..Len(us)
  OBVIOUS
<1> QED BY <1>1, AsksStepwise

LEMMA AsksNone == AsksOf(<<>>) = <<>>
<1>1. <<>> \in Seq(Update) /\ Len(<<>>) = 0
  OBVIOUS
<1> QED BY <1>1, AsksStepwise

LEMMA AsksAppend ==
  ASSUME NEW us \in Seq(Update), NEW u \in Update
  PROVE  AsksOf(Append(us, u)) = AsksOf(us) \o Told(u)
<1> DEFINE vs == Append(us, u)
           n == Len(us)
<1>1. vs \in Seq(Update) /\ Len(vs) = n + 1 /\ n \in Nat
  OBVIOUS
<1>2. vs[n + 1] = u /\ \A i \in 1..n : vs[i] = us[i]
  OBVIOUS
<1> HIDE DEF vs
<1>3. PICK f : /\ f[0] = <<>> /\ \A k \in 1..n : f[k] = f[k - 1] \o Told(us[k])
               /\ AsksOf(us) = f[n]
  BY AsksStepwise
<1>4. PICK g : /\ g[0] = <<>> /\ \A k \in 1..Len(vs) : g[k] = g[k - 1] \o Told(vs[k])
               /\ AsksOf(vs) = g[Len(vs)]
  BY <1>1, AsksStepwise
<1> HIDE DEF n
<1>5. \A k \in 0..n : f[k] = g[k]
  <2>1. ASSUME NEW k \in 1..n, f[k - 1] = g[k - 1] PROVE f[k] = g[k]
    <3>1. k \in 1..Len(vs)
      BY <1>1
    <3>2. f[k] = f[k - 1] \o Told(us[k])
      BY <1>3
    <3>3. g[k] = g[k - 1] \o Told(us[k])
      BY <1>2, <1>4, <3>1
    <3> QED BY <2>1, <3>2, <3>3
  <2>2. n \in Nat /\ f[0] = g[0]
    BY <1>1, <1>3, <1>4
  <2>3. \A k \in 1..n : f[k - 1] = g[k - 1] => f[k] = g[k]
    BY <2>1
  <2> QED BY ONLY <2>2, <2>3, RecAgree, SMTT(60)
<1>6. g[n + 1] = g[n] \o Told(u)
  <2>1. n + 1 \in 1..Len(vs) /\ (n + 1) - 1 = n
    BY <1>1
  <2> QED BY <1>2, <1>4, <2>1
<1>7. f[n] = g[n]
  BY <1>1, <1>5
<1> QED BY <1>1, <1>3, <1>4, <1>6, <1>7 DEF vs

-----------------------------------------------------------------------------
(* The inductive invariants *)

Places(us) == {i \in DOMAIN us : us[i].kind = "State"}

\* A snapshot on its way is of the session as it is or as it was, later ones
\* of later sessions, and all later than the one the mirror shows.
InOrder ==
  /\ \A i \in Places(updates) :
       /\ mirrored <= updates[i].at /\ updates[i].at <= seq
       /\ updates[i].at = seq => updates[i].board = host
  /\ \A i, j \in Places(updates) : i < j => updates[i].at <= updates[j].at

\* With no verdict on its way, a mirror of the session as it is is the session.
Shows ==
  /\ mirrored <= seq
  /\ mirrored = seq /\ outbox = <<>> /\ commands = <<>> /\ batch = <<>> => view = host

\* What run_host counted has happened, and unless it is about to emit or the
\* players have changed since, a snapshot of what it counted has left.
Reported ==
  /\ lastSeq <= seq /\ lastNames \subseteq names
  /\ step # "commit" => batch = <<>>
  /\ step \in {"ready", "count"} /\ names = {} => seq = 0
  /\ step \in {"drain", "commit", "intents", "notice"} /\ lastNames = names =>
       lastSeq <= mirrored \/ \E i \in Places(updates) : lastSeq <= updates[i].at

Flow == InOrder /\ Shows /\ Reported

\* The rulings of a pass are folded into the mirror as they will be committed,
\* and within the cap.
Folded ==
  /\ After(base, outbox).owner = view.owner
  /\ \A p \in Player : Owned(view, p) <= PartyCap \/ Owned(view, p) <= Owned(base, p)

-----------------------------------------------------------------------------
(* Type correctness *)

\* Passing the turn lands on some entry of the order.
LEMMA TurnsInRange ==
  ASSUME NEW b \in Board, Order # <<>>
  PROVE  Turns(b) \in 1..Len(Order)
<1> DEFINE S == {k \in 1..Len(Order) : Up(b, k) \/ k = Len(Order)}
<1>1. Len(Order) \in Nat \ {0}
  BY OrderAssumption
<1>2. Len(Order) \in S /\ S \subseteq Nat
  BY <1>1
<1>3. PICK m \in S : \A k \in S : m <= k
  <2> HIDE DEF S
  <2> QED BY <1>2, LeastOf
<1>4. \A j \in 1..(m - 1) : ~Up(b, j)
  BY <1>1, <1>3
<1> QED BY <1>3, <1>4 DEF Turns

LEMMA AdvanceType ==
  ASSUME NEW b \in Board
  PROVE  Advance(b) \in Board /\ Advance(b).owner = b.owner
<1>1. CASE Order = <<>>
  BY <1>1 DEF Advance
<1>2. CASE Order # <<>>
  <2> DEFINE c == At(b, Turns(b))
  <2>1. Len(Order) \in Nat \ {0} /\ b.cursor \in Nat /\ Turns(b) \in Nat
    BY <1>2, OrderAssumption, TurnsInRange DEF Board
  <2>2. c \in Nat /\ c < Len(Order)
    BY <2>1 DEF At
  <2> HIDE DEF c
  <2>3. Order[c + 1] \in Token
    BY <2>1, <2>2, OrderAssumption
  <2> DEFINE spent == [b.spent EXCEPT ![Order[c + 1]] = 0]
  <2>6. spent \in [Token -> Nat]
    BY <2>3 DEF Board
  <2>4. Advance(b) = [b EXCEPT !.cursor = c, !.spent = spent]
    BY <1>2 DEF Advance, c, Board
  <2> HIDE DEF spent
  <2>5. Advance(b) \in Board /\ Advance(b).owner = b.owner
    BY <2>2, <2>6, <2>4 DEF Board
  <2> QED BY <2>5
<1> QED BY <1>1, <1>2

\* The verdicts the types tell apart.
Verdicts ==
  [kind : {"Verdict"}, request : Nat, by : Player \cup {Dm}, actor : Token, target : Token,
   cost : {0, 1}, felled : BOOLEAN, side : Player \cup {Dm, Keep}]

LEMMA EventKinds ==
  /\ EndTurnEvent \in Event /\ EndTurnEvent.kind = "EndTurn"
  /\ \A e \in Verdicts : e.kind = "Verdict" /\ e \in Event
  /\ \A e \in Event : e.kind # "EndTurn" => e \in Verdicts
  BY DEF Event, EndTurnEvent, Verdicts

LEMMA ApplyType ==
  ASSUME NEW b \in Board, NEW e \in Event, NEW already
  PROVE  Apply(b, already, e) \in Board
<1>1. CASE e.kind = "EndTurn"
  BY <1>1, AdvanceType DEF Apply
<1>2. CASE e.kind # "EndTurn" /\ e.request \in already
  BY <1>2 DEF Apply
<1>3. CASE e.kind # "EndTurn" /\ e.request \notin already
  <2>1. e \in Verdicts
    BY <1>3, EventKinds
  <2> DEFINE spent == [b.spent EXCEPT ![e.actor] = @ + e.cost]
             down  == IF e.felled THEN b.down \cup {e.target} ELSE b.down
             owner == [b.owner EXCEPT ![e.target] = IF e.side = Keep THEN @ ELSE e.side]
  <2>2. Apply(b, already, e) = [b EXCEPT !.spent = spent, !.down = down, !.owner = owner]
    BY <1>3 DEF Apply, Board
  <2>3. spent \in [Token -> Nat]
    BY <2>1 DEF Verdicts, Board
  <2>4. down \in SUBSET Token
    BY <2>1 DEF Verdicts, Board
  <2>5. owner \in [Token -> Player \cup {Dm}]
    BY <2>1 DEF Verdicts, Board
  <2> HIDE DEF spent, down, owner
  <2> QED BY <2>2, <2>3, <2>4, <2>5 DEF Board
<1> QED BY <1>1, <1>2, <1>3

LEMMA FoldType ==
  ASSUME NEW e \in Verdicts, view \in Board
  PROVE  /\ Fold(e) \in Board
         /\ Fold(e).owner = [view.owner EXCEPT ![e.target] = IF e.side = Keep THEN @ ELSE e.side]
<1> DEFINE spent == [view.spent EXCEPT ![e.actor] = @ + e.cost]
           owner == [view.owner EXCEPT ![e.target] = IF e.side = Keep THEN @ ELSE e.side]
<1>1. Fold(e) = [view EXCEPT !.spent = spent, !.owner = owner]
  BY DEF Fold, Board
<1>2. spent \in [Token -> Nat]
  BY DEF Verdicts, Board
<1>3. owner \in [Token -> Player \cup {Dm}]
  BY DEF Verdicts, Board
<1> HIDE DEF spent
<1> QED BY <1>1, <1>2, <1>3 DEF Board

LEMMA VerdictType ==
  ASSUME NEW a \in Asking, NEW hit \in BOOLEAN, view \in Board
  PROVE  Verdict(a, hit) \in Verdicts
<1>1. Recruited(a) \in Player \cup {Dm, Keep}
  BY DEF Recruited, Asking, Board
<1> QED BY <1>1 DEF Verdict, Verdicts, Asking

LEMMA InitTypes == Init => TypeOK
<1> SUFFICES ASSUME Init PROVE TypeOK
  OBVIOUS
<1>1. StartBoard \in Board
  BY OwnersAssumption DEF StartBoard, Board
<1> QED BY <1>1 DEF Init, TypeOK

\* What a commit does to the session's variables.
LEMMA CommitTypes ==
  ASSUME TypeOK, NEW e \in Event, TryCommit(e)
  PROVE  /\ host' \in Board
         /\ seq' = seq + 1 /\ taken' \subseteq Nat
<1>1. host \in Board /\ seq \in Nat /\ taken \subseteq Nat
  BY DEF TypeOK
<1>2. Answered(e) \subseteq Nat
  <2>1. CASE e.kind = "Verdict"
    BY <2>1, EventKinds DEF Answered, Verdicts
  <2>2. CASE e.kind # "Verdict"
    BY <2>2 DEF Answered
  <2> QED BY <2>1, <2>2
<1> QED BY <1>1, <1>2, ApplyType DEF TryCommit

\* A snapshot is an update, and so are the pending asks.
LEMMA SnapshotType == TypeOK => Snapshot \in Update /\ Told(Snapshot) = <<>>
  BY DEF TypeOK, Snapshot, Update, Told

\* The latest snapshot polled.
LEMMA LatestType ==
  ASSUME updates \in Seq(Update), Polled("State") # {}
  PROVE  \E i \in Places(updates) : /\ Latest = updates[i] /\ updates[i].board \in Board
                                    /\ updates[i].at \in Nat
                                    /\ \A j \in Places(updates) : j <= i
<1> DEFINE S == Polled("State")
<1>1. S = Places(updates) /\ S \subseteq 1..Len(updates) /\ Len(updates) \in Nat
  BY DEF Polled, Places
<1>2. IsFiniteSet(S)
  <2>1. IsFiniteSet(1..Len(updates))
    BY <1>1, FS_Interval
  <2> HIDE DEF S
  <2> QED BY <1>1, <2>1, FS_Subset
<1> HIDE DEF S
<1>3. PICK m \in S : \A j \in S : j <= m
  BY <1>1, <1>2, FiniteMax DEF S
<1>4. Max(S) \in S /\ \A j \in S : j <= Max(S)
  <2>1. \A x, y \in S : x >= y <=> y <= x
    BY <1>1
  <2>2. \A y \in S : m >= y
    BY <1>3, <2>1
  <2> QED BY <1>3, <2>1, <2>2 DEF Max
<1>5. Latest = updates[Max(S)]
  BY DEF Latest, S
<1>6. updates[Max(S)] \in Update /\ updates[Max(S)].kind = "State"
  BY <1>1, <1>4 DEF Places
<1>7. updates[Max(S)].board \in Board /\ updates[Max(S)].at \in Nat
  BY <1>6 DEF Update
<1> QED BY <1>1, <1>4, <1>5, <1>7

LEMMA AdjudicateTypes ==
  ASSUME TypeOK, NEW a \in Asking, NEW hit \in BOOLEAN, Adjudicate(a, hit)
  PROVE  /\ view' \in Board /\ outbox' \in Seq(Event) /\ ruled' \subseteq Nat
<1>1. view \in Board /\ outbox \in Seq(Event)
      /\ ruled \subseteq Nat
  BY DEF TypeOK
<1>2. ruled' \subseteq Nat
  BY <1>1 DEF Adjudicate, Asking
<1>3. CASE Refused(a)
  BY <1>1, <1>2, <1>3 DEF Adjudicate
<1>4. CASE ~Refused(a)
  <2>1. Verdict(a, hit) \in Verdicts /\ Verdict(a, hit) \in Event
    BY <1>1, VerdictType, EventKinds
  <2>2. outbox' = Append(outbox, Verdict(a, hit)) /\ view' = Fold(Verdict(a, hit))
    BY <1>4 DEF Adjudicate
  <2>3. view' \in Board
    BY <1>1, <2>1, <2>2, FoldType
  <2> QED BY <1>1, <1>2, <2>1, <2>2, <2>3
<1> QED BY <1>3, <1>4

\* A want as the request it becomes.
LEMMA WantTypes ==
  ASSUME NEW want \in Wants, TypeOK
  PROVE  [request |-> asked + 1, by |-> want[1], actor |-> want[2],
          target |-> want[3], key |-> want[4]] \in Asking
<1>1. want[1] \in Player \cup {Dm} /\ want[2] \in Token /\ want[3] \in Token
      /\ want[4] \in {"Strike", "Recruit"}
  BY WantsAssumption
<1>2. asked + 1 \in Nat
  BY DEF TypeOK
<1> QED BY <1>1, <1>2 DEF Asking

\* A pass takes asks and leaves the open sheet computed.
LEMMA TakenTypes ==
  ASSUME TypeOK
  PROVE  /\ TakeAsks => queued' \in Seq(Asking) /\ intents' \in Seq(Asking)
         /\ Computed \in {"closed", "shown", "missing"}
  BY DEF TypeOK, TakeAsks, Computed

LEMMA StepTypes == TypeOK /\ [Next]_vars => TypeOK'
<1> SUFFICES ASSUME TypeOK, [Next]_vars PROVE TypeOK'
  OBVIOUS
<1> USE DEF session, bridge, app, bounds
<1>1. ASSUME NEW p \in Player, Announce(p) PROVE TypeOK'
  BY <1>1 DEF Announce, TypeOK
<1>2. ASSUME NEW p \in Player, EndTurn(p) PROVE TypeOK'
  <2>1. TryCommit(EndTurnEvent)
    BY <1>2 DEF EndTurn
  <2>2. /\ host' \in Board
        /\ seq' = seq + 1 /\ taken' \subseteq Nat
    BY <2>1, EventKinds, CommitTypes
  <2> QED BY <1>2, <2>2 DEF EndTurn, TypeOK
<1>3. ASSUME NEW want \in Wants, Ask(want) PROVE TypeOK'
  <2> DEFINE a == [request |-> asked + 1, by |-> want[1], actor |-> want[2],
                   target |-> want[3], key |-> want[4]]
  <2>2. a \in Asking /\ pending' = Append(pending, a)
    BY <1>3, WantTypes DEF Ask
  <2> HIDE DEF a
  <2>1. pending' \in Seq(Asking)
    BY <2>2 DEF TypeOK
  <2> QED BY <1>3, <2>1 DEF Ask, TypeOK
<1>4. CASE Ready
  <2>1. updates' \in Seq(Update)
    BY <1>4, SnapshotType DEF Ready, TypeOK
  <2> QED BY <1>4, <2>1 DEF Ready, TypeOK
<1>5. CASE Count
  BY <1>5 DEF Count, TypeOK
<1>6. CASE Drain
  BY <1>6 DEF Drain, TypeOK
<1>7. CASE Commit
  <2>1. CASE batch = <<>>
    BY <1>7, <2>1 DEF Commit, TypeOK
  <2>2. CASE batch # <<>>
    <3>1. batch \in Seq(Event) /\ Head(batch) \in Event /\ Tail(batch) \in Seq(Event)
      BY <2>2 DEF TypeOK
    <3>2. TryCommit(Head(batch)) /\ batch' = Tail(batch)
      BY <1>7, <2>2 DEF Commit
    <3>3. /\ host' \in Board
          /\ seq' = seq + 1 /\ taken' \subseteq Nat
      BY <3>1, <3>2, CommitTypes
    <3> QED BY <1>7, <2>2, <3>1, <3>2, <3>3 DEF Commit, TypeOK
  <2> QED BY <2>1, <2>2
<1>8. CASE TakeIntents
  <2>1. updates' \in Seq(Update)
    <3>1. [kind |-> "Intents", asks |-> pending] \in Update
      BY DEF TypeOK, Update
    <3> QED BY <1>8, <3>1 DEF TakeIntents, TypeOK
  <2> QED BY <1>8, <2>1 DEF TakeIntents, TypeOK
<1>9. CASE Notice
  BY <1>9 DEF Notice, TypeOK
<1>10. CASE Emit
  <2>1. updates' \in Seq(Update)
    BY <1>10, SnapshotType DEF Emit, TypeOK
  <2> QED BY <1>10, <2>1 DEF Emit, TypeOK
<1>11. ASSUME NEW hit \in BOOLEAN, Rule(hit) PROVE TypeOK'
  <2>1. Head(queued) \in Asking /\ queued' \in Seq(Asking) /\ Adjudicate(Head(queued), hit)
    BY <1>11 DEF Rule, TypeOK
  <2>2. /\ view' \in Board
        /\ outbox' \in Seq(Event) /\ ruled' \subseteq Nat
    BY <2>1, AdjudicateTypes
  <2> QED BY <1>11, <2>1, <2>2 DEF Rule, TypeOK
<1>12. ASSUME NEW want \in Wants, NEW hit \in BOOLEAN, Swing(want, hit) PROVE TypeOK'
  <2> DEFINE a == [request |-> asked + 1, by |-> want[1], actor |-> want[2],
                   target |-> want[3], key |-> want[4]]
  <2>1. a \in Asking /\ Adjudicate(a, hit)
    BY <1>12, WantTypes DEF Swing
  <2> HIDE DEF a
  <2>2. /\ view' \in Board
        /\ outbox' \in Seq(Event) /\ ruled' \subseteq Nat
    BY <2>1, AdjudicateTypes
  <2> QED BY <1>12, <2>2, TakenTypes, SMTT(60) DEF Swing, TypeOK
<1>13. CASE PassTurn
  <2>1. outbox' \in Seq(Event)
    BY <1>13, EventKinds DEF PassTurn, TypeOK
  <2> QED BY <1>13, <2>1 DEF PassTurn, TypeOK
<1>14. CASE Pump
  <2>1. /\ view' \in Board /\ mirrored' \in Nat /\ sheet' \in {"closed", "shown", "missing"}
    <3>1. CASE Polled("State") = {}
      BY <1>14, <3>1 DEF Pump, Mirror, TypeOK
    <3>2. CASE Polled("State") # {}
      BY <1>14, <3>2, LatestType DEF Pump, Mirror, TypeOK
    <3> QED BY <3>1, <3>2
  <2>2. intents' \in Seq(Asking)
    <3>1. Heard \in Seq(Asking) /\ intents \in Seq(Asking) /\ intents' = intents \o Heard
      BY <1>14, AsksType DEF Pump, Heard, TypeOK
    <3> QED BY <3>1
  <2>3. commands' \in Seq(Event) /\ outbox' \in Seq(Event) /\ updates' \in Seq(Update) /\ base' = view'
    BY <1>14 DEF Pump, TypeOK
  <2> QED BY <1>14, <2>1, <2>2, <2>3 DEF Pump, TypeOK
<1>15. CASE UNCHANGED vars
  BY <1>15 DEF vars, TypeOK
<1>16. CASE Look
  BY <1>16, TakenTypes DEF Look, TypeOK
<1>17. ASSUME NEW s \in {"closed", "shown"}, Attend(s) PROVE TypeOK'
  BY <1>17, TakenTypes DEF Attend, TypeOK
<1> QED BY <1>1, <1>2, <1>3, <1>4, <1>5, <1>6, <1>7, <1>8, <1>9, <1>10, <1>11, <1>12, <1>13,
           <1>14, <1>15, <1>16, <1>17 DEF Next

\* Every variable of the ask's road has its type, and no cursor leaves the turn
\* order (turn.rs TurnList).
THEOREM TypeCorrect == Spec => []TypeOK
<1> QED BY InitTypes, StepTypes, PTL DEF Spec

-----------------------------------------------------------------------------
(* Every ask is held once and in order *)

\* The asks waiting in w, when done are ruled on and n were made.
Held(w, done, n) ==
  /\ Requests(w) \cup done = 1..n
  /\ Requests(w) \cap done = {}
  /\ \A i, j \in DOMAIN w : i < j => w[i].request < w[j].request

\* A new ask joins at the end, the next to be ruled on leaves at the front, and
\* the DM's swing is ruled on as it is made.
LEMMA HeldJoins ==
  ASSUME NEW w \in Seq(Asking), NEW done \in SUBSET Nat, NEW n \in Nat, NEW a \in Asking,
         Held(w, done, n), a.request = n + 1
  PROVE  Held(Append(w, a), done, n + 1)
<1> DEFINE v == Append(w, a)
<1>1. /\ DOMAIN v = 1..(Len(w) + 1) /\ DOMAIN w = 1..Len(w) /\ Len(w) \in Nat
      /\ v[Len(w) + 1] = a /\ \A i \in 1..Len(w) : v[i] = w[i]
  OBVIOUS
<1> HIDE DEF v
<1>2. Requests(v) = Requests(w) \cup {n + 1}
  BY <1>1 DEF Requests
<1>3. 1..(n + 1) = (1..n) \cup {n + 1} /\ n + 1 \notin 1..n
  OBVIOUS
<1>4. \A i \in DOMAIN w : w[i].request \in 1..n
  BY DEF Held, Requests
<1>5. Requests(v) \cup done = 1..(n + 1) /\ Requests(v) \cap done = {}
  BY <1>2, <1>3 DEF Held
<1>6. ASSUME NEW i \in DOMAIN v, NEW j \in DOMAIN v, i < j PROVE v[i].request < v[j].request
  <2>1. i \in DOMAIN w /\ v[i] = w[i] /\ w[i].request \in 1..n
    BY <1>1, <1>4, <1>6
  <2>2. CASE j \in DOMAIN w
    BY <1>1, <1>6, <2>1, <2>2 DEF Held
  <2>3. CASE j \notin DOMAIN w
    BY <1>1, <2>1, <2>3
  <2> QED BY <2>2, <2>3
<1> QED BY <1>5, <1>6 DEF Held, v

LEMMA HeldLeaves ==
  ASSUME NEW w \in Seq(Asking), NEW done \in SUBSET Nat, NEW n \in Nat,
         Held(w, done, n), w # <<>>
  PROVE  Held(Tail(w), done \cup {Head(w).request}, n)
<1> DEFINE v == Tail(w)
<1>1. /\ DOMAIN v = 1..(Len(w) - 1) /\ DOMAIN w = 1..Len(w) /\ Len(w) \in Nat \ {0}
      /\ w[1] = Head(w) /\ \A i \in 1..(Len(w) - 1) : v[i] = w[i + 1]
  BY HeadTailProperties
<1> HIDE DEF v
<1>2. \A i \in DOMAIN v : i + 1 \in DOMAIN w /\ v[i] = w[i + 1] /\ i + 1 > 1 /\ 1 \in DOMAIN w
  BY <1>1
<1>3. \A i \in DOMAIN w : w[i].request \in Nat
  <2>1. \A i \in DOMAIN w : w[i] \in Asking
    OBVIOUS
  <2> QED BY <2>1 DEF Asking
<1>4. Requests(w) = Requests(v) \cup {Head(w).request}
  <2>1. ASSUME NEW i \in DOMAIN w PROVE w[i].request \in Requests(v) \cup {Head(w).request}
    <3>1. CASE i = 1
      BY <1>1, <3>1
    <3>2. CASE i # 1
      <4>1. i - 1 \in DOMAIN v /\ v[i - 1] = w[i]
        BY <1>1, <3>2
      <4> QED BY <4>1 DEF Requests
    <3> QED BY <3>1, <3>2
  <2>2. ASSUME NEW i \in DOMAIN v PROVE v[i].request \in Requests(w)
    BY <1>2 DEF Requests
  <2>3. Head(w).request \in Requests(w)
    BY <1>1 DEF Requests
  <2> QED BY <2>1, <2>2, <2>3 DEF Requests
<1>5. Head(w).request \notin Requests(v)
  <2>1. ASSUME NEW i \in DOMAIN v PROVE Head(w).request # v[i].request
    <3>1. w[1].request < w[i + 1].request
      BY <1>2 DEF Held
    <3> QED BY <1>1, <1>2, <1>3, <3>1
  <2> QED BY <2>1 DEF Requests
<1>6. ASSUME NEW i \in DOMAIN v, NEW j \in DOMAIN v, i < j PROVE v[i].request < v[j].request
  <2>1. i + 1 < j + 1
    BY <1>1, <1>6
  <2> QED BY <1>2, <2>1 DEF Held
<1> QED BY <1>4, <1>5, <1>6 DEF Held, v

LEMMA HeldPasses ==
  ASSUME NEW w, NEW done \in SUBSET Nat, NEW n \in Nat, Held(w, done, n)
  PROVE  Held(w, done \cup {n + 1}, n + 1)
<1>1. 1..(n + 1) = (1..n) \cup {n + 1} /\ n + 1 \notin 1..n
  OBVIOUS
<1> QED BY <1>1 DEF Held

\* One more ask after two queues is one more after the second.
LEMMA AppendLast ==
  ASSUME NEW x \in Seq(Asking), NEW y \in Seq(Asking), NEW a \in Asking
  PROVE  x \o Append(y, a) = Append(x \o y, a) /\ x \o y \in Seq(Asking)
  OBVIOUS

LEMMA HeldMeans == AskHeldOnce <=> Held(Waiting, ruled, asked)
  BY DEF AskHeldOnce, Held

LEMMA WaitingType ==
  ASSUME TypeOK
  PROVE  /\ Heard \in Seq(Asking) /\ intents \in Seq(Asking) /\ pending \in Seq(Asking)
         /\ queued \in Seq(Asking) /\ Waiting \in Seq(Asking)
<1>1. /\ Heard \in Seq(Asking) /\ intents \in Seq(Asking) /\ pending \in Seq(Asking)
      /\ queued \in Seq(Asking)
  BY AsksType DEF TypeOK, Heard
<1>2. intents \o (Heard \o pending) \in Seq(Asking)
  BY <1>1
<1> QED BY <1>1, <1>2 DEF Waiting

\* A pass moves what was polled to what it rules on, and nothing else.
LEMMA TakenWaits ==
  ASSUME TypeOK, TakeAsks, UNCHANGED <<updates, pending>>
  PROVE  Waiting' = Waiting
<1> DEFINE y == Heard \o pending
<1>1. y \in Seq(Asking) /\ intents \in Seq(Asking) /\ Heard' = Heard
  BY WaitingType DEF Heard
<1>2. Waiting = <<>> \o (intents \o y) /\ Waiting' = intents \o (<<>> \o y)
  BY <1>1 DEF TakeAsks, Waiting
<1> HIDE DEF y
<1>3. <<>> \o (intents \o y) = intents \o y /\ <<>> \o y = y
  <2>1. intents \o y \in Seq(Asking)
    BY <1>1
  <2> QED BY <1>1, <2>1, ConcatEmptySeq
<1> QED BY <1>2, <1>3

LEMMA HeldStep == TypeOK /\ AskHeldOnce /\ [Next]_vars => AskHeldOnce'
<1> SUFFICES ASSUME TypeOK, AskHeldOnce, [Next]_vars PROVE AskHeldOnce'
  OBVIOUS
<1> USE DEF session, bridge, app, bounds
<1> DEFINE W == queued \o (intents \o (AsksOf(updates) \o pending))
<1>1. W = Waiting /\ W' = Waiting'
  BY DEF Waiting, Heard
<1>2. Held(Waiting, ruled, asked)
  BY HeldMeans
<1>3. /\ Heard \in Seq(Asking) /\ intents \in Seq(Asking) /\ pending \in Seq(Asking)
      /\ queued \in Seq(Asking) /\ Waiting \in Seq(Asking)
  BY WaitingType
<1>4. ruled \in SUBSET Nat /\ asked \in Nat /\ updates \in Seq(Update)
  BY DEF TypeOK
<1>5. SUFFICES Held(Waiting', ruled', asked')
  BY DEF AskHeldOnce, Held
<1>6. ASSUME UNCHANGED <<pending, updates, intents, queued, ruled, asked>> PROVE Held(Waiting', ruled', asked')
  BY <1>1, <1>2, <1>6
<1>7. ASSUME updates' = Append(updates, Snapshot), UNCHANGED <<pending, intents, queued, ruled, asked>>
      PROVE  Held(Waiting', ruled', asked')
  <2>1. AsksOf(updates') = AsksOf(updates) \o <<>>
    BY <1>4, <1>7, SnapshotType, AsksAppend
  <2>2. AsksOf(updates') = AsksOf(updates)
    BY <1>3, <2>1, ConcatEmptySeq DEF Heard
  <2> QED BY <1>1, <1>2, <1>7, <2>2
<1>8. ASSUME NEW p \in Player, Announce(p) PROVE Held(Waiting', ruled', asked')
  BY <1>6, <1>8 DEF Announce
<1>9. ASSUME NEW p \in Player, EndTurn(p) PROVE Held(Waiting', ruled', asked')
  BY <1>6, <1>9 DEF EndTurn
<1>10. ASSUME NEW want \in Wants, Ask(want) PROVE Held(Waiting', ruled', asked')
  <2> DEFINE a == [request |-> asked + 1, by |-> want[1], actor |-> want[2],
                   target |-> want[3], key |-> want[4]]
  <2>1. /\ a \in Asking /\ a.request = asked + 1 /\ pending' = Append(pending, a)
        /\ asked' = asked + 1 /\ ruled' = ruled /\ updates' = updates /\ intents' = intents
        /\ queued' = queued
    BY <1>10, WantTypes DEF Ask
  <2> HIDE DEF a
  <2>2. Waiting' = Append(Waiting, a)
    <3>1. Heard' = Heard
      BY <2>1 DEF Heard
    <3>2. Heard \o Append(pending, a) = Append(Heard \o pending, a)
          /\ Heard \o pending \in Seq(Asking)
      BY <1>3, <2>1, AppendLast
    <3>3. intents \o Append(Heard \o pending, a) = Append(intents \o (Heard \o pending), a)
          /\ intents \o (Heard \o pending) \in Seq(Asking)
      BY <1>3, <2>1, <3>2, AppendLast
    <3>4. queued \o Append(intents \o (Heard \o pending), a)
          = Append(queued \o (intents \o (Heard \o pending)), a)
      BY <1>3, <2>1, <3>3, AppendLast
    <3> QED BY <2>1, <3>1, <3>2, <3>3, <3>4 DEF Waiting
  <2> QED BY <1>2, <1>3, <1>4, <2>1, <2>2, HeldJoins
<1>11. CASE Ready
  BY <1>7, <1>11 DEF Ready
<1>12. CASE Count
  BY <1>6, <1>12 DEF Count
<1>13. CASE Drain
  BY <1>6, <1>13 DEF Drain
<1>14. CASE Commit
  BY <1>6, <1>14 DEF Commit, TryCommit
<1>15. CASE TakeIntents
  <2>1. CASE pending = <<>>
    BY <1>6, <1>15, <2>1 DEF TakeIntents
  <2>2. CASE pending # <<>>
    <3> DEFINE u == [kind |-> "Intents", asks |-> pending]
    <3>1. u \in Update /\ Told(u) = pending
      BY DEF TypeOK, Update, Told
    <3>2. /\ updates' = Append(updates, u) /\ pending' = <<>>
          /\ UNCHANGED <<intents, queued, ruled, asked>>
      BY <1>15, <2>2 DEF TakeIntents
    <3> HIDE DEF u
    <3>3. AsksOf(updates') = AsksOf(updates) \o pending
      BY <1>4, <3>1, <3>2, AsksAppend
    <3>4. AsksOf(updates') \o pending' = AsksOf(updates) \o pending
      <4>1. AsksOf(updates) \o pending \in Seq(Asking)
        BY <1>3 DEF Heard
      <4> QED BY <3>2, <3>3, <4>1, ConcatEmptySeq
    <3>5. W' = W
      BY <3>2, <3>4
    <3> QED BY <1>1, <1>2, <3>2, <3>5
  <2> QED BY <2>1, <2>2
<1>16. CASE Notice
  BY <1>6, <1>16 DEF Notice
<1>17. CASE Emit
  BY <1>7, <1>17 DEF Emit
<1>18. ASSUME NEW hit \in BOOLEAN, Rule(hit) PROVE Held(Waiting', ruled', asked')
  <2>1. /\ queued # <<>> /\ queued' = Tail(queued) /\ ruled' = ruled \cup {Head(queued).request}
        /\ UNCHANGED <<pending, updates, intents, asked>>
    BY <1>18 DEF Rule, Adjudicate
  <2> DEFINE y == intents \o (AsksOf(updates) \o pending)
  <2>2. y \in Seq(Asking)
    BY <1>3 DEF Heard
  <2>3. W = queued \o y /\ W' = Tail(queued) \o y
    BY <2>1
  <2> HIDE DEF y, W
  <2>4. queued \o y # <<>> /\ Head(queued \o y) = Head(queued) /\ Tail(queued \o y) = Tail(queued) \o y
    BY <1>3, <2>1, <2>2
  <2>5. Waiting # <<>> /\ Waiting' = Tail(Waiting) /\ Head(Waiting) = Head(queued)
    BY <1>1, <2>3, <2>4
  <2> QED BY <1>2, <1>3, <1>4, <2>1, <2>5, HeldLeaves
<1>19. ASSUME NEW want \in Wants, NEW hit \in BOOLEAN, Swing(want, hit)
       PROVE  Held(Waiting', ruled', asked')
  <2>1. /\ ruled' = ruled \cup {asked + 1} /\ asked' = asked + 1 /\ TakeAsks
        /\ UNCHANGED <<pending, updates>>
    BY <1>19 DEF Swing, Adjudicate
  <2>2. Waiting' = Waiting
    BY <2>1, TakenWaits
  <2> QED BY <1>2, <1>4, <2>1, <2>2, HeldPasses
<1>20. CASE PassTurn
  BY <1>6, <1>20 DEF PassTurn
<1>21. CASE Pump
  <2>1. /\ intents' = intents \o Heard /\ updates' = <<>>
        /\ UNCHANGED <<pending, queued, ruled, asked>>
    BY <1>21 DEF Pump
  <2>2. W' = queued \o ((intents \o Heard) \o (<<>> \o pending))
    BY <2>1, AsksNone
  <2>3. <<>> \o pending = pending
    BY <1>3, ConcatEmptySeq
  <2>4. (intents \o Heard) \o pending = intents \o (Heard \o pending)
    BY <1>3, ConcatAssociative, SMTT(60)
  <2>5. W = queued \o (intents \o (Heard \o pending))
    BY DEF Heard
  <2> QED BY <1>1, <1>2, <2>1, <2>2, <2>3, <2>4, <2>5
<1>22. CASE UNCHANGED vars
  BY <1>6, <1>22 DEF vars
<1>23. CASE Look \/ \E s \in {"closed", "shown"} : Attend(s)
  <2>1. TakeAsks /\ UNCHANGED <<pending, updates, ruled, asked>>
    BY <1>23 DEF Look, Attend
  <2> QED BY <1>2, <2>1, TakenWaits
<1> QED BY <1>8, <1>9, <1>10, <1>11, <1>12, <1>13, <1>14, <1>15, <1>16, <1>17, <1>18, <1>19,
           <1>20, <1>21, <1>22, <1>23 DEF Next

\* No ask is dropped, answered twice or overtaken on its way through the
\* session's queue, the bridge's updates and the app's (take_action_intents,
\* NetBridge::poll).
THEOREM HeldOnce == Spec => []AskHeldOnce
<1>1. Init => AskHeldOnce
  <2> SUFFICES ASSUME Init PROVE AskHeldOnce
    OBVIOUS
  <2>1. Waiting = <<>> /\ ruled = {} /\ asked = 0
    BY AsksNone DEF Init, Waiting, Heard
  <2> QED BY <2>1 DEF AskHeldOnce, Requests
<1> QED BY <1>1, HeldStep, TypeCorrect, PTL DEF Spec

-----------------------------------------------------------------------------
(* The mirror settles *)

LEMMA PlacesAppend ==
  ASSUME NEW us \in Seq(Update), NEW u \in Update
  PROVE  /\ Places(Append(us, u)) = Places(us) \cup (IF u.kind = "State" THEN {Len(us) + 1} ELSE {})
         /\ \A i \in Places(us) : i \in Nat /\ i < Len(us) + 1 /\ Append(us, u)[i] = us[i]
                                  /\ us[i].at \in Nat
         /\ Append(us, u)[Len(us) + 1] = u /\ Len(us) \in Nat
<1> DEFINE vs == Append(us, u)
<1>1. /\ DOMAIN vs = 1..(Len(us) + 1) /\ DOMAIN us = 1..Len(us) /\ Len(us) \in Nat
      /\ vs[Len(us) + 1] = u /\ \A i \in 1..Len(us) : vs[i] = us[i]
  OBVIOUS
<1> HIDE DEF vs
<1>2. \A i \in DOMAIN us : us[i] \in Update /\ i \in Nat /\ i < Len(us) + 1
  BY <1>1
<1>3. \A i \in Places(us) : us[i].at \in Nat
  BY <1>2 DEF Places, Update
<1>4. Places(vs) = Places(us) \cup (IF u.kind = "State" THEN {Len(us) + 1} ELSE {})
  <2>1. \A i : i \in DOMAIN vs <=> i \in DOMAIN us \/ i = Len(us) + 1
    BY <1>1
  <2>2. CASE u.kind = "State"
    BY <1>1, <2>1, <2>2 DEF Places
  <2>3. CASE u.kind # "State"
    BY <1>1, <2>1, <2>3 DEF Places
  <2> QED BY <2>2, <2>3
<1> QED BY <1>1, <1>2, <1>3, <1>4 DEF Places, vs

LEMMA AppendSome ==
  ASSUME NEW S, NEW s \in Seq(S), NEW e \in S
  PROVE  Append(s, e) # <<>>
<1>1. Len(Append(s, e)) = Len(s) + 1 /\ Len(s) \in Nat
  OBVIOUS
<1>2. Len(<<>>) = 0
  OBVIOUS
<1> QED BY <1>1, <1>2

\* Emitting the session's board keeps what is on its way in order.
LEMMA SnapshotInOrder ==
  ASSUME TypeOK, InOrder, Shows, updates' = Append(updates, Snapshot),
         UNCHANGED <<host, seq, mirrored>>
  PROVE  InOrder' /\ Len(updates) + 1 \in Places(updates') /\ updates'[Len(updates) + 1].at = seq
         /\ \A i \in Places(updates) : i \in Places(updates') /\ updates'[i] = updates[i]
<1> DEFINE n == Len(updates) + 1
<1>1. updates \in Seq(Update) /\ seq \in Nat /\ mirrored \in Nat
  BY DEF TypeOK
<1>2. Snapshot \in Update /\ Snapshot.kind = "State" /\ Snapshot.at = seq /\ Snapshot.board = host
  BY SnapshotType DEF Snapshot
<1>3. /\ Places(updates') = Places(updates) \cup {n}
      /\ \A i \in Places(updates) : i \in Nat /\ i < n /\ updates'[i] = updates[i]
                                    /\ updates[i].at \in Nat
      /\ updates'[n] = Snapshot /\ n \in Nat
  <2>1. Places(Append(updates, Snapshot)) = Places(updates) \cup {n}
    BY <1>1, <1>2, PlacesAppend
  <2>2. \A i \in Places(updates) : /\ i \in Nat /\ i < n /\ updates[i].at \in Nat
                                   /\ Append(updates, Snapshot)[i] = updates[i]
    BY <1>1, <1>2, PlacesAppend
  <2>3. Append(updates, Snapshot)[n] = Snapshot /\ n \in Nat
    BY <1>1, <1>2, PlacesAppend
  <2> QED BY <2>1, <2>2, <2>3
<1> HIDE DEF n
<1>4. ASSUME NEW i \in Places(updates')
      PROVE  /\ mirrored <= updates'[i].at /\ updates'[i].at <= seq
             /\ updates'[i].at = seq => updates'[i].board = host
  <2>1. CASE i = n
    <3>1. updates'[i].at = seq /\ updates'[i].board = host
      BY <1>2, <1>3, <2>1
    <3> QED BY <1>1, <3>1 DEF Shows
  <2>2. CASE i # n
    BY <1>3, <2>2 DEF InOrder
  <2> QED BY <2>1, <2>2
<1>5. ASSUME NEW i \in Places(updates'), NEW j \in Places(updates'), i < j
      PROVE  updates'[i].at <= updates'[j].at
  <2>1. CASE j = n
    BY <1>2, <1>3, <1>4, <2>1
  <2>2. CASE j # n
    <3>1. i # n
      BY <1>3, <1>5, <2>2
    <3> QED BY <1>3, <1>5, <2>2, <3>1 DEF InOrder
  <2> QED BY <2>1, <2>2
<1>6. n \in Places(updates') /\ updates'[n].at = seq
      /\ \A i \in Places(updates) : i \in Places(updates') /\ updates'[i] = updates[i]
  BY <1>2, <1>3
<1>7. InOrder'
  BY <1>4, <1>5 DEF InOrder
<1> QED BY <1>6, <1>7 DEF n

LEMMA FlowStep == TypeOK /\ Flow /\ [Next]_vars => Flow'
<1> SUFFICES ASSUME TypeOK, InOrder, Shows, Reported, [Next]_vars PROVE Flow'
  BY DEF Flow
<1> USE DEF session, bridge, app, bounds
<1>1. /\ seq \in Nat /\ mirrored \in Nat /\ lastSeq \in Nat /\ updates \in Seq(Update)
      /\ commands \in Seq(Event) /\ outbox \in Seq(Event) /\ batch \in Seq(Event)
      /\ \A i \in Places(updates) : updates[i].at \in Nat
  <2>1. \A i \in DOMAIN updates : updates[i] \in Update
    BY DEF TypeOK
  <2>2. \A i \in Places(updates) : updates[i].at \in Nat
    BY <2>1 DEF Places, Update
  <2> QED BY <2>2 DEF TypeOK
\* A commit leaves what is on its way behind.
<1>2. ASSUME seq' = seq + 1, UNCHANGED <<updates, mirrored>> PROVE InOrder' /\ mirrored' < seq'
  BY <1>1, <1>2 DEF InOrder, Shows
<1>3. ASSUME NEW p \in Player, Announce(p) PROVE Flow'
  <2>1. InOrder' /\ Shows'
    BY <1>3 DEF Announce, InOrder, Shows
  <2>2. Reported'
    BY <1>3 DEF Announce, Reported
  <2> QED BY <2>1, <2>2 DEF Flow
<1>4. ASSUME NEW p \in Player, EndTurn(p) PROVE Flow'
  <2>1. seq' = seq + 1 /\ names # {} /\ UNCHANGED <<names, bridge, commands, updates, app>>
    BY <1>4 DEF EndTurn, TryCommit
  <2>2. InOrder' /\ mirrored' < seq'
    BY <1>2, <2>1
  <2>3. Shows'
    BY <1>1, <2>1, <2>2 DEF Shows
  <2>4. Reported'
    BY <1>1, <2>1 DEF Reported
  <2> QED BY <2>2, <2>3, <2>4 DEF Flow
<1>5. ASSUME NEW want \in Wants, Ask(want) PROVE Flow'
  BY <1>5 DEF Ask, Flow, InOrder, Shows, Reported
<1>6. CASE Ready
  <2>1. InOrder'
    BY <1>6, SnapshotInOrder DEF Ready
  <2>2. Shows' /\ Reported'
    BY <1>6 DEF Ready, Shows, Reported
  <2> QED BY <2>1, <2>2 DEF Flow
<1>7. CASE Count
  <2>1. InOrder' /\ Shows'
    BY <1>7 DEF Count, InOrder, Shows
  <2>2. Reported'
    BY <1>1, <1>7 DEF Count, Reported
  <2> QED BY <2>1, <2>2 DEF Flow
<1>8. CASE Drain
  <2>1. InOrder' /\ Shows'
    BY <1>8 DEF Drain, InOrder, Shows, Reported
  <2>2. Reported'
    BY <1>8 DEF Drain, Reported
  <2> QED BY <2>1, <2>2 DEF Flow
<1>9. CASE Commit
  <2>1. CASE batch = <<>>
    BY <1>9, <2>1 DEF Commit, Flow, InOrder, Shows, Reported
  <2>2. CASE batch # <<>>
    <3>1. /\ seq' = seq + 1 /\ step = "commit" /\ step' = step
          /\ UNCHANGED <<names, lastSeq, lastNames, commands, updates, app>>
      BY <1>9, <2>2 DEF Commit, TryCommit
    <3>2. InOrder' /\ mirrored' < seq'
      BY <1>2, <3>1
    <3>3. Shows'
      BY <1>1, <3>1, <3>2 DEF Shows
    <3>4. Reported'
      BY <1>1, <3>1 DEF Reported
    <3> QED BY <3>2, <3>3, <3>4 DEF Flow
  <2> QED BY <2>1, <2>2
<1>10. CASE TakeIntents
  <2>1. /\ UNCHANGED <<host, seq, names, batch, lastSeq, lastNames, commands, app>>
        /\ step = "intents" /\ step' = "notice"
    BY <1>10 DEF TakeIntents
  <2>2. Places(updates') = Places(updates) /\ \A i \in Places(updates) : updates'[i] = updates[i]
    <3>1. CASE pending = <<>>
      BY <1>10, <3>1 DEF TakeIntents
    <3>2. CASE pending # <<>>
      <4> DEFINE u == [kind |-> "Intents", asks |-> pending]
      <4>1. u \in Update /\ u.kind # "State" /\ updates' = Append(updates, u)
        BY <1>10, <3>2 DEF TakeIntents, TypeOK, Update
      <4> HIDE DEF u
      <4>2. Places(Append(updates, u)) = Places(updates)
        <5>1. Places(Append(updates, u))
              = Places(updates) \cup (IF u.kind = "State" THEN {Len(updates) + 1} ELSE {})
          BY <1>1, <4>1, PlacesAppend
        <5> QED BY <4>1, <5>1
      <4>3. \A i \in Places(updates) : Append(updates, u)[i] = updates[i]
        BY <1>1, <4>1, PlacesAppend
      <4> QED BY <4>1, <4>2, <4>3
    <3> QED BY <3>1, <3>2
  <2>3. InOrder'
    BY <2>1, <2>2 DEF InOrder
  <2>4. Shows'
    BY <2>1 DEF Shows
  <2>5. Reported'
    BY <2>1, <2>2 DEF Reported
  <2> QED BY <2>3, <2>4, <2>5 DEF Flow
<1>11. CASE Notice
  <2>1. InOrder' /\ Shows'
    BY <1>11 DEF Notice, InOrder, Shows
  <2>2. Reported'
    BY <1>1, <1>11 DEF Notice, Reported
  <2> QED BY <2>1, <2>2 DEF Flow
<1>12. CASE Emit
  <2>1. /\ InOrder' /\ Len(updates) + 1 \in Places(updates') /\ updates'[Len(updates) + 1].at = seq
    BY <1>12, SnapshotInOrder DEF Emit
  <2>2. Shows'
    BY <1>12 DEF Emit, Shows
  <2>3. lastSeq' <= seq /\ lastNames' = lastNames /\ names' = names /\ seq' = seq /\ batch' = batch
        /\ step = "emit" /\ step' = "drain" /\ lastSeq' = lastSeq
    BY <1>12 DEF Emit, Reported
  <2>4. \E i \in Places(updates') : lastSeq' <= updates'[i].at
    BY <2>1, <2>3
  <2>5. Reported'
    BY <2>3, <2>4 DEF Reported
  <2> QED BY <2>1, <2>2, <2>5 DEF Flow
\* A ruling touches the mirror only with a verdict on its way.
<1>13. ASSUME NEW a \in Asking, NEW hit \in BOOLEAN, Adjudicate(a, hit),
              UNCHANGED <<host, seq, names, bridge, commands, updates, mirrored>>
       PROVE  Flow'
  <2>1. InOrder' /\ Reported'
    BY <1>13 DEF InOrder, Reported
  <2>2. Shows'
    <3>1. CASE Refused(a)
      BY <1>13, <3>1 DEF Adjudicate, Shows
    <3>2. CASE ~Refused(a)
      <4>1. outbox' = Append(outbox, Verdict(a, hit))
        BY <1>13, <3>2 DEF Adjudicate
      <4>2. Verdict(a, hit) \in Event
        BY VerdictType, EventKinds DEF TypeOK
      <4> DEFINE v == Verdict(a, hit)
      <4> HIDE DEF v
      <4>4. v \in Event /\ outbox' = Append(outbox, v)
        BY <4>1, <4>2 DEF v
      <4>3. outbox' # <<>>
        BY <1>1, <4>4, AppendSome
      <4> QED BY <1>13, <4>3 DEF Shows
    <3> QED BY <3>1, <3>2
  <2> QED BY <2>1, <2>2 DEF Flow
<1>14. ASSUME NEW hit \in BOOLEAN, Rule(hit) PROVE Flow'
  <2>1. Head(queued) \in Asking
    BY <1>14 DEF Rule, TypeOK
  <2> QED BY <1>13, <1>14, <2>1 DEF Rule
<1>15. ASSUME NEW want \in Wants, NEW hit \in BOOLEAN, Swing(want, hit) PROVE Flow'
  BY <1>13, <1>15, WantTypes DEF Swing
<1>16. CASE PassTurn
  <2>1. outbox' # <<>>
    BY <1>1, <1>16, SMTT(60) DEF PassTurn
  <2>2. InOrder' /\ Reported'
    BY <1>16 DEF PassTurn, InOrder, Reported
  <2>3. Shows'
    BY <1>16, <2>1 DEF PassTurn, Shows
  <2> QED BY <2>2, <2>3 DEF Flow
<1>17. CASE Pump
  <2>1. /\ outbox' = <<>> /\ commands' = commands \o outbox /\ updates' = <<>>
        /\ UNCHANGED <<host, seq, names, bridge>>
    BY <1>17 DEF Pump
  <2>2. Places(updates') = {}
    BY <2>1 DEF Places
  <2>3. InOrder'
    BY <2>2 DEF InOrder
  <2>4. commands' = <<>> => commands = <<>> /\ outbox = <<>>
    <3>1. commands \o outbox = <<>> => commands = <<>> /\ outbox = <<>>
      BY <1>1
    <3> QED BY <2>1, <3>1
  <2>5. CASE Polled("State") = {}
    <3>1. view' = view /\ mirrored' = mirrored /\ Places(updates) = {}
      BY <1>17, <2>5 DEF Pump, Mirror, Polled, Places
    <3>2. Shows' /\ Reported'
      BY <2>1, <2>4, <3>1 DEF Shows, Reported
    <3> QED BY <2>3, <3>2 DEF Flow
  <2>6. CASE Polled("State") # {}
    <3>1. PICK i \in Places(updates) : /\ Latest = updates[i]
                                       /\ \A j \in Places(updates) : j <= i
      BY <1>1, <2>6, LatestType
    <3>2. view' = updates[i].board /\ mirrored' = updates[i].at
      BY <1>17, <2>6, <3>1 DEF Pump, Mirror
    <3>3. mirrored <= mirrored' /\ mirrored' <= seq' /\ (mirrored' = seq' => view' = host')
      BY <2>1, <3>1, <3>2 DEF InOrder
    <3>4. Shows'
      BY <3>3 DEF Shows
    <3>5. \A j \in Places(updates) : updates[j].at <= mirrored'
      <4>1. ASSUME NEW j \in Places(updates) PROVE j = i \/ j < i
        <5>1. i \in Nat /\ j \in Nat
          BY <1>1 DEF Places
        <5> QED BY <3>1, <5>1
      <4> QED BY <1>1, <3>2, <4>1 DEF InOrder
    <3>6. lastSeq <= mirrored \/ (\E j \in Places(updates) : lastSeq <= updates[j].at) => lastSeq <= mirrored'
      BY <1>1, <3>2, <3>3, <3>5
    <3>7. Reported'
      BY <2>1, <3>6 DEF Reported
    <3> QED BY <2>3, <3>4, <3>7 DEF Flow
  <2> QED BY <2>5, <2>6
<1>18. CASE UNCHANGED vars \/ Look \/ \E s \in {"closed", "shown"} : Attend(s)
  <2>1. UNCHANGED <<host, seq, names, bridge, commands, updates, view, mirrored, outbox>>
    BY <1>18 DEF vars, Look, Attend
  <2> QED BY <2>1 DEF Flow, InOrder, Shows, Reported
<1> QED BY <1>3, <1>4, <1>5, <1>6, <1>7, <1>8, <1>9, <1>10, <1>11, <1>12, <1>14, <1>15, <1>16,
           <1>17, <1>18 DEF Next

LEMMA FlowSettles == TypeOK /\ Flow => MirrorSettles
<1> SUFFICES ASSUME TypeOK, Flow, Settled PROVE view = host
  BY DEF MirrorSettles
<1>1. Places(updates) = {}
  BY DEF Settled, Places
<1>2. seq <= mirrored /\ mirrored <= seq /\ batch = <<>>
  BY <1>1 DEF Flow, Reported, Shows, Settled
<1>3. mirrored = seq
  BY <1>2 DEF TypeOK
<1> QED BY <1>2, <1>3 DEF Flow, Shows, Settled

\* Whenever nothing is in flight the app shows the session's board: no local
\* fold of adjudicate outlives its verdict or counts twice, and no commit falls
\* between HostReady's snapshot and the count run_host starts from.
THEOREM Settles == Spec => []MirrorSettles
<1>1. Init => Flow
  BY DEF Init, Flow, InOrder, Shows, Reported, Places
<1>2. TypeOK /\ Flow => MirrorSettles
  BY FlowSettles
<1> QED BY <1>1, <1>2, FlowStep, TypeCorrect, PTL DEF Spec

-----------------------------------------------------------------------------
(* One pass of rulings respects the cap *)

\* After is what its recursive definition says, step by step.
LEMMA AfterStepwise ==
  ASSUME NEW b \in Board, NEW es \in Seq(Event)
  PROVE  \E f : /\ f \in [0..Len(es) -> Board]
                /\ f[0] = b
                /\ \A n \in 1..Len(es) : f[n] = Apply(f[n - 1], {}, es[n])
                /\ After(b, es) = f[Len(es)]
<1> DEFINE h == [n \in 1..Len(es) |-> [x \in Board |-> Apply(x, {}, es[n])]]
           upTo[n \in 0..Len(es)] == IF n = 0 THEN b ELSE Apply(upTo[n - 1], {}, es[n])
<1>1. \A n \in 1..Len(es) : \A x \in Board : Apply(x, {}, es[n]) \in Board
  <2>1. \A n \in 1..Len(es) : es[n] \in Event
    OBVIOUS
  <2> QED BY <2>1, ApplyType
<1>2. After(b, es) = upTo[Len(es)]
  BY DEF After
<1>3. h \in StepsTo(Len(es), Board)
  BY <1>1 DEF StepsTo
<1>4. \A n \in 1..Len(es) : \A x \in Board : h[n][x] = Apply(x, {}, es[n])
  OBVIOUS
<1>5. Len(es) \in Nat
  OBVIOUS
<1> HIDE DEF h
<1>6. PICK f : f = [k \in 0..Len(es) |-> IF k = 0 THEN b ELSE h[k][f[k - 1]]]
               /\ f \in [0..Len(es) -> Board]
  BY <1>3, <1>5, RecUpTo
<1>7. ASSUME NEW n \in 1..Len(es)
      PROVE  f[n] = Apply(f[n - 1], {}, es[n])
  <2>1. n - 1 \in 0..Len(es) /\ n \in 0..Len(es) /\ n # 0
    BY <1>5
  <2>2. f[n - 1] \in Board
    BY <1>6, <2>1
  <2>3. f[n] = h[n][f[n - 1]]
    BY <1>6, <2>1
  <2> QED BY <1>4, <2>2, <2>3
<1>8. f = [n \in 0..Len(es) |-> IF n = 0 THEN b ELSE Apply(f[n - 1], {}, es[n])]
  <2> DEFINE F == [n \in 0..Len(es) |-> IF n = 0 THEN b ELSE Apply(f[n - 1], {}, es[n])]
  <2>1. f[0] = b
    BY <1>5, <1>6
  <2>2. ASSUME NEW n \in 0..Len(es) PROVE f[n] = F[n]
    <3>1. CASE n = 0
      BY <2>1, <3>1
    <3>2. CASE n # 0
      <4>1. n \in 1..Len(es)
        BY <1>5, <3>2
      <4> QED BY <1>7, <3>2, <4>1
    <3> QED BY <3>1, <3>2
  <2>3. /\ DOMAIN f = 0..Len(es) /\ f = [n \in DOMAIN f |-> f[n]]
        /\ DOMAIN F = 0..Len(es) /\ F = [n \in DOMAIN F |-> F[n]]
    BY <1>6
  <2> HIDE DEF F
  <2>4. f = F
    BY <2>2, <2>3
  <2> QED BY <2>4 DEF F
<1>9. upTo = [n \in 0..Len(es) |-> IF n = 0 THEN b ELSE Apply(upTo[n - 1], {}, es[n])]
  BY <1>8
<1> HIDE DEF upTo
<1>10. \A n \in 0..Len(es) : f[n] = upTo[n]
  <2>1. f[0] = upTo[0]
    BY <1>5, <1>8, <1>9
  <2>2. ASSUME NEW n \in 1..Len(es), f[n - 1] = upTo[n - 1] PROVE f[n] = upTo[n]
    <3>1. n \in 0..Len(es) /\ n # 0
      BY <1>5
    <3>2. upTo[n] = Apply(upTo[n - 1], {}, es[n])
      BY <1>9, <3>1
    <3> QED BY <1>7, <2>2, <3>2
  <2> QED BY <1>5, <2>1, <2>2, RecAgree
<1>11. After(b, es) = f[Len(es)]
  BY <1>2, <1>5, <1>10
<1>12. f[0] = b
  BY <1>5, <1>8
<1> QED BY <1>6, <1>7, <1>11, <1>12

LEMMA AfterNone == ASSUME NEW b \in Board PROVE After(b, <<>>) = b
<1>1. <<>> \in Seq(Event) /\ Len(<<>>) = 0
  OBVIOUS
<1> DEFINE es == <<>>
<1> HIDE DEF es
<1>2. \E f : /\ f \in [0..Len(es) -> Board]
             /\ f[0] = b
             /\ \A n \in 1..Len(es) : f[n] = Apply(f[n - 1], {}, es[n])
             /\ After(b, es) = f[Len(es)]
  BY <1>1, AfterStepwise DEF es
<1> QED BY <1>1, <1>2 DEF es

LEMMA AfterAppend ==
  ASSUME NEW b \in Board, NEW es \in Seq(Event), NEW e \in Event
  PROVE  After(b, es) \in Board /\ After(b, Append(es, e)) = Apply(After(b, es), {}, e)
<1> DEFINE fs == Append(es, e)
           n == Len(es)
<1>1. fs \in Seq(Event) /\ Len(fs) = n + 1 /\ n \in Nat
  OBVIOUS
<1>2. fs[n + 1] = e /\ \A i \in 1..n : fs[i] = es[i]
  OBVIOUS
<1> HIDE DEF fs
<1>3. PICK f : /\ f \in [0..n -> Board] /\ f[0] = b
               /\ \A k \in 1..n : f[k] = Apply(f[k - 1], {}, es[k])
               /\ After(b, es) = f[n]
  BY AfterStepwise
<1>4. PICK g : /\ g[0] = b /\ \A k \in 1..Len(fs) : g[k] = Apply(g[k - 1], {}, fs[k])
               /\ After(b, fs) = g[Len(fs)]
  <2>1. \E d : /\ d \in [0..Len(fs) -> Board]
               /\ d[0] = b
               /\ \A k \in 1..Len(fs) : d[k] = Apply(d[k - 1], {}, fs[k])
               /\ After(b, fs) = d[Len(fs)]
    BY <1>1, AfterStepwise
  <2> QED BY <2>1
<1> HIDE DEF n
<1>5. \A k \in 0..n : f[k] = g[k]
  <2>1. ASSUME NEW k \in 1..n, f[k - 1] = g[k - 1] PROVE f[k] = g[k]
    <3>1. k \in 1..Len(fs)
      BY <1>1
    <3>2. f[k] = Apply(f[k - 1], {}, es[k])
      BY <1>3
    <3>3. g[k] = Apply(g[k - 1], {}, es[k])
      BY <1>2, <1>4, <3>1
    <3> QED BY <2>1, <3>2, <3>3
  <2>2. n \in Nat /\ f[0] = g[0]
    BY <1>1, <1>3, <1>4
  <2>3. \A k \in 1..n : f[k - 1] = g[k - 1] => f[k] = g[k]
    BY <2>1
  <2> QED BY ONLY <2>2, <2>3, RecAgree, SMTT(30)
<1>6. g[n + 1] = Apply(g[n], {}, e)
  <2>1. n + 1 \in 1..Len(fs) /\ (n + 1) - 1 = n
    BY <1>1
  <2> QED BY <1>2, <1>4, <2>1
<1>7. f[n] = g[n] /\ f[n] \in Board
  BY <1>1, <1>3, <1>5
<1> QED BY <1>1, <1>3, <1>4, <1>6, <1>7 DEF fs

\* An event changes the owners the same, whatever else the board holds.
LEMMA ApplyOwner ==
  ASSUME NEW b \in Board, NEW e \in Event
  PROVE  Apply(b, {}, e).owner =
           IF e.kind = "EndTurn" THEN b.owner
           ELSE [b.owner EXCEPT ![e.target] = IF e.side = Keep THEN @ ELSE e.side]
<1>1. CASE e.kind = "EndTurn"
  BY <1>1, AdvanceType DEF Apply
<1>2. CASE e.kind # "EndTurn"
  <2> DEFINE spent == [b.spent EXCEPT ![e.actor] = @ + e.cost]
             down  == IF e.felled THEN b.down \cup {e.target} ELSE b.down
             owner == [b.owner EXCEPT ![e.target] = IF e.side = Keep THEN @ ELSE e.side]
  <2>1. Apply(b, {}, e) = [b EXCEPT !.spent = spent, !.down = down, !.owner = owner]
    BY <1>2 DEF Apply, Board
  <2> HIDE DEF spent, down, owner
  <2>2. Apply(b, {}, e).owner = owner
    BY <2>1 DEF Board
  <2> QED BY <1>2, <2>2 DEF owner
<1> QED BY <1>1, <1>2

\* A ruling takes nobody over the cap.
LEMMA FoldHoldsCap ==
  ASSUME TypeOK, NEW a \in Asking, NEW hit \in BOOLEAN, NEW p \in Player
  PROVE  \/ Owned(Fold(Verdict(a, hit)), p) <= PartyCap
         \/ Owned(Fold(Verdict(a, hit)), p) <= Owned(view, p)
<1> DEFINE v    == Verdict(a, hit)
           side == view.owner[a.actor]
           Mine(o, q) == {t \in Token : o[t] = q}
<1> SUFFICES Owned(Fold(v), p) <= PartyCap \/ Owned(Fold(v), p) <= Owned(view, p)
  OBVIOUS
<1>1. view \in Board /\ v \in Verdicts /\ a.target \in Token /\ v.target = a.target
  BY VerdictType DEF TypeOK, Asking, Verdict
<1>2. /\ Fold(v).owner = [view.owner EXCEPT ![a.target] = IF v.side = Keep THEN @ ELSE v.side]
  <2> HIDE DEF v
  <2> QED BY <1>1, FoldType
<1>3. \A q : IsFiniteSet(Mine(view.owner, q)) /\ Cardinality(Mine(view.owner, q)) \in Nat
  <2>1. \A q : IsFiniteSet(Mine(view.owner, q))
    BY OwnersAssumption, FS_Subset
  <2> QED BY <2>1, FS_CardinalityType
<1>4. view.owner \in [Token -> Player \cup {Dm}]
  BY <1>1 DEF Board
<1>5. CASE v.side = Keep
  <2>1. Fold(v).owner = view.owner
    BY <1>2, <1>4, <1>5
  <2> HIDE DEF v
  <2>2. Owned(Fold(v), p) = Owned(view, p) /\ Owned(view, p) = Cardinality(Mine(view.owner, p))
    BY <2>1 DEF Owned
  <2>3. Owned(view, p) \in Nat
    BY <1>3, <2>2
  <2> QED BY <2>2, <2>3
<1>6. CASE v.side # Keep
  <2>1. v.side = side /\ (side = Dm \/ ~(Owned(view, side) >= PartyCap))
    BY <1>6 DEF Verdict, Recruited
  <2>6. view.owner[a.target] # side
    BY <1>6 DEF Verdict, Recruited
  <2>2. Fold(v).owner = [view.owner EXCEPT ![a.target] = side]
    BY <1>2, <1>6, <2>1
  <2> HIDE DEF side, v
  <2>5. /\ Owned(Fold(v), p) = Cardinality(Mine(Fold(v).owner, p))
        /\ Owned(view, p) = Cardinality(Mine(view.owner, p))
    BY DEF Owned
  <2>3. CASE p = side
    <3>1. p # Dm
      BY OwnersAssumption
    <3>2. ~(Owned(view, p) >= PartyCap)
      BY <2>1, <2>3, <3>1
    <3>3. Mine(Fold(v).owner, p) = Mine(view.owner, p) \cup {a.target}
      BY <1>1, <1>4, <2>2, <2>3
    <3>4. a.target \notin Mine(view.owner, p)
      BY <2>1, <2>3, <2>6
    <3> HIDE DEF Mine
    <3>5. Cardinality(Mine(Fold(v).owner, p)) = Cardinality(Mine(view.owner, p)) + 1
      BY <1>3, <3>3, <3>4, FS_AddElement
    <3>6. Cardinality(Mine(view.owner, p)) \in Nat /\ PartyCap \in Nat
      BY <1>3, LimitsAssumption
    <3> QED BY <2>5, <3>2, <3>5, <3>6
  <2>4. CASE p # side
    <3>1. Mine(Fold(v).owner, p) \subseteq Mine(view.owner, p)
      BY <1>1, <1>4, <2>2, <2>4
    <3> HIDE DEF Mine
    <3>2. IsFiniteSet(Mine(view.owner, p))
      BY <1>3
    <3>3. Cardinality(Mine(Fold(v).owner, p)) <= Cardinality(Mine(view.owner, p))
      BY <3>1, <3>2, FS_Subset
    <3> QED BY <2>5, <3>3
  <2> QED BY <2>3, <2>4
<1> QED BY <1>5, <1>6

LEMMA OwnedBounds ==
  ASSUME NEW b \in Board, NEW p
  PROVE  Owned(b, p) \in Nat
<1>1. IsFiniteSet({t \in Token : b.owner[t] = p})
  BY OwnersAssumption, FS_Subset
<1> QED BY <1>1, FS_CardinalityType DEF Owned

LEMMA FoldedStep == TypeOK /\ Folded /\ [Next]_vars => Folded'
<1> SUFFICES ASSUME TypeOK, Folded, [Next]_vars PROVE Folded'
  OBVIOUS
<1> USE DEF session, bridge, app, bounds
<1>1. base \in Board /\ view \in Board /\ outbox \in Seq(Event) /\ base' \in Board /\ view' \in Board
      /\ PartyCap \in Nat
  BY StepTypes, LimitsAssumption DEF TypeOK
<1>2. ASSUME UNCHANGED <<base, view, outbox>> PROVE Folded'
  BY <1>2 DEF Folded, Owned
<1>3. ASSUME NEW a \in Asking, NEW hit \in BOOLEAN, Adjudicate(a, hit), base' = base PROVE Folded'
  <2>1. CASE Refused(a)
    BY <1>2, <1>3, <2>1 DEF Adjudicate
  <2>2. CASE ~Refused(a)
    <3> DEFINE v == Verdict(a, hit)
    <3>1. v \in Verdicts /\ v \in Event /\ v.kind # "EndTurn"
      BY <1>1, VerdictType, EventKinds
    <3>2. outbox' = Append(outbox, v) /\ view' = Fold(v)
      BY <1>3, <2>2 DEF Adjudicate
    <3>3. \A p \in Player : Owned(view', p) <= PartyCap \/ Owned(view', p) <= Owned(view, p)
      BY <3>2, FoldHoldsCap
    <3> HIDE DEF v
    <3>4. After(base', outbox').owner = view'.owner
      <4>1. After(base, outbox) \in Board /\ After(base', outbox') = Apply(After(base, outbox), {}, v)
        BY <1>1, <1>3, <3>1, <3>2, AfterAppend
      <4>2. After(base', outbox').owner
            = [After(base, outbox).owner EXCEPT ![v.target] = IF v.side = Keep THEN @ ELSE v.side]
        BY <3>1, <4>1, ApplyOwner
      <4>3. view'.owner = [view.owner EXCEPT ![v.target] = IF v.side = Keep THEN @ ELSE v.side]
        BY <1>1, <3>1, <3>2, FoldType
      <4> QED BY <4>2, <4>3 DEF Folded
    <3>5. ASSUME NEW p \in Player
          PROVE  Owned(view', p) <= PartyCap \/ Owned(view', p) <= Owned(base', p)
      <4>1. Owned(view', p) \in Nat /\ Owned(view, p) \in Nat /\ Owned(base, p) \in Nat
        BY <1>1, OwnedBounds
      <4>2. Owned(view', p) <= PartyCap \/ Owned(view', p) <= Owned(view, p)
        BY <3>3
      <4>3. Owned(view, p) <= PartyCap \/ Owned(view, p) <= Owned(base, p)
        BY DEF Folded
      <4>4. Owned(base', p) = Owned(base, p)
        BY <1>3
      <4> QED BY <1>1, <4>1, <4>2, <4>3, <4>4
    <3>6. \A p \in Player : (Owned(view, p))' = Owned(view', p) /\ (Owned(base, p))' = Owned(base', p)
      BY DEF Owned
    <3> QED BY <3>4, <3>5, <3>6 DEF Folded
  <2> QED BY <2>1, <2>2
<1>4. ASSUME NEW hit \in BOOLEAN, Rule(hit) PROVE Folded'
  <2>1. Head(queued) \in Asking
    BY <1>4 DEF Rule, TypeOK
  <2> QED BY <1>3, <1>4, <2>1 DEF Rule
<1>5. ASSUME NEW want \in Wants, NEW hit \in BOOLEAN, Swing(want, hit) PROVE Folded'
  BY <1>3, <1>5, WantTypes DEF Swing
<1>6. CASE PassTurn
  <2>1. outbox' = Append(outbox, EndTurnEvent) /\ base' = base /\ view' = view
    BY <1>6 DEF PassTurn
  <2>2. EndTurnEvent \in Event /\ EndTurnEvent.kind = "EndTurn"
    BY EventKinds
  <2>3. After(base, outbox) \in Board
        /\ After(base, Append(outbox, EndTurnEvent)) = Apply(After(base, outbox), {}, EndTurnEvent)
    BY <1>1, <2>2, AfterAppend
  <2>4. Apply(After(base, outbox), {}, EndTurnEvent).owner = After(base, outbox).owner
    BY <2>2, <2>3, ApplyOwner
  <2>5. After(base', outbox').owner = view'.owner
    BY <2>1, <2>3, <2>4 DEF Folded
  <2> QED BY <2>1, <2>5 DEF Folded, Owned
<1>7. CASE Pump
  <2>1. outbox' = <<>> /\ base' = view'
    BY <1>7 DEF Pump
  <2>2. After(base', outbox').owner = view'.owner
    BY <1>1, <2>1, AfterNone
  <2>3. \A p \in Player : Owned(view', p) <= Owned(base', p)
    BY <1>1, <2>1, OwnedBounds
  <2>4. \A p \in Player : (Owned(view, p))' = Owned(view', p) /\ (Owned(base, p))' = Owned(base', p)
    BY DEF Owned
  <2> QED BY <2>2, <2>3, <2>4 DEF Folded
<1>8. CASE \/ \E p \in Player : Announce(p) \/ EndTurn(p)
           \/ \E want \in Wants : Ask(want)
           \/ Ready \/ Count \/ Drain \/ Commit \/ TakeIntents \/ Notice \/ Emit
           \/ Look \/ \E s \in {"closed", "shown"} : Attend(s)
           \/ UNCHANGED vars
  BY <1>2, <1>8 DEF Announce, EndTurn, Ask, Ready, Count, Drain, Commit, TakeIntents, Notice, Emit,
                    Look, Attend, vars
<1> QED BY <1>4, <1>5, <1>6, <1>7, <1>8 DEF Next

LEMMA FoldedHoldsCap == TypeOK /\ Folded => BatchHoldsCap
  BY DEF Folded, BatchHoldsCap, Owned

\* The verdicts of one pass, committed onto the board the pass began with,
\* respect the cap: the recruits folded into the mirror count for the next
\* ("two same-owner recruits in one batch", adjudicate.rs).
THEOREM HoldsCap == Spec => []BatchHoldsCap
<1>1. Init => Folded
  <2> SUFFICES ASSUME Init PROVE Folded
    OBVIOUS
  <2>1. TypeOK
    BY InitTypes
  <2>2. base \in Board /\ view = base /\ outbox = <<>>
    BY <2>1 DEF Init, TypeOK
  <2>3. \A p \in Player : Owned(view, p) <= Owned(base, p)
    BY <2>2, OwnedBounds
  <2> QED BY <2>2, <2>3, AfterNone DEF Folded
<1> QED BY <1>1, FoldedStep, FoldedHoldsCap, TypeCorrect, PTL DEF Spec
=============================================================================
