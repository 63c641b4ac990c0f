------------------------------- MODULE Overmap -------------------------------
(***************************************************************************)
(* The pointcrawl graph the party travels: sites, and weighted routes       *)
(* between them.  Reaching and routing are bounded Dijkstra searches, here  *)
(* step for step; Journey measures them against the least cost over all     *)
(* simple ways.                                                             *)
(*                                                                          *)
(* An identifier is a sequence of numbers, its dotted segments, so that the *)
(* order of the code's ordered maps is the lexicographic one.               *)
(***************************************************************************)
EXTENDS Integers, FiniteSets, SequencesExt

NoId == <<>>

\* The order of two identifiers in a BTreeMap keyed by String.
Before(a, b) ==
  \/ IsStrictPrefix(a, b)
  \/ \E n \in DOMAIN a \cap DOMAIN b :
       a[n] < b[n] /\ \A m \in 1..(n - 1) : a[m] = b[m]

InOrder(ids) == SetToSortSeq(ids, Before)

(* nodes is a set of identifiers, edges a set of                             *)
(* [from, to, weight, directed].                                             *)
EmptyOvermap == [nodes |-> {}, edges |-> {}]

\* The routes leaving a site: <<far end, weight>>.  An edge from a site to
\* itself is taken once, by its from end.
Neighbours(map, id) ==
  {<<e.to, e.weight>> : e \in {x \in map.edges : x.from = id}}
    \cup {<<e.from, e.weight>> : e \in {x \in map.edges : x.from # id /\ x.to = id /\ ~x.directed}}

Unknown == 1000   \* u32::MAX: no cost yet

CostOf(best, id) == IF id \in DOMAIN best THEN best[id] ELSE Unknown

\* What the heap gives next: the least cost, then the least identifier.
Top(heap) == CHOOSE h \in heap : \A o \in heap \ {h} :
               h[1] < o[1] \/ (h[1] = o[1] /\ Before(h[2], o[2]))

\* Mutant: a neighbour's price forgets the way so far.
RelaxBare(map, search, cost, at, budget) ==
  LET better == {n \in Neighbours(map, at) : n[2] <= budget /\ n[2] < CostOf(search.best, n[1])}
      found  == {n[1] : n \in better}
      price  == [id \in found |-> Min({n[2] : n \in {x \in better : x[1] = id}})]
  IN  [best |-> price @@ search.best,
       prev |-> [id \in found |-> at] @@ search.prev,
       heap |-> search.heap \cup {<<price[id], id>> : id \in found}]
\* One popped site relaxes its neighbours.  search is [best, prev, heap].
Relax(map, search, cost, at, budget) ==
  LET better == {n \in Neighbours(map, at) :
                   cost + n[2] <= budget /\ cost + n[2] < CostOf(search.best, n[1])}
      found  == {n[1] : n \in better}
      price  == [id \in found |-> cost + Min({n[2] : n \in {x \in better : x[1] = id}})]
  IN  [best |-> price @@ search.best,
       prev |-> [id \in found |-> at] @@ search.prev,
       heap |-> search.heap \cup {<<price[id], id>> : id \in found}]

Start(from) == [best |-> from :> 0, prev |-> <<>>, heap |-> {<<0, from>>}]

\* The next site: passed over when a cheaper way to it was settled before.
Popped(map, search, budget) ==
  LET h    == Top(search.heap)
      rest == [search EXCEPT !.heap = @ \ {h}]
  IN  IF h[1] > CostOf(search.best, h[2]) THEN rest ELSE Relax(map, rest, h[1], h[2], budget)

\* Every site is relaxed once and pushes each of the others at most once.
Pops(map) == Cardinality(map.nodes) * Cardinality(map.nodes) + 1

\* The search when nothing is left, or when the target comes up.
Searched(map, from, budget, to) ==
  LET over(s)   == s.heap = {} \/ Top(s.heap)[2] \in to
      search[n \in 0..Pops(map)] ==
        IF n = 0 THEN Start(from)
        ELSE LET s == search[n - 1] IN IF over(s) THEN s ELSE Popped(map, s, budget)
  IN  search[Pops(map)]

\* Every site within the budget, and its least cost.
ReachableWithin(map, from, budget) ==
  IF from \notin map.nodes THEN <<>> ELSE Searched(map, from, budget, {}).best

PathBack(prev, to) ==
  LET path[id \in {to} \cup DOMAIN prev \cup Range(prev)] ==
        IF id \in DOMAIN prev THEN Append(path[prev[id]], id) ELSE <<id>>
  IN  path[to]

NoRoute == [path |-> <<>>, cost |-> 0]

\* The least-cost route as a site sequence with its weight, or NoRoute.
Route(map, from, to) ==
  LET search == Searched(map, from, Unknown - 1, {to})
  IN  IF {from, to} \subseteq map.nodes /\ search.heap # {}
      THEN [path |-> PathBack(search.prev, to), cost |-> Top(search.heap)[1]] ELSE NoRoute
=============================================================================
