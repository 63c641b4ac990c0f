----------------------------- MODULE Governance -----------------------------
(***************************************************************************)
(* Collaboration on a campaign: signed operations that peers store and     *)
(* exchange in any order, the view each peer folds out of the ones it has, *)
(* and what that view says of a proposal under a Moot's policy and the     *)
(* roster the peer knows: recognised content, a campaign bound to a Moot,  *)
(* a change of that binding, a conflict of bindings resolved.              *)
(*                                                                         *)
(* An operation's place in its author's log and its time are left out: no  *)
(* fold reads them.  What a host does with a status (take the binding,     *)
(* move to the branch, take the head) is external, as is the Moot.         *)
(***************************************************************************)
EXTENDS Naturals, FiniteSets

CONSTANTS
  Peer, Author,
  HomeOf,      \* the peer at which an author signs
  Moot, NoMoot,
  Proposal,    \* ids of content, bindings and resolutions
  Body,        \* the body of each proposal
  Main,        \* the branch the campaign starts on
  Head,        \* state heads an applied proposal may result in
  None,
  Founders,    \* [Moot -> SUBSET Author], the members at first
  Admission,   \* the policy under which a Moot admits campaigns
  Agendas      \* what authors may sign and which may join or leave a Moot, once:
               \* one set of errands is drawn, and so bounds the behaviour

ASSUME GovernanceAssumption ==
  /\ HomeOf \in [Author -> Peer]
  /\ Founders \in [Moot -> SUBSET Author]
  /\ NoMoot \notin Moot /\ None \notin Proposal \cup Head
  /\ IsFiniteSet(Author)

\* What a policy, a body and an errand look like; a sound binding has to be
\* checked for, and so does a sound resolution.
IsPolicy(policy) ==
  /\ policy.name \in {"AnyEligible", "Threshold", "Unanimous"}
  /\ policy.required \in Nat

ASSUME PolicyAssumption ==
  /\ \A m \in Moot : IsPolicy(Admission[m])
  /\ \A x \in Proposal :
       /\ Body[x].kind \in {"content", "binding", "resolution"}
       /\ Body[x].kind = "binding" => IsPolicy(Body[x].policy) /\ Body[x].moot \in Moot \cup {NoMoot}
       /\ Body[x].kind = "resolution" => Body[x].outcome \in {"Adopt", "Branch"}

ASSUME AgendaAssumption ==
  \A agendas \in Agendas : \A e \in agendas :
    /\ e.by \in Author
    /\ e.kind \in {"Propose", "Endorse", "Claim"} => e.on \in Proposal
    /\ e.kind \in {"Join", "Leave"} => e.on \in Moot
    /\ e.kind = "Claim" => e.head \in Head

VARIABLES
  agenda,   \* the errands of this behaviour: [by, kind, on, head]
  signed,   \* every operation ever signed
  stored,   \* [Peer -> the operations in its store]
  rosters,  \* [Moot -> its winning joins], a set of <<author, number>>
  turnover, \* how many memberships began or ended
  seen,     \* [Peer -> [Moot -> the roster the peer's Moot store gives]]
  binding,  \* [Peer -> the proposal the campaign is bound by, or None]
  branch,   \* [Peer -> the branch its space is opened on]
  head,     \* [Peer -> the recognised head it applied, or None]
  followed  \* [Peer -> the resolution that parted branches and the candidate it
            \* went along with, or None]

moots == <<rosters, turnover, seen>>
hosts == <<binding, branch, head, followed>>
vars  == <<agenda, signed, stored, moots, hosts>>

-----------------------------------------------------------------------------
(* What an operation may carry *)

\* CampaignProposal, CampaignGovernanceBinding and
\* CampaignGovernanceResolution::validate.
ValidContent(b)    == b.complete
ValidBinding(b)    == b.moot # NoMoot /\ b.policy.required > 0

\* Mutant: two candidates may be given one branch.
ValidBlurred(b) ==
  /\ Cardinality(b.candidates) >= 2
  /\ b.outcome = "Adopt"  => b.selected \in b.candidates
  /\ b.outcome = "Branch" => /\ DOMAIN b.branches = b.candidates
                             /\ \A x \in b.candidates : b.branches[x] # None

ValidResolution(b) ==
  /\ Cardinality(b.candidates) >= 2
  /\ None \notin b.candidates
  /\ b.outcome = "Adopt"  => b.selected \in b.candidates
  /\ b.outcome = "Branch" => /\ DOMAIN b.branches = b.candidates
                             /\ \A x \in b.candidates : b.branches[x] # None
                             /\ \A x, y \in b.candidates :
                                  x # y => b.branches[x] # b.branches[y]

Valid(x) ==
  LET b == Body[x]
  IN  CASE b.kind = "content"    -> ValidContent(b)
        [] b.kind = "binding"    -> ValidBinding(b)
        [] b.kind = "resolution" -> ValidResolution(b)

\* Mutant: a campaign that is bound stores no rival bindings.
InsertsUnrivalled(p, op) ==
  /\ op.branch = branch[p]
  /\ op.kind = "Propose" => /\ Valid(op.on)
                            /\ Body[op.on].kind = "binding" => binding[p] = None

\* CampaignSpace::insert at p: this campaign, this branch, a sound proposal.
Inserts(p, op) ==
  /\ op.branch = branch[p]
  /\ op.kind = "Propose" => Valid(op.on)

-----------------------------------------------------------------------------
(* The view, a fold that does not depend on the order of its operations *)

Operations(p) == {op \in stored[p] : op.branch = branch[p]}

Proposed(p)     == {op.on : op \in {o \in Operations(p) : o.kind = "Propose"}}
Known(p, x)     == x \in Proposed(p)
Endorsers(p, x) == {op.by : op \in {o \in Operations(p) : o.kind = "Endorse" /\ o.on = x}}
Claims(p, x)    == {op \in Operations(p) : op.kind = "Claim" /\ op.on = x}

\* A recognition context: a policy and a roster; its fingerprint commits to both.
Context(p, m, policy) == [moot |-> m, policy |-> policy, roster |-> seen[p][m]]

Members(c) == {j[1] : j \in c.roster}

\* Mutant: endorsements count whoever gave them.
AcceptsAll(c, endorsers) ==
  CASE c.policy.name = "AnyEligible" -> endorsers # {}
    [] c.policy.name = "Threshold"   -> Cardinality(endorsers) >= c.policy.required
    [] c.policy.name = "Unanimous"   -> Members(c) \subseteq endorsers

\* RecognitionContext::evaluate
Accepts(c, endorsers) ==
  LET eligible == endorsers \cap Members(c)
  IN  CASE c.policy.name = "AnyEligible" -> eligible # {}
        [] c.policy.name = "Threshold"   -> Cardinality(eligible) >= c.policy.required
        [] c.policy.name = "Unanimous"   -> eligible # {} /\ eligible = Members(c)

\* Claims made under exactly this context; the others are stale.
Matching(p, x, c) == {op \in Claims(p, x) : op.context = c}

\* Mutant: heads that differ cancel each other.
AgreedHeads(p, x, c) ==
  IF Body[x].kind = "content" /\ Known(p, x) /\ Accepts(c, Endorsers(p, x))
  THEN {op.head : op \in {o \in Matching(p, x, c) : \A n \in Matching(p, x, c) : n.head = o.head}}
  ELSE {}

\* recognition_status: the heads that may be applied
ApplicableHeads(p, x, c) ==
  IF Body[x].kind = "content" /\ Known(p, x) /\ Accepts(c, Endorsers(p, x))
  THEN {op.head : op \in Matching(p, x, c)} ELSE {}

\* evaluate_governance
IsBound(p, x, c) ==
  /\ Body[x].kind = "binding" /\ Known(p, x)
  /\ Accepts(c, Endorsers(p, x))
  /\ Matching(p, x, c) # {}

\* governance_admission_status: the Moot the binding names decides.
Admitted(p, x) ==
  LET m == Body[x].moot
  IN  IsBound(p, x, Context(p, m, Admission[m]))

\* The context of the binding the campaign has.
CurrentContext(p) ==
  LET b == Body[binding[p]] IN Context(p, b.moot, b.policy)

\* governance_change_status: the Moot the campaign is bound to decides.
Changed(p, x) == IsBound(p, x, CurrentContext(p))

\* evaluate_governance_resolution: every candidate bound under the context.
IsResolved(p, r, c) ==
  /\ Body[r].kind = "resolution" /\ Known(p, r)
  /\ \A x \in Body[r].candidates : IsBound(p, x, c)
  /\ Accepts(c, Endorsers(p, r))
  /\ Matching(p, r, c) # {}

\* governance_resolution_admission_status: candidates of one Moot only.
ResolvedAtFirst(p, r) ==
  \E m \in Moot :
    /\ \A x \in Body[r].candidates : Known(p, x) /\ Body[x].moot = m
    /\ IsResolved(p, r, Context(p, m, Admission[m]))

ResolvedLater(p, r) == IsResolved(p, r, CurrentContext(p))

-----------------------------------------------------------------------------
(* Authors and peers *)

\* The contexts an author's host claims under: the one the campaign is bound by,
\* or before it is the one in which the Moot of x admits.
ClaimContexts(p, x) ==
  LET b == Body[x]
      moot == CASE b.kind = "binding"    -> {b.moot}
                [] b.kind = "resolution" -> {Body[y].moot : y \in b.candidates}
                [] b.kind = "content"    -> {}
  IN  IF binding[p] # None THEN {CurrentContext(p)}
      ELSE {Context(p, m, Admission[m]) : m \in moot}

\* An errand as an operation, of a proposal the peer knows (ids are hashes).
Signable(p, e) ==
  LET plain == [by |-> e.by, kind |-> e.kind, on |-> e.on, branch |-> branch[p]]
      under(c) == [by |-> e.by, kind |-> e.kind, on |-> e.on, branch |-> branch[p],
                   head |-> e.head, context |-> c]
  IN  CASE e.kind = "Propose" -> {plain}
        [] e.kind = "Endorse" -> {o \in {plain} : Known(p, e.on)}
        [] e.kind = "Claim"   -> {under(c) : c \in {k \in ClaimContexts(p, e.on) : Known(p, e.on)}}
        [] OTHER -> {}

\* CampaignSyncSession::author: signed and inserted; the publication may fail,
\* which leaves the operation to the log exchange.
AuthorOp(p, e) ==
  /\ e \in agenda /\ HomeOf[e.by] = p
  /\ \E op \in Signable(p, e) :
       /\ Inserts(p, op)
       /\ signed' = signed \cup {op}
       /\ stored' = [stored EXCEPT ![p] = @ \cup {op}]
  /\ agenda' = agenda \ {e}
  /\ UNCHANGED <<moots, hosts>>

\* SyncedSpace::drive at p: an operation another peer stores arrives, live or
\* by catching up, in whatever order.
Deliver(p, op) ==
  /\ op \in UNION {stored[q] : q \in Peer \ {p}} \ stored[p]
  /\ Inserts(p, op)
  /\ stored' = [stored EXCEPT ![p] = @ \cup {op}]
  /\ UNCHANGED <<agenda, signed, moots, hosts>>

-----------------------------------------------------------------------------
(* The Moot, external *)

\* An author joins or leaves; a roster commits to the joins that stand, so one
\* who left and joined again stands by another.
Join(e) ==
  /\ e \in agenda /\ e.kind = "Join"
  /\ e.by \notin {j[1] : j \in rosters[e.on]}
  /\ rosters'  = [rosters EXCEPT ![e.on] = @ \cup {<<e.by, turnover + 1>>}]
  /\ turnover' = turnover + 1
  /\ agenda' = agenda \ {e}
  /\ UNCHANGED <<signed, stored, seen, hosts>>

Leave(e) ==
  /\ e \in agenda /\ e.kind = "Leave"
  /\ \E j \in rosters[e.on] :
       /\ j[1] = e.by
       /\ rosters' = [rosters EXCEPT ![e.on] = @ \ {j}]
  /\ turnover' = turnover + 1
  /\ agenda' = agenda \ {e}
  /\ UNCHANGED <<signed, stored, seen, hosts>>

\* CampaignMootContext::load: the roster a status is computed under.
Load(p, m) ==
  /\ seen[p][m] # rosters[m]
  /\ seen' = [seen EXCEPT ![p][m] = rosters[m]]
  /\ UNCHANGED <<agenda, signed, stored, rosters, turnover, hosts>>

-----------------------------------------------------------------------------
(* The host of a campaign, external: it follows what the statuses say *)

\* A binding that no other competes with is taken.
Bind(p, x) ==
  /\ binding[p] = None
  /\ Body[x].kind = "binding" /\ Admitted(p, x)
  /\ \A y \in Proposal \ {x} : Body[y].kind = "binding" => ~Admitted(p, y)
  /\ binding' = [binding EXCEPT ![p] = x]
  /\ UNCHANGED <<agenda, signed, stored, moots, branch, head, followed>>

Rebind(p, x) ==
  /\ binding[p] # None /\ x # binding[p]
  /\ Changed(p, x)
  /\ binding' = [binding EXCEPT ![p] = x]
  /\ UNCHANGED <<agenda, signed, stored, moots, branch, head, followed>>

\* A resolved conflict: one candidate for all, or a branch for each, of which
\* this peer goes along with one.
Resolve(p, r) ==
  /\ Body[r].kind = "resolution"
  /\ IF binding[p] = None THEN ResolvedAtFirst(p, r) ELSE ResolvedLater(p, r)
  /\ \/ /\ Body[r].outcome = "Adopt"
        /\ binding' = [binding EXCEPT ![p] = Body[r].selected]
        /\ UNCHANGED <<branch, followed>>
     \/ /\ Body[r].outcome = "Branch"
        /\ \E x \in Body[r].candidates :
             /\ binding' = [binding EXCEPT ![p] = x]
             /\ branch'  = [branch EXCEPT ![p] = Body[r].branches[x]]
             /\ followed' = [followed EXCEPT ![p] = [resolution |-> r, candidate |-> x]]
  /\ UNCHANGED <<agenda, signed, stored, moots, head>>

\* Content is applied when one head is recognised; more are a conflict.
Apply(p, x) ==
  /\ binding[p] # None /\ Body[x].kind = "content"
  /\ \E h \in Head :
       /\ ApplicableHeads(p, x, CurrentContext(p)) = {h}
       /\ head[p] # h
       /\ head' = [head EXCEPT ![p] = h]
  /\ UNCHANGED <<agenda, signed, stored, moots, binding, branch, followed>>

-----------------------------------------------------------------------------
Init ==
  /\ agenda \in Agendas
  /\ signed = {} /\ stored = [p \in Peer |-> {}]
  /\ rosters = [m \in Moot |-> Founders[m] \X {0}]
  /\ turnover = 0
  /\ seen = [p \in Peer |-> rosters]
  /\ binding = [p \in Peer |-> None]
  /\ branch  = [p \in Peer |-> Main]
  /\ head    = [p \in Peer |-> None]
  /\ followed = [p \in Peer |-> None]

Next ==
  \/ \E p \in Peer : \/ \E e \in agenda : AuthorOp(p, e)
                     \/ \E op \in signed : Deliver(p, op)
                     \/ \E m \in Moot : Load(p, m)
                     \/ \E x \in Proposal : \/ Bind(p, x)
                                            \/ Rebind(p, x)
                                            \/ Resolve(p, x)
                                            \/ Apply(p, x)
  \/ \E e \in agenda : Join(e) \/ Leave(e)

Spec == Init /\ [][Next]_vars

\* The log exchange goes on, and a host reloads a roster before it reads a status.
FairSpec ==
  /\ Spec
  /\ \A p \in Peer : /\ WF_vars(\E op \in signed : Deliver(p, op))
                     /\ WF_vars(\E m \in Moot : Load(p, m))

-----------------------------------------------------------------------------
(* Properties *)

\* Stores hold signed operations, and a peer's operations are of its branch.
TypeOK ==
  /\ agenda \in SUBSET UNION Agendas
  /\ \A p \in Peer : stored[p] \subseteq signed
  /\ \A op \in signed : op.by \in Author /\ op.on \in Proposal
  /\ rosters \in [Moot -> SUBSET (Author \X (0 .. turnover))]
  /\ seen \in [Peer -> [Moot -> SUBSET (Author \X (0 .. turnover))]]
  /\ binding \in [Peer -> Proposal \cup {None}]
  /\ head \in [Peer -> Head \cup {None}]

\* As many of c's members as its policy asks for have really signed for x.
Consented(c, x) ==
  LET signers == {a \in Members(c) : \E op \in signed : /\ op.kind = "Endorse"
                                                        /\ op.by = a /\ op.on = x}
  IN  Cardinality(signers) >= CASE c.policy.name = "AnyEligible" -> 1
                                [] c.policy.name = "Threshold"   -> c.policy.required
                                [] c.policy.name = "Unanimous"   -> Cardinality(Members(c))

\* A step at p that changes its binding or its head has the consent of the Moot
\* that decides it, the named one's when there is no binding yet.
Consents(p) ==
  LET own == CurrentContext(p)
      to  == binding'[p]
  IN  /\ binding[p] # None /\ to # binding[p] => Consented(own, to)
      /\ binding[p] = None /\ to # None =>
           Consented(Context(p, Body[to].moot, Admission[Body[to].moot]), to)
      /\ head'[p] # head[p] => \E x \in Proposal :
           Body[x].kind = "content" /\ Consented(own, x)

\* The Moot a campaign is bound to decides every change of its binding and
\* every head it applies: a destination cannot authorise its own takeover, and
\* outsiders' endorsements never count (the admission of a first binding is the
\* named Moot's own).
MootConsents == [][\A p \in Peer : Consents(p)]_vars

\* The contexts under which p asks what is decided: its own Moot's, or each
\* Moot's admission while it is bound to none.
Contexts(p) ==
  IF binding[p] = None THEN {Context(p, m, Admission[m]) : m \in Moot} ELSE {CurrentContext(p)}

\* What of the known proposals is decided at p under c is decided after the
\* step: bindings and resolutions, and the heads that may be applied.
Stands(p, c) ==
  \A x \in Proposed(p) :
    /\ IsBound(p, x, c) => IsBound(p, x, c)'
    /\ IsResolved(p, x, c) => IsResolved(p, x, c)'
    /\ \A h \in ApplicableHeads(p, x, c) : h \in ApplicableHeads(p, x, c)'

\* What is decided under a context stays decided under it: no operation that
\* arrives late, a rival binding, another head, an outsider's endorsement,
\* withdraws a decision ("Competing accepted changes remain separate statuses
\* for explicit UI", view.rs governance_change_status).
DecisionsStand ==
  [][\A p \in Peer : stored'[p] # stored[p] => \A c \in Contexts(p) : Stands(p, c)]_vars

\* A conflict resolved by branching keeps its candidates apart: peers that went
\* along with different candidates of one resolution read nothing of each
\* other's from then on.
BranchesApart ==
  \A p, q \in Peer :
    /\ None \notin {followed[p], followed[q]}
    /\ followed[p].resolution = followed[q].resolution
    /\ followed[p].candidate # followed[q].candidate
    => Operations(p) \cap Operations(q) = {}

\* Peers on a branch come to see the same of everything signed on it.
ViewsMeet ==
  <>[](\A p \in Peer : Operations(p) = {op \in signed : op.branch = branch[p]})
=============================================================================
