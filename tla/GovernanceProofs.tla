-------------------------- MODULE GovernanceProofs --------------------------
(***************************************************************************)
(* Theorems about Governance, for every set of peers, authors, Moots and   *)
(* proposals and every agenda: the variables keep their types, no binding  *)
(* changes without the consent of the Moot that decides it, no operation   *)
(* withdraws a decision, and the branches of a resolution keep apart.      *)
(***************************************************************************)
EXTENDS Governance, FiniteSetTheorems, TLAPS

\* What the steps rely on besides the types: a store holds sound proposals only,
\* and a campaign is bound by a sound binding.
Sound ==
  /\ stored \in [Peer -> SUBSET signed]
  /\ binding \in [Peer -> Proposal \cup {None}]
  /\ \A p \in Peer : \A op \in stored[p] : op.kind = "Propose" => Valid(op.on)
  /\ \A p \in Peer : binding[p] # None => Body[binding[p]].kind = "binding" /\ Valid(binding[p])

IInv == TypeOK /\ Sound /\ turnover \in Nat

\* An operation is of its errand's author, kind and proposal.
LEMMA SignableIs ==
  ASSUME NEW p, NEW e, NEW op \in Signable(p, e)
  PROVE  /\ op.by = e.by /\ op.on = e.on /\ op.kind = e.kind
         /\ e.kind \in {"Propose", "Endorse", "Claim"}
<1>1. CASE e.kind = "Propose"
  BY <1>1 DEF Signable
<1>2. CASE e.kind = "Endorse"
  BY <1>2 DEF Signable
<1>3. CASE e.kind = "Claim"
  BY <1>3 DEF Signable
<1>4. CASE e.kind \notin {"Propose", "Endorse", "Claim"}
  BY <1>4 DEF Signable
<1> QED BY <1>1, <1>2, <1>3, <1>4

-----------------------------------------------------------------------------
(* What is known and bound *)

LEMMA KnownSound ==
  ASSUME IInv, NEW p \in Peer, NEW x, Known(p, x)
  PROVE  x \in Proposal /\ Valid(x)
  BY DEF IInv, TypeOK, Sound, Known, Proposed, Operations

LEMMA BoundSound ==
  ASSUME IInv, NEW p \in Peer, NEW x, NEW c, IsBound(p, x, c)
  PROVE  /\ x \in Proposal /\ Valid(x) /\ Body[x].kind = "binding"
         /\ IsPolicy(Body[x].policy) /\ Body[x].moot \in Moot
<1>1. x \in Proposal /\ Valid(x) /\ Body[x].kind = "binding"
  BY KnownSound DEF IsBound
<1>2. Body[x].moot # NoMoot
  BY <1>1 DEF Valid, ValidBinding
<1> QED BY <1>1, <1>2, PolicyAssumption

\* The candidate a peer takes of a resolution is one that is bound.
LEMMA ResolvedIs ==
  ASSUME IInv, NEW p \in Peer, NEW r \in Proposal, NEW c, IsResolved(p, r, c)
  PROVE  /\ Body[r].outcome = "Adopt" => Body[r].selected \in Body[r].candidates
         /\ Body[r].outcome = "Branch" =>
              /\ DOMAIN Body[r].branches = Body[r].candidates
              /\ \A x, y \in Body[r].candidates : x # y => Body[r].branches[x] # Body[r].branches[y]
         /\ \A x \in Body[r].candidates : IsBound(p, x, c)
<1>1. Valid(r) /\ Body[r].kind = "resolution"
  BY KnownSound DEF IsResolved
<1> QED BY <1>1 DEF Valid, ValidResolution, IsResolved

-----------------------------------------------------------------------------
(* Consent *)

\* A roster a peer has loaded is of authors, finitely many.
LEMMA RosterType ==
  ASSUME IInv, NEW p \in Peer, NEW m \in Moot
  PROVE  seen[p][m] \subseteq Author \X Nat
<1>1. seen[p][m] \in SUBSET (Author \X (0 .. turnover)) /\ turnover \in Nat
  BY DEF IInv, TypeOK
<1> QED BY <1>1

\* Endorsements that satisfy a policy are signed by as many members as it asks.
LEMMA AcceptedIsConsent ==
  ASSUME IInv, NEW p \in Peer, NEW x, NEW m \in Moot, NEW policy, IsPolicy(policy),
         Accepts(Context(p, m, policy), Endorsers(p, x))
  PROVE  Consented(Context(p, m, policy), x)
<1> DEFINE c == Context(p, m, policy)
           signers  == {a \in Members(c) : \E op \in signed : op.kind = "Endorse" /\ op.by = a /\ op.on = x}
           eligible == Endorsers(p, x) \cap Members(c)
<1>1. c.policy = policy /\ c.roster = seen[p][m]
  BY DEF Context
<1>2. Members(c) \subseteq Author
  BY <1>1, RosterType DEF Members
<1>3. IsFiniteSet(Members(c))
  BY <1>2, GovernanceAssumption, FS_Subset
<1>4. IsFiniteSet(signers)
  BY <1>3, FS_Subset
<1>5. eligible \subseteq signers
  BY DEF IInv, Sound, Endorsers, Operations
<1>6. /\ IsFiniteSet(eligible) /\ Cardinality(eligible) \in Nat /\ Cardinality(signers) \in Nat
      /\ Cardinality(eligible) <= Cardinality(signers)
  BY <1>4, <1>5, FS_Subset, FS_CardinalityType
<1>7. eligible # {} => Cardinality(signers) >= 1
  <2>1. Cardinality(signers) = 0 => signers = {}
    BY <1>4, FS_EmptySet
  <2> QED BY <2>1, <1>5, <1>6
<1>8. Members(c) = eligible => signers = Members(c)
  BY <1>5
<1>9. Cardinality(Members(c)) \in Nat
  BY <1>3, FS_CardinalityType
<1>10. /\ policy.name = "AnyEligible" => eligible # {}
       /\ policy.name = "Threshold" => Cardinality(eligible) >= policy.required
       /\ policy.name = "Unanimous" => eligible = Members(c)
  BY <1>1 DEF Accepts
<1>11. Cardinality(signers) >= CASE policy.name = "AnyEligible" -> 1
                                 [] policy.name = "Threshold"   -> policy.required
                                 [] policy.name = "Unanimous"   -> Cardinality(Members(c))
  <2> HIDE DEF c, signers, eligible
  <2>1. CASE policy.name = "AnyEligible"
    BY <2>1, <1>7, <1>10
  <2>2. CASE policy.name = "Threshold"
    BY <2>2, <1>6, <1>10 DEF IsPolicy
  <2>3. CASE policy.name = "Unanimous"
    BY <2>3, <1>6, <1>8, <1>9, <1>10
  <2> QED BY <2>1, <2>2, <2>3 DEF IsPolicy
<1> QED BY <1>1, <1>11 DEF Consented

-----------------------------------------------------------------------------
(* The invariant *)

LEMMA InitIInv == Init => IInv
<1> SUFFICES ASSUME Init PROVE IInv
  OBVIOUS
<1>1. agenda \in SUBSET UNION Agendas /\ turnover \in Nat
  BY DEF Init
<1>2. rosters \in [Moot -> SUBSET (Author \X (0 .. turnover))]
  BY GovernanceAssumption DEF Init
<1> QED BY <1>1, <1>2 DEF Init, IInv, TypeOK, Sound

LEMMA AuthorOpIInv ==
  ASSUME IInv, NEW p \in Peer, NEW e, AuthorOp(p, e)
  PROVE  IInv'
<1>1. PICK op \in Signable(p, e) : /\ Inserts(p, op)
                                  /\ signed' = signed \cup {op}
                                  /\ stored' = [stored EXCEPT ![p] = @ \cup {op}]
  BY DEF AuthorOp
<1>2. PICK agendas \in Agendas : e \in agendas
  BY DEF AuthorOp, IInv, TypeOK
<1>3. op.by \in Author /\ op.on \in Proposal
  BY <1>2, SignableIs, AgendaAssumption
<1>4. op.kind = "Propose" => Valid(op.on)
  BY <1>1 DEF Inserts
<1>5. TypeOK'
  BY <1>1, <1>3 DEF IInv, TypeOK, Sound, AuthorOp, moots, hosts
<1>6. Sound'
  <2>1. stored' \in [Peer -> SUBSET signed']
    BY <1>1 DEF IInv, Sound
  <2>2. ASSUME NEW q \in Peer, NEW o \in stored'[q], o.kind = "Propose" PROVE Valid(o.on)
    BY <1>1, <1>4, <2>2 DEF IInv, Sound
  <2> QED BY <2>1, <2>2 DEF IInv, Sound, AuthorOp, hosts, Valid, ValidContent, ValidBinding, ValidResolution
<1> QED BY <1>5, <1>6 DEF IInv, AuthorOp, moots

LEMMA DeliverIInv ==
  ASSUME IInv, NEW p \in Peer, NEW op, Deliver(p, op)
  PROVE  IInv'
<1>1. op \in signed
  BY DEF Deliver, IInv, Sound
<1>2. TypeOK'
  BY <1>1 DEF IInv, TypeOK, Sound, Deliver, moots, hosts
<1>3. Sound'
  <2>1. stored' \in [Peer -> SUBSET signed']
    BY <1>1 DEF IInv, Sound, Deliver
  <2>2. ASSUME NEW q \in Peer, NEW o \in stored'[q], o.kind = "Propose" PROVE Valid(o.on)
    BY <2>2 DEF IInv, Sound, Deliver, Inserts
  <2> QED BY <2>1, <2>2 DEF IInv, Sound, Deliver, hosts, Valid, ValidContent, ValidBinding, ValidResolution
<1> QED BY <1>2, <1>3 DEF IInv, Deliver, moots

\* A roster of one turnover is one of the next.
LEMMA RostersGrow ==
  ASSUME IInv, turnover' = turnover + 1, UNCHANGED <<signed, stored, seen, hosts>>,
         agenda' \in SUBSET UNION Agendas,
         NEW m, NEW joins, joins \subseteq Author \X (0 .. turnover'),
         rosters' = [rosters EXCEPT ![m] = joins]
  PROVE  IInv'
<1>1. turnover' \in Nat /\ (0 .. turnover) \subseteq (0 .. turnover')
  BY DEF IInv
<1>2. Author \X (0 .. turnover) \subseteq Author \X (0 .. turnover')
  BY <1>1
<1>3. rosters' \in [Moot -> SUBSET (Author \X (0 .. turnover'))]
  BY <1>2 DEF IInv, TypeOK
<1>4. seen' \in [Peer -> [Moot -> SUBSET (Author \X (0 .. turnover'))]]
  <2>1. [Moot -> SUBSET (Author \X (0 .. turnover))] \subseteq [Moot -> SUBSET (Author \X (0 .. turnover'))]
    BY <1>2
  <2> QED BY <2>1 DEF IInv, TypeOK
<1>5. TypeOK'
  BY <1>3, <1>4 DEF IInv, TypeOK, hosts
<1>6. Sound'
  BY DEF IInv, Sound, hosts, Valid, ValidContent, ValidBinding, ValidResolution
<1> QED BY <1>1, <1>5, <1>6 DEF IInv

LEMMA MembershipIInv ==
  ASSUME IInv, NEW e, Join(e) \/ Leave(e)
  PROVE  IInv'
<1>1. PICK agendas \in Agendas : e \in agendas
  BY DEF Join, Leave, IInv, TypeOK
<1>2. agenda' \in SUBSET UNION Agendas
  BY DEF Join, Leave, IInv, TypeOK
<1>3. e.by \in Author /\ e.on \in Moot
  BY <1>1, AgendaAssumption DEF Join, Leave
<1>4. turnover \in Nat /\ turnover' = turnover + 1
  BY DEF Join, Leave, IInv
<1>5. rosters[e.on] \subseteq Author \X (0 .. turnover)
  BY <1>3 DEF IInv, TypeOK
<1>6. rosters[e.on] \subseteq Author \X (0 .. turnover')
  BY <1>4, <1>5
<1>7. PICK joins : joins \subseteq Author \X (0 .. turnover') /\ rosters' = [rosters EXCEPT ![e.on] = joins]
  <2>1. CASE Join(e)
    <3>1. <<e.by, turnover + 1>> \in Author \X (0 .. turnover')
      BY <1>3, <1>4
    <3> QED BY <2>1, <3>1, <1>6 DEF Join
  <2>2. CASE Leave(e)
    BY <2>2, <1>6 DEF Leave
  <2> QED BY <2>1, <2>2
<1> QED BY <1>2, <1>4, <1>7, RostersGrow DEF Join, Leave

LEMMA LoadIInv ==
  ASSUME IInv, NEW p \in Peer, NEW m \in Moot, Load(p, m)
  PROVE  IInv'
<1>1. rosters[m] \subseteq Author \X (0 .. turnover)
  BY DEF IInv, TypeOK
<1>2. seen' \in [Peer -> [Moot -> SUBSET (Author \X (0 .. turnover))]]
  BY <1>1 DEF IInv, TypeOK, Load
<1>3. TypeOK'
  BY <1>2 DEF IInv, TypeOK, Load, hosts
<1>4. Sound'
  BY DEF IInv, Sound, Load, hosts, Valid, ValidContent, ValidBinding, ValidResolution
<1> QED BY <1>3, <1>4 DEF IInv, Load

\* A host that takes a bound proposal stays bound by a sound one.
LEMMA BindingIInv ==
  ASSUME IInv, NEW p \in Peer, NEW x, NEW c, IsBound(p, x, c),
         binding' = [binding EXCEPT ![p] = x], UNCHANGED <<agenda, signed, stored, moots, head>>
  PROVE  IInv'
<1>1. x \in Proposal /\ Valid(x) /\ Body[x].kind = "binding"
  BY BoundSound
<1>2. TypeOK'
  BY <1>1 DEF IInv, TypeOK, moots
<1>3. Sound'
  <2>1. ASSUME NEW q \in Peer, binding'[q] # None
        PROVE  Body[binding'[q]].kind = "binding" /\ Valid(binding'[q])
    BY <1>1, <2>1 DEF IInv, Sound
  <2> QED BY <1>1, <2>1 DEF IInv, Sound, Valid, ValidContent, ValidBinding, ValidResolution
<1> QED BY <1>2, <1>3 DEF IInv, moots

\* What a peer is bound by after Bind, Rebind or Resolve was bound there before:
\* under the context of its own Moot, or, at first, under an admission.
LEMMA TakenIsBound ==
  ASSUME IInv, NEW p \in Peer, NEW x \in Proposal, Bind(p, x) \/ Rebind(p, x) \/ Resolve(p, x)
  PROVE  \E to :
           /\ binding' = [binding EXCEPT ![p] = to]
           /\ UNCHANGED <<agenda, signed, stored, moots, head>>
           /\ binding[p] # None => IsBound(p, to, CurrentContext(p))
           /\ binding[p] = None => IsBound(p, to, Context(p, Body[to].moot, Admission[Body[to].moot]))
<1>1. CASE Bind(p, x)
  <2>1. Admitted(p, x)
    BY <1>1 DEF Bind
  <2> QED BY <1>1, <2>1 DEF Bind, Admitted
<1>2. CASE Rebind(p, x)
  BY <1>2 DEF Rebind, Changed
<1>3. CASE Resolve(p, x) /\ binding[p] # None
  <2>1. IsResolved(p, x, CurrentContext(p))
    BY <1>3 DEF Resolve, ResolvedLater
  <2>2. PICK to \in Body[x].candidates : binding' = [binding EXCEPT ![p] = to]
    BY <1>3, <2>1, ResolvedIs DEF Resolve
  <2>3. IsBound(p, to, CurrentContext(p))
    BY <2>1, <2>2, ResolvedIs
  <2> QED BY <1>3, <2>2, <2>3 DEF Resolve
<1>4. CASE Resolve(p, x) /\ binding[p] = None
  <2>1. PICK m \in Moot : /\ \A y \in Body[x].candidates : Body[y].moot = m
                          /\ IsResolved(p, x, Context(p, m, Admission[m]))
    BY <1>4 DEF Resolve, ResolvedAtFirst
  <2>2. PICK to \in Body[x].candidates : binding' = [binding EXCEPT ![p] = to]
    BY <1>4, <2>1, ResolvedIs DEF Resolve
  <2>3. IsBound(p, to, Context(p, Body[to].moot, Admission[Body[to].moot]))
    BY <2>1, <2>2, ResolvedIs
  <2> QED BY <1>4, <2>2, <2>3 DEF Resolve
<1> QED BY <1>1, <1>2, <1>3, <1>4

LEMMA HostIInv ==
  ASSUME IInv, NEW p \in Peer, NEW x \in Proposal,
         Bind(p, x) \/ Rebind(p, x) \/ Resolve(p, x) \/ Apply(p, x)
  PROVE  IInv'
<1>1. CASE Bind(p, x) \/ Rebind(p, x) \/ Resolve(p, x)
  BY <1>1, TakenIsBound, BindingIInv
<1>2. CASE Apply(p, x)
  <2>1. TypeOK'
    BY <1>2 DEF IInv, TypeOK, Apply, moots
  <2>2. Sound'
    BY <1>2 DEF IInv, Sound, Apply, Valid, ValidContent, ValidBinding, ValidResolution
  <2> QED BY <1>2, <2>1, <2>2 DEF IInv, Apply, moots
<1> QED BY <1>1, <1>2

LEMMA NextIInv == IInv /\ [Next]_vars => IInv'
<1> SUFFICES ASSUME IInv, [Next]_vars PROVE IInv'
  OBVIOUS
<1>1. CASE UNCHANGED vars
  BY <1>1 DEF vars, moots, hosts, IInv, TypeOK, Sound, Valid, ValidContent, ValidBinding, ValidResolution
<1>2. ASSUME NEW p \in Peer, NEW e \in agenda, AuthorOp(p, e) PROVE IInv'
  BY <1>2, AuthorOpIInv
<1>3. ASSUME NEW p \in Peer, NEW op \in signed, Deliver(p, op) PROVE IInv'
  BY <1>3, DeliverIInv
<1>4. ASSUME NEW p \in Peer, NEW m \in Moot, Load(p, m) PROVE IInv'
  BY <1>4, LoadIInv
<1>5. ASSUME NEW p \in Peer, NEW x \in Proposal,
             Bind(p, x) \/ Rebind(p, x) \/ Resolve(p, x) \/ Apply(p, x)
      PROVE  IInv'
  BY <1>5, HostIInv
<1>6. ASSUME NEW e \in agenda, Join(e) \/ Leave(e) PROVE IInv'
  BY <1>6, MembershipIInv
<1> QED BY <1>1, <1>2, <1>3, <1>4, <1>5, <1>6 DEF Next

LEMMA AlwaysIInv == Spec => []IInv
  BY InitIInv, NextIInv, PTL DEF Spec

\* Stores, rosters, bindings and heads keep their types, and what a peer
\* stores has been signed (CampaignSpace::insert, CampaignMootContext::load).
THEOREM TypeCorrect == Spec => []TypeOK
<1>1. IInv => TypeOK
  BY DEF IInv
<1> QED BY <1>1, AlwaysIInv, PTL

-----------------------------------------------------------------------------
(* A binding changes with consent *)

LEMMA OwnContext ==
  ASSUME IInv, NEW p \in Peer, binding[p] # None
  PROVE  /\ Body[binding[p]].moot \in Moot /\ IsPolicy(Body[binding[p]].policy)
         /\ CurrentContext(p) = Context(p, Body[binding[p]].moot, Body[binding[p]].policy)
<1>1. binding[p] \in Proposal /\ Body[binding[p]].kind = "binding" /\ Valid(binding[p])
  BY DEF IInv, Sound
<1>2. Body[binding[p]].moot # NoMoot
  BY <1>1 DEF Valid, ValidBinding
<1> QED BY <1>1, <1>2, PolicyAssumption DEF CurrentContext

LEMMA IdleConsents ==
  ASSUME IInv, NEW q \in Peer, binding'[q] = binding[q], head'[q] = head[q]
  PROVE  Consents(q)
  BY DEF Consents

LEMMA TakingConsents ==
  ASSUME IInv, NEW p \in Peer, NEW x \in Proposal, Bind(p, x) \/ Rebind(p, x) \/ Resolve(p, x),
         NEW q \in Peer
  PROVE  Consents(q)
<1>1. PICK to : /\ binding' = [binding EXCEPT ![p] = to] /\ head' = head
                /\ binding[p] # None => IsBound(p, to, CurrentContext(p))
                /\ binding[p] = None => IsBound(p, to, Context(p, Body[to].moot, Admission[Body[to].moot]))
  BY TakenIsBound
<1>2. CASE q # p
  BY <1>1, <1>2, IdleConsents
<1>3. CASE q = p /\ binding[p] # None
  <2>1. Accepts(CurrentContext(p), Endorsers(p, to))
    BY <1>1, <1>3 DEF IsBound
  <2>2. Consented(CurrentContext(p), to)
    BY <1>3, <2>1, OwnContext, AcceptedIsConsent
  <2>3. binding'[p] = to
    BY <1>1 DEF IInv, Sound
  <2> QED BY <1>1, <1>3, <2>2, <2>3 DEF Consents
<1>4. CASE q = p /\ binding[p] = None
  <2>1. IsBound(p, to, Context(p, Body[to].moot, Admission[Body[to].moot]))
    BY <1>1, <1>4
  <2>2. Body[to].moot \in Moot /\ IsPolicy(Admission[Body[to].moot])
    BY <2>1, BoundSound, PolicyAssumption
  <2>3. Consented(Context(p, Body[to].moot, Admission[Body[to].moot]), to)
    BY <2>1, <2>2, AcceptedIsConsent DEF IsBound
  <2>4. binding'[p] = to
    BY <1>1 DEF IInv, Sound
  <2> QED BY <1>1, <1>4, <2>3, <2>4 DEF Consents
<1> QED BY <1>2, <1>3, <1>4

LEMMA ApplyingConsents ==
  ASSUME IInv, NEW p \in Peer, NEW x \in Proposal, Apply(p, x), NEW q \in Peer
  PROVE  Consents(q)
<1>1. binding' = binding /\ binding[p] # None /\ Body[x].kind = "content"
  BY DEF Apply
<1>2. PICK h \in Head : /\ ApplicableHeads(p, x, CurrentContext(p)) = {h}
                       /\ head' = [head EXCEPT ![p] = h]
  BY DEF Apply
<1>3. Accepts(CurrentContext(p), Endorsers(p, x))
  BY <1>2 DEF ApplicableHeads
<1>4. Consented(CurrentContext(p), x)
  BY <1>1, <1>3, OwnContext, AcceptedIsConsent
<1>5. q # p => head'[q] = head[q]
  BY <1>2
<1> QED BY <1>1, <1>4, <1>5 DEF Consents

\* No peer changes its binding, or applies a head, but on the endorsements of
\* as many members as the policy of the deciding Moot asks for: the one it is
\* bound to, and at first the one that admits it (governance_change_status,
\* governance_admission_status, recognition_status in view.rs).
THEOREM Consent == Spec => MootConsents
<1>1. IInv /\ [Next]_vars => [\A p \in Peer : Consents(p)]_vars
  <2> SUFFICES ASSUME IInv, Next, NEW q \in Peer PROVE Consents(q)
    OBVIOUS
  <2>1. ASSUME NEW p \in Peer, NEW e \in agenda, AuthorOp(p, e) PROVE Consents(q)
    BY <2>1, IdleConsents DEF AuthorOp, hosts
  <2>2. ASSUME NEW p \in Peer, NEW op \in signed, Deliver(p, op) PROVE Consents(q)
    BY <2>2, IdleConsents DEF Deliver, hosts
  <2>3. ASSUME NEW p \in Peer, NEW m \in Moot, Load(p, m) PROVE Consents(q)
    BY <2>3, IdleConsents DEF Load, hosts
  <2>4. ASSUME NEW p \in Peer, NEW x \in Proposal, Bind(p, x) \/ Rebind(p, x) \/ Resolve(p, x)
        PROVE  Consents(q)
    BY <2>4, TakingConsents
  <2>5. ASSUME NEW p \in Peer, NEW x \in Proposal, Apply(p, x) PROVE Consents(q)
    BY <2>5, ApplyingConsents
  <2>6. ASSUME NEW e \in agenda, Join(e) \/ Leave(e) PROVE Consents(q)
    BY <2>6, IdleConsents DEF Join, Leave, hosts
  <2> QED BY <2>1, <2>2, <2>3, <2>4, <2>5, <2>6 DEF Next
<1>2. Spec => [][\A p \in Peer : Consents(p)]_vars
  BY <1>1, AlwaysIInv, PTL DEF Spec
<1> QED BY <1>2 DEF MootConsents

-----------------------------------------------------------------------------
(* Decisions stand *)

\* The members of a context are authors, finitely many.
LEMMA FewMembers ==
  ASSUME IInv, NEW p \in Peer, NEW c \in Contexts(p)
  PROVE  IsFiniteSet(Members(c)) /\ IsPolicy(c.policy)
<1>1. PICK m, policy : m \in Moot /\ c = Context(p, m, policy) /\ IsPolicy(policy)
  BY OwnContext, PolicyAssumption DEF Contexts
<1>2. Members(c) \subseteq Author
  BY <1>1, RosterType DEF Members, Context
<1> QED BY <1>1, <1>2, GovernanceAssumption, FS_Subset DEF Context

\* More endorsements do not undo an acceptance.
LEMMA AcceptsMore ==
  ASSUME NEW c, IsFiniteSet(Members(c)), IsPolicy(c.policy), NEW few, NEW more, few \subseteq more,
         Accepts(c, few)
  PROVE  Accepts(c, more)
<1>1. few \cap Members(c) \subseteq more \cap Members(c)
  OBVIOUS
<1>2. /\ Cardinality(few \cap Members(c)) \in Nat /\ Cardinality(more \cap Members(c)) \in Nat
      /\ Cardinality(few \cap Members(c)) <= Cardinality(more \cap Members(c))
  <2>1. IsFiniteSet(more \cap Members(c))
    BY FS_Subset
  <2> QED BY <1>1, <2>1, FS_Subset, FS_CardinalityType
<1>3. CASE c.policy.name = "AnyEligible"
  BY <1>1, <1>3 DEF Accepts
<1>4. CASE c.policy.name = "Threshold"
  BY <1>2, <1>4 DEF Accepts, IsPolicy
<1>5. CASE c.policy.name = "Unanimous"
  BY <1>1, <1>5 DEF Accepts
<1> QED BY <1>3, <1>4, <1>5 DEF IsPolicy

\* A peer that stays on its branch and drops nothing decides what it decided.
LEMMA MoreDecidesMore ==
  ASSUME IInv, NEW p \in Peer, NEW c \in Contexts(p),
         stored[p] \subseteq stored'[p], branch'[p] = branch[p]
  PROVE  Stands(p, c)
<1>1. Operations(p) \subseteq Operations(p)'
  BY DEF Operations
<1>2. ASSUME NEW x, Known(p, x) PROVE Known(p, x)'
  BY <1>1, <1>2 DEF Known, Proposed
<1>3. ASSUME NEW x, Accepts(c, Endorsers(p, x)) PROVE Accepts(c, Endorsers(p, x)')
  <2>1. Endorsers(p, x) \subseteq Endorsers(p, x)'
    BY <1>1 DEF Endorsers
  <2> QED BY <1>3, <2>1, FewMembers, AcceptsMore
<1>4. ASSUME NEW x PROVE Accepts(c, Endorsers(p, x)') <=> Accepts(c, Endorsers(p, x))'
  BY DEF Accepts, Members
<1>5. ASSUME NEW x PROVE Matching(p, x, c) \subseteq Matching(p, x, c)'
  BY <1>1 DEF Matching, Claims
<1>6. ASSUME NEW x, IsBound(p, x, c) PROVE IsBound(p, x, c)'
  BY <1>2, <1>3, <1>4, <1>5, <1>6 DEF IsBound
<1>7. ASSUME NEW x, IsResolved(p, x, c) PROVE IsResolved(p, x, c)'
  BY <1>2, <1>3, <1>4, <1>5, <1>6, <1>7 DEF IsResolved
<1>8. ASSUME NEW x, NEW h \in ApplicableHeads(p, x, c) PROVE h \in ApplicableHeads(p, x, c)'
  BY <1>2, <1>3, <1>4, <1>5, <1>8 DEF ApplicableHeads
<1> QED BY <1>6, <1>7, <1>8 DEF Stands

\* An operation that arrives, whichever it is and however late, withdraws
\* nothing that is decided under the context at hand: the view is folded from
\* sets that only grow (materialize in space.rs), a status asks for enough
\* endorsements and one claim, never for the absence of others (view.rs:12-58,
\* 133-217).
THEOREM Standing == Spec => DecisionsStand
<1>1. ASSUME IInv, [Next]_vars, NEW p \in Peer, stored'[p] # stored[p], NEW c \in Contexts(p)
      PROVE  Stands(p, c)
  <2>1. CASE \E q \in Peer, e \in agenda : AuthorOp(q, e)
    <3>1. stored[p] \subseteq stored'[p] /\ branch' = branch
      BY <2>1 DEF AuthorOp, hosts, IInv, Sound
    <3> QED BY <1>1, <3>1, MoreDecidesMore
  <2>2. CASE \E q \in Peer, op \in signed : Deliver(q, op)
    <3>1. stored[p] \subseteq stored'[p] /\ branch' = branch
      BY <2>2 DEF Deliver, hosts, IInv, Sound
    <3> QED BY <1>1, <3>1, MoreDecidesMore
  <2> QED BY <1>1, <2>1, <2>2 DEF Next, Load, Bind, Rebind, Resolve, Apply, Join, Leave, vars, moots, hosts
<1>2. IInv /\ [Next]_vars =>
        [\A p \in Peer : stored'[p] # stored[p] => \A c \in Contexts(p) : Stands(p, c)]_vars
  BY <1>1
<1> QED BY <1>2, AlwaysIInv, PTL DEF Spec, DecisionsStand

-----------------------------------------------------------------------------
(* Branches keep apart *)

\* A peer that went along with a candidate is on the branch that the resolution
\* gives that candidate, and the resolution is one a store takes.
OnItsBranch ==
  /\ branch \in [Peer -> {branch[p] : p \in Peer}] /\ followed \in [Peer -> {followed[p] : p \in Peer}]
  /\ \A p \in Peer : followed[p] # None =>
       LET b == Body[followed[p].resolution]
       IN  /\ b.kind = "resolution" /\ b.outcome = "Branch" /\ ValidResolution(b)
           /\ followed[p].candidate \in b.candidates
           /\ branch[p] = b.branches[followed[p].candidate]

LEMMA OnItsBranchStep ==
  ASSUME IInv, OnItsBranch, [Next]_vars
  PROVE  OnItsBranch'
<1>1. CASE UNCHANGED <<branch, followed>>
  BY <1>1 DEF OnItsBranch, ValidResolution
<1>2. ASSUME NEW p \in Peer, NEW r \in Proposal, Resolve(p, r), NEW x \in Body[r].candidates,
             Body[r].outcome = "Branch",
             branch' = [branch EXCEPT ![p] = Body[r].branches[x]],
             followed' = [followed EXCEPT ![p] = [resolution |-> r, candidate |-> x]]
      PROVE  OnItsBranch'
  <2>1. /\ branch' = [q \in Peer |-> branch'[q]] /\ followed' = [q \in Peer |-> followed'[q]]
        /\ branch'[p] = Body[r].branches[x] /\ followed'[p] = [resolution |-> r, candidate |-> x]
        /\ \A q \in Peer \ {p} : branch'[q] = branch[q] /\ followed'[q] = followed[q]
    BY <1>2 DEF OnItsBranch
  <2>2. Body[r].kind = "resolution" /\ ValidResolution(Body[r])
    <3>1. Body[r].kind = "resolution" /\ Known(p, r)
      BY <1>2 DEF Resolve, ResolvedAtFirst, ResolvedLater, IsResolved
    <3>2. Valid(r)
      BY <3>1, KnownSound
    <3> QED BY <3>1, <3>2 DEF Valid, ValidResolution
  <2>3. ASSUME NEW q \in Peer, followed'[q] # None
        PROVE  LET b == Body[followed'[q].resolution]
               IN  /\ b.kind = "resolution" /\ b.outcome = "Branch" /\ ValidResolution(b)
                   /\ followed'[q].candidate \in b.candidates
                   /\ branch'[q] = b.branches[followed'[q].candidate]
    <3>1. CASE q = p
      <4>1. followed'[q].resolution = r /\ followed'[q].candidate = x /\ branch'[q] = Body[r].branches[x]
        BY <2>1, <3>1
      <4> QED BY <1>2, <2>2, <4>1
    <3>2. CASE q # p
      <4>1. followed'[q] = followed[q] /\ branch'[q] = branch[q]
        BY <2>1, <3>2
      <4> QED BY <2>3, <4>1 DEF OnItsBranch
    <3> QED BY <3>1, <3>2
  <2> QED BY <2>1, <2>3, ZenonT(60) DEF OnItsBranch, ValidResolution
<1>3. UNCHANGED <<branch, followed>> \/
        \E p \in Peer, r \in Proposal : Resolve(p, r) /\ ~UNCHANGED <<branch, followed>>
  BY DEF Next, AuthorOp, Deliver, Load, Bind, Rebind, Apply, Join, Leave, vars, moots, hosts
<1> QED BY <1>1, <1>2, <1>3 DEF Resolve

\* Peers that went along with different candidates of one resolution read
\* nothing of each other's: a resolution that a store takes gives each
\* candidate a branch of its own (types.rs:136-146), and CampaignSpace::operations
\* reads the log of one branch.
THEOREM Apart == Spec => []BranchesApart
<1>1. Init => OnItsBranch
  BY DEF Init, OnItsBranch
<1>2. IInv /\ OnItsBranch /\ [Next]_vars => OnItsBranch'
  BY OnItsBranchStep
<1>3. OnItsBranch => BranchesApart
  <2> SUFFICES ASSUME OnItsBranch, NEW p \in Peer, NEW q \in Peer,
                      None \notin {followed[p], followed[q]},
                      followed[p].resolution = followed[q].resolution,
                      followed[p].candidate # followed[q].candidate
               PROVE  Operations(p) \cap Operations(q) = {}
    BY DEF BranchesApart
  <2>1. branch[p] # branch[q]
    <3> DEFINE b == Body[followed[p].resolution]
    <3>1. /\ b.outcome = "Branch" /\ ValidResolution(b)
          /\ followed[p].candidate \in b.candidates /\ followed[q].candidate \in b.candidates
          /\ branch[p] = b.branches[followed[p].candidate]
          /\ branch[q] = b.branches[followed[q].candidate]
      BY DEF OnItsBranch
    <3> QED BY <3>1 DEF ValidResolution
  <2> QED BY <2>1 DEF Operations
<1> QED BY <1>1, <1>2, <1>3, AlwaysIInv, PTL DEF Spec
=============================================================================
