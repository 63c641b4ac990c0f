---------------------------- MODULE Adjudication ----------------------------
(***************************************************************************)
(* The road from "I swing at that goblin" to the goblin being hurt, on the *)
(* host: the session takes a player's ask and queues it, the bridge actor  *)
(* hands it to the app, the app rules on it against its own mirror of the  *)
(* board, and the verdict goes back through the bridge to be committed.    *)
(* The app rules when its DM asks something of the sheets, or when a sheet *)
(* is open and has to be computed again; an ask alone does not make it.    *)
(* Two threads and two channels lie between the ruling and the commit, and *)
(* the mirror is replaced by every snapshot that comes back.               *)
(*                                                                         *)
(* A Board is what a ruling reads and a verdict changes: whose each token  *)
(* is, what it has spent this turn, who is down and whose turn it is.      *)
(* Reach, dice and hit points are the rules system's: their result is the  *)
(* outcome, chosen freely.                                                 *)
(***************************************************************************)
EXTENDS Integers, Sequences, FiniteSets, FiniteSetsExt

CONSTANTS
  Token,
  Player,
  Dm,          \* owner None
  Owner,       \* the owners the session starts with
  Order,       \* the turn order
  PartyCap,    \* GameSnapshot.party_cap
  Budget,      \* what the afford rule lets one token spend in a turn
  Wants,       \* the <<player, actor, target, key>> that may be asked
  MaxAsk,      \* bound on the asks and swings together
  MaxTurns     \* bound on the ended turns

ASSUME OwnersAssumption ==
  IsFiniteSet(Token) /\ Owner \in [Token -> Player \cup {Dm}] /\ Dm \notin Player
ASSUME OrderAssumption == Order \in Seq(Token)
ASSUME LimitsAssumption ==
  /\ PartyCap \in Nat /\ Budget \in Nat \ {0} /\ MaxAsk \in Nat /\ MaxTurns \in Nat
ASSUME WantsAssumption ==
  Wants \subseteq (Player \cup {Dm}) \X Token \X Token \X {"Strike", "Recruit"}

VARIABLES
  host,       \* the session's board
  seq,        \* the session's event count
  taken,      \* applied_actions
  names,      \* players announced to the session
  pending,    \* HostSession.pending_actions
  step,       \* where run_host is in its loop
  batch,      \* the commands it drained
  lastSeq, lastNames,
  commands,   \* channel app to bridge
  updates,    \* channel bridge to app
  view,       \* the app's mirror of the board
  base,       \* the mirror as pump_net left it, before this pass's rulings
  mirrored,   \* the event count of the last snapshot mirrored
  intents,    \* NetBridge.action_intents
  queued,     \* what a pass of pump_sheets took of them
  sheet,      \* whether a sheet is open, and whether sheet_effective is there
  outbox,     \* UiState.net_outbox
  ruled,      \* the requests adjudicate has answered
  asked, turns \* counters behind the bounds

session == <<host, seq, taken, names, pending>>
bridge  == <<step, batch, lastSeq, lastNames>>
app     == <<view, base, mirrored, intents, queued, sheet, outbox, ruled>>
bounds  == <<asked, turns>>
vars    == <<session, bridge, commands, updates, app, bounds>>

Keep == "keep"   \* no owner change

\* TurnList::active; the cursor of an empty order points at nobody.
Active(b) == IF Order = <<>> THEN {} ELSE {Order[b.cursor + 1]}

\* The cursor k turns on, and how many turns advance_skipping takes: to the
\* first entry that is not down, or one whole lap.
At(b, k)   == (b.cursor + k) % Len(Order)
Up(b, k)   == Order[At(b, k) + 1] \notin b.down
Turns(b)   == CHOOSE k \in 1..Len(Order) : /\ Up(b, k) \/ k = Len(Order)
                                          /\ \A j \in 1..(k - 1) : ~Up(b, j)

\* TurnAdvance: the turn passes and whoever is up starts with nothing spent.
Advance(b) ==
  IF Order = <<>> THEN b
  ELSE [b EXCEPT !.cursor = At(b, Turns(b)), !.spent[Order[At(b, Turns(b)) + 1]] = 0]

EndTurnEvent == [kind |-> "EndTurn"]

\* apply_game: a verdict whose request is in already is taken as done.
Apply(b, already, e) ==
  IF e.kind = "EndTurn" THEN Advance(b)
  ELSE IF e.request \in already THEN b
  ELSE [b EXCEPT !.spent[e.actor] = @ + e.cost,
                 !.down  = IF e.felled THEN @ \cup {e.target} ELSE @,
                 !.owner[e.target] = IF e.side = Keep THEN @ ELSE e.side]

Answered(e) == IF e.kind = "Verdict" THEN {e.request} ELSE {}

\* owner_token_count.
Owned(b, p) == Cardinality({t \in Token : b.owner[t] = p})

-----------------------------------------------------------------------------
(* The session: what the connections' readers do under its lock *)

TryCommit(e) ==
  /\ host'  = Apply(host, taken, e)
  /\ taken' = taken \cup Answered(e)
  /\ seq'   = seq + 1

\* A Hello this host can read.
Announce(p) ==
  /\ p \notin names
  /\ names' = names \cup {p}
  /\ UNCHANGED <<host, seq, taken, pending, bridge, commands, updates, app, bounds>>

\* An Action message whose actor is the asker's.  The request is the authority's
\* peer and the asker's nonce; here the count of asks.
Ask(want) ==
  /\ want[1] \in names /\ asked < MaxAsk
  /\ host.owner[want[2]] = want[1]
  /\ asked' = asked + 1
  /\ pending' = Append(pending, [request |-> asked + 1, by |-> want[1], actor |-> want[2],
                                 target |-> want[3], key |-> want[4]])
  /\ UNCHANGED <<host, seq, taken, names, bridge, commands, updates, app, turns>>

\* An Intent to end one's own turn.
EndTurn(p) ==
  /\ p \in names /\ turns < MaxTurns
  /\ \E t \in Active(host) : host.owner[t] = p
  /\ turns' = turns + 1
  /\ TryCommit(EndTurnEvent)
  /\ UNCHANGED <<names, pending, bridge, commands, updates, app, asked>>

-----------------------------------------------------------------------------
(* The bridge actor: run_host *)

Snapshot == [kind |-> "State", board |-> host, at |-> seq]

\* HostReady, once the accept loop is already running.
Ready ==
  /\ step = "ready" /\ step' = "count"
  /\ updates' = Append(updates, Snapshot)
  /\ UNCHANGED <<session, batch, lastSeq, lastNames, commands, app, bounds>>

\* Mutant: the loop starts from the players already there.
CountNames ==
  /\ step = "count" /\ step' = "drain"
  /\ lastSeq' = seq /\ lastNames' = names
  /\ UNCHANGED <<session, batch, commands, updates, app, bounds>>

\* last_seq is read after HostReady's snapshot; last_players starts empty.
Count ==
  /\ step = "count" /\ step' = "drain"
  /\ lastSeq' = seq /\ lastNames' = {}
  /\ UNCHANGED <<session, batch, commands, updates, app, bounds>>

Drain ==
  /\ step = "drain" /\ step' = "commit"
  /\ batch' = commands /\ commands' = <<>>
  /\ UNCHANGED <<session, lastSeq, lastNames, updates, app, bounds>>

\* Each command takes the session's lock anew.
Commit ==
  /\ step = "commit"
  /\ IF batch = <<>>
     THEN step' = "intents" /\ UNCHANGED <<host, seq, taken, batch>>
     ELSE TryCommit(Head(batch)) /\ batch' = Tail(batch) /\ UNCHANGED step
  /\ UNCHANGED <<names, pending, lastSeq, lastNames, commands, updates, app, bounds>>

\* Mutant: the asks are copied, not taken.
CopyIntents ==
  /\ step = "intents" /\ step' = "notice"
  /\ updates' = IF pending = <<>> THEN updates
                ELSE Append(updates, [kind |-> "Intents", asks |-> pending])
  /\ UNCHANGED <<session, batch, lastSeq, lastNames, commands, app, bounds>>

TakeIntents ==
  /\ step = "intents" /\ step' = "notice"
  /\ updates' = IF pending = <<>> THEN updates
                ELSE Append(updates, [kind |-> "Intents", asks |-> pending])
  /\ pending' = <<>>
  /\ UNCHANGED <<host, seq, taken, names, batch, lastSeq, lastNames, commands, app, bounds>>

\* The counts are read and remembered before the snapshot is.
Notice ==
  /\ step = "notice"
  /\ step' = IF seq # lastSeq \/ names # lastNames THEN "emit" ELSE "drain"
  /\ lastSeq' = seq /\ lastNames' = names
  /\ UNCHANGED <<session, batch, commands, updates, app, bounds>>

Emit ==
  /\ step = "emit" /\ step' = "drain"
  /\ updates' = Append(updates, Snapshot)
  /\ UNCHANGED <<session, batch, lastSeq, lastNames, commands, app, bounds>>

-----------------------------------------------------------------------------
(* The app: pump_sheets, then pump_net *)

\* Refused before a die is rolled.
Refused(a) ==
  \/ Active(view) # {} /\ a.actor \notin Active(view)
  \/ a.actor = a.target
  \/ a.target \in view.down
  \/ a.actor \in Active(view) /\ view.spent[a.actor] >= Budget

\* The side a landed recruit moves to; the cap is for players only.
Recruited(a) ==
  LET side == view.owner[a.actor] IN
    IF view.owner[a.target] = side \/ (side # Dm /\ Owned(view, side) >= PartyCap)
    THEN Keep ELSE side

Verdict(a, hit) ==
  [kind   |-> "Verdict", request |-> a.request, by |-> a.by,
   actor  |-> a.actor, target |-> a.target,
   cost   |-> IF a.actor \in Active(view) THEN 1 ELSE 0,
   felled |-> hit /\ a.key = "Strike",
   side   |-> IF hit /\ a.key = "Recruit" THEN Recruited(a) ELSE Keep]

\* Mutant: the recruit waits for the mirror like everything else.
FoldLate(e) == [view EXCEPT !.spent[e.actor] = @ + e.cost]

\* What adjudicate folds into the view at once: the recruit's owner and the
\* spend, and nothing else of the verdict.
Fold(e) ==
  [view EXCEPT !.spent[e.actor] = @ + e.cost,
               !.owner[e.target] = IF e.side = Keep THEN @ ELSE e.side]

Adjudicate(a, hit) ==
  /\ ruled' = ruled \cup {a.request}
  /\ IF Refused(a) THEN UNCHANGED <<view, outbox>>
     ELSE /\ outbox' = Append(outbox, Verdict(a, hit))
          /\ view'   = Fold(Verdict(a, hit))

\* A pass of pump_sheets takes every ask polled so far, and leaves the open
\* sheet computed (a DM's open token has one: open_or_bind_sheet).
TakeAsks == queued = <<>> /\ queued' = intents /\ intents' = <<>>
Computed == IF sheet = "missing" THEN "shown" ELSE sheet

\* The idle turn's pass: only an open sheet without its effective view makes it.
Look ==
  /\ sheet = "missing" /\ sheet' = Computed
  /\ TakeAsks
  /\ UNCHANGED <<session, bridge, commands, updates, view, base, mirrored, outbox, ruled, bounds>>

\* The pass after the DM opened or closed a sheet, or bound, edited or rolled on
\* the one that is open.
Attend(s) ==
  /\ sheet' = s
  /\ TakeAsks
  /\ UNCHANGED <<session, bridge, commands, updates, view, base, mirrored, outbox, ruled, bounds>>

\* The pass answers each of them.
Rule(hit) ==
  /\ queued # <<>>
  /\ Adjudicate(Head(queued), hit)
  /\ queued' = Tail(queued)
  /\ UNCHANGED <<session, bridge, commands, updates, base, mirrored, intents, sheet, bounds>>

\* The DM's own swing, which nobody else can attribute, goes first in its pass.
Swing(want, hit) ==
  /\ want[1] = Dm /\ asked < MaxAsk
  /\ TakeAsks /\ sheet' = Computed
  /\ asked' = asked + 1
  /\ Adjudicate([request |-> asked + 1, by |-> Dm, actor |-> want[2],
                 target |-> want[3], key |-> want[4]], hit)
  /\ UNCHANGED <<session, bridge, commands, updates, base, mirrored, turns>>

\* The DM ends the turn from the panel.
PassTurn ==
  /\ queued = <<>> /\ turns < MaxTurns
  /\ turns' = turns + 1
  /\ outbox' = Append(outbox, EndTurnEvent)
  /\ UNCHANGED <<session, bridge, commands, updates, view, base, mirrored, intents, queued,
                 sheet, ruled, asked>>

\* The places of one kind of update among those polled.
Polled(kind) == {i \in DOMAIN updates : updates[i].kind = kind}

Told(u) == IF u.kind = "Intents" THEN u.asks ELSE <<>>

\* The asks of every update, in order.
AsksOf(us) ==
  LET upTo[n \in 0..Len(us)] == IF n = 0 THEN <<>> ELSE upTo[n - 1] \o Told(us[n])
  IN  upTo[Len(us)]

Heard == AsksOf(updates)

\* The latest snapshot replaces the mirror whole, and what was computed from it.
Latest == updates[Max(Polled("State"))]
Mirror ==
  IF Polled("State") = {} THEN UNCHANGED <<view, mirrored, sheet>>
  ELSE /\ view' = Latest.board /\ mirrored' = Latest.at
       /\ sheet' = IF sheet = "shown" THEN "missing" ELSE sheet

\* Mutant: a later batch of asks replaces an earlier one.
PumpLatest ==
  /\ queued = <<>>
  /\ outbox # <<>> \/ updates # <<>>
  /\ commands' = commands \o outbox /\ outbox' = <<>>
  /\ updates' = <<>>
  /\ intents' = IF Polled("Intents") = {} THEN intents ELSE updates[Max(Polled("Intents"))].asks
  /\ Mirror /\ base' = view'
  /\ UNCHANGED <<session, bridge, queued, ruled, bounds>>

\* pump_net: poll the bridge, submit the outbox, mirror.
Pump ==
  /\ queued = <<>>
  /\ outbox # <<>> \/ updates # <<>>
  /\ commands' = commands \o outbox /\ outbox' = <<>>
  /\ updates' = <<>>
  /\ intents' = intents \o Heard
  /\ Mirror /\ base' = view'
  /\ UNCHANGED <<session, bridge, queued, ruled, bounds>>

-----------------------------------------------------------------------------
StartBoard == [owner |-> Owner, spent |-> [t \in Token |-> 0], down |-> {}, cursor |-> 0]

Init ==
  /\ host = StartBoard /\ seq = 0 /\ taken = {} /\ names = {} /\ pending = <<>>
  /\ step = "ready" /\ batch = <<>> /\ lastSeq = 0 /\ lastNames = {}
  /\ commands = <<>> /\ updates = <<>>
  /\ view = StartBoard /\ base = StartBoard /\ mirrored = 0
  /\ intents = <<>> /\ queued = <<>> /\ sheet = "closed" /\ outbox = <<>> /\ ruled = {}
  /\ asked = 0 /\ turns = 0

Loop == Ready \/ Count \/ Drain \/ Commit \/ TakeIntents \/ Notice \/ Emit

Next ==
  \/ \E p \in Player : Announce(p) \/ EndTurn(p)
  \/ \E want \in Wants : Ask(want)
  \/ Ready \/ Count \/ Drain \/ Commit \/ TakeIntents \/ Notice \/ Emit
  \/ Look \/ \E s \in {"closed", "shown"} : Attend(s)
  \/ \E hit \in BOOLEAN : Rule(hit)
  \/ \E want \in Wants, hit \in BOOLEAN : Swing(want, hit)
  \/ PassTurn \/ Pump

Spec == Init /\ [][Next]_vars

\* The actor's loop runs every 80 ms; the app pumps on every idle turn of its
\* event loop, looks after an open sheet there, and finishes the pass it is in.
\* Nobody is obliged to ask, swing, end a turn or open a sheet.
Fairness ==
  /\ WF_vars(Loop) /\ WF_vars(Pump) /\ WF_vars(Look)
  /\ WF_vars(\E hit \in BOOLEAN : Rule(hit))

FairSpec == Spec /\ Fairness

-----------------------------------------------------------------------------
(* Properties *)

\* Every cursor points into the order, unless that is empty.
Board ==
  [owner : [Token -> Player \cup {Dm}], spent : [Token -> Nat],
   down : SUBSET Token, cursor : {c \in Nat : c = 0 \/ c < Len(Order)}]
Asking ==
  [request : Nat, by : Player \cup {Dm}, actor : Token, target : Token,
   key : {"Strike", "Recruit"}]
Event ==
  {EndTurnEvent} \cup
  [kind : {"Verdict"}, request : Nat, by : Player \cup {Dm}, actor : Token, target : Token,
   cost : {0, 1}, felled : BOOLEAN, side : Player \cup {Dm, Keep}]
Update == [kind : {"State"}, board : Board, at : Nat] \cup [kind : {"Intents"}, asks : Seq(Asking)]

\* Every variable has its type, and every board's cursor, those on their way
\* included, points into the turn order (turn.rs TurnList).
TypeOK ==
  /\ host \in Board /\ view \in Board /\ base \in Board
  /\ seq \in Nat /\ mirrored \in Nat /\ lastSeq \in Nat
  /\ taken \subseteq Nat /\ ruled \subseteq Nat
  /\ names \subseteq Player /\ lastNames \subseteq Player
  /\ pending \in Seq(Asking) /\ intents \in Seq(Asking) /\ queued \in Seq(Asking)
  /\ sheet \in {"closed", "shown", "missing"}
  /\ step \in {"ready", "count", "drain", "commit", "intents", "notice", "emit"}
  /\ batch \in Seq(Event) /\ commands \in Seq(Event) /\ outbox \in Seq(Event)
  /\ updates \in Seq(Update)
  /\ asked \in Nat /\ turns \in Nat

Requests(asks) == {asks[i].request : i \in DOMAIN asks}

\* The asks on their way from the session to a ruling, the next to be ruled on
\* first.
Waiting == queued \o (intents \o (Heard \o pending))

\* No ask is dropped, answered twice or overtaken between the session, the
\* bridge and the app (take_action_intents, NetBridge::poll): what waits has not
\* been ruled on and waits once, in the order of asking, and every ask waits or
\* has been ruled on.
AskHeldOnce ==
  /\ Requests(Waiting) \cup ruled = 1..asked
  /\ Requests(Waiting) \cap ruled = {}
  /\ \A i, j \in DOMAIN Waiting : i < j => Waiting[i].request < Waiting[j].request

Settled ==
  /\ step = "drain" /\ lastSeq = seq /\ lastNames = names
  /\ commands = <<>> /\ updates = <<>> /\ outbox = <<>>

\* Whenever nothing is in flight the app shows the session's board: no local
\* fold of adjudicate outlives its verdict or counts twice, and no commit falls
\* between HostReady's snapshot and the count run_host starts from.
MirrorSettles == Settled => view = host

\* The board after some events, each applied as new.
After(b, events) ==
  LET upTo[n \in 0..Len(events)] ==
        IF n = 0 THEN b ELSE Apply(upTo[n - 1], {}, events[n])
  IN  upTo[Len(events)]

\* "Two same-owner recruits in one batch" (adjudicate.rs): the verdicts of one
\* pass, committed onto the board the pass began with, respect the cap.
BatchHoldsCap ==
  \A p \in Player :
    Owned(After(base, outbox), p) <= PartyCap \/ Owned(After(base, outbox), p) <= Owned(base, p)

\* A pass of pump_sheets goes by its early return (sheets.rs:43-54).
Passes == Look \/ \E s \in {"closed", "shown"} : Attend(s)

\* No ask the session accepted is left to rule on.
AllRuled == ruled = 1..asked

\* A host that looks at its sheets again and again comes to have ruled on every
\* ask the session accepted, the ones that arrive together or while others wait
\* included.
HeardWhenAttended == []<><<Passes>>_vars => []<>AllRuled

\* "The host also adjudicates its players' requests, through this same path"
\* (sheets.rs:317): an ask is ruled on, whatever the host does besides.
AsksAreHeard == []<>AllRuled

\* Every committed event reaches the app's view: whatever happens, the mirror
\* comes to be as new as the session again.
ViewFollows == []<>(mirrored = seq)

\* "How many tokens one player may command ... every peer enforces the same
\* limit" (protocol.rs party_cap).
PartyCapHeld == \A p \in Player : Owned(host, p) <= PartyCap \/ Owned(host, p) <= Owned(StartBoard, p)

\* The afford rule's economy: a token spends its budget in a turn at most.
BudgetHeld == \A t \in Token : host.spent[t] <= Budget

Committed == IF step = "commit" /\ batch # <<>> /\ seq' = seq + 1 /\ batch' = Tail(batch)
             THEN {e \in {Head(batch)} : e.kind = "Verdict"} ELSE {}

\* "Once initiative exists, only the active token may act" (adjudicate.rs).
OnlyActiveActs == [][\A e \in Committed : Active(host) # {} => e.actor \in Active(host)]_vars

\* "Ownership is verified per token, so a peer cannot move what it does not
\* command" (messages.rs): whoever asked still commands the actor.
OnlyOwnersAct == [][\A e \in Committed : e.by # Dm => host.owner[e.actor] = e.by]_vars
=============================================================================
