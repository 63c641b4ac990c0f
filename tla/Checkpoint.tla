----------------------------- MODULE Checkpoint -----------------------------
(***************************************************************************)
(* A campaign across the starts of the program: the session behind its     *)
(* lock, the bridge that reads it three times to report it once, the app   *)
(* that mirrors the report, the checkpoint on disk, and the source-time    *)
(* view, which replays the history from the state it began in.             *)
(*                                                                         *)
(* A Board is what these copies are told apart by: how many moves and      *)
(* verdicts it has taken, the campaign drafts it publishes, the requests   *)
(* it remembers.  The private half is the drafts whose secrets are held.   *)
(* A copy is the trio [pub, priv, log] that HostState, the app and the     *)
(* checkpoint all carry.                                                   *)
(***************************************************************************)
EXTENDS Integers, Sequences, FiniteSets, SequencesExt

CONSTANTS
  Draft,       \* campaign drafts, each with one secret
  Solo,        \* may the program start without a session?
  MaxStarts,   \* bound on the starts of the program
  MaxEvents    \* bound on the events of all of them

ASSUME BoundsAssumption == Solo \in BOOLEAN /\ MaxStarts \in Nat /\ MaxEvents \in Nat

VARIABLES
  mode,        \* "down", "solo" or "host"
  app,         \* UiState's board, App.campaign and App.history
  origin,      \* App.history_origin
  requests,    \* App.own_requests
  commands,    \* channel app to bridge
  host,        \* HostSession: state, campaign, history
  joined,      \* a player is announced
  step,        \* where run_host is in its loop
  lastSeq, lastJoined,
  got,         \* what the report under way has read so far
  updates,     \* channel bridge to app
  net,         \* NetBridge's copy of the last report
  disk,        \* the checkpoint slot
  starts, made \* counters behind the bounds

session == <<host, joined>>
bridge  == <<step, lastSeq, lastJoined, got>>
ui      == <<app, origin, requests, net>>
vars    == <<mode, ui, commands, session, bridge, updates, disk, starts, made>>

Fresh  == [moves |-> 0, hurt |-> 0, drafts |-> {}, taken |-> {}]
Blank  == [pub |-> Fresh, priv |-> {}, log |-> <<>>]
None   == <<>>      \* net and disk hold one value, <<x>>, or none

Move       == [kind |-> "Move"]
Verdict(r) == [kind |-> "Verdict", request |-> r]
Commits(d) == [kind |-> "Campaign", draft |-> d]

\* apply_game: a verdict whose request is in already is taken as done.
Apply(b, e) ==
  CASE e.kind = "Move"     -> [b EXCEPT !.moves = @ + 1]
    [] e.kind = "Campaign" -> [b EXCEPT !.drafts = @ \cup {e.draft}]
    [] e.kind = "Verdict"  -> IF e.request \in b.taken THEN b
                              ELSE [b EXCEPT !.hurt = @ + 1, !.taken = @ \cup {e.request}]

\* GameSourceHistory::snapshot_at the live cursor.
Replay(from, log) == FoldLeft(Apply, from, log)

\* One event through a session: the board, the log and, when it is a campaign,
\* the staged private store, all under one lock.
Committed(c, e) ==
  [pub  |-> Apply(c.pub, e),
   priv |-> IF e.kind = "Campaign" THEN c.priv \cup {e.draft} ELSE c.priv,
   log  |-> Append(c.log, e)]

\* A board as the app builds one: the requests it took are not among the fields.
Unasked(b) == [b EXCEPT !.taken = {}]

-----------------------------------------------------------------------------
(* The program starts and stops *)

\* Mutant: the checkpoint's board is taken and its history is not.
OpenedAnew == IF disk = None THEN Blank ELSE [disk[1].copy EXCEPT !.log = <<>>]

\* resumed: the campaign named on the command line, if a checkpoint of it is
\* there; the own requests are numbered from the start again.
Opened == IF disk = None THEN Blank ELSE disk[1].copy

Start(m) ==
  /\ mode = "down" /\ starts < MaxStarts
  /\ m = "solo" => Solo
  /\ mode' = m /\ starts' = starts + 1
  /\ app'  = [Opened EXCEPT !.pub = Unasked(@)]
  /\ origin' = IF disk = None THEN Fresh ELSE disk[1].origin
  /\ requests' = 0
  /\ net' = None
  /\ host' = IF m = "host" THEN app' ELSE Blank
  /\ step' = IF m = "host" THEN "snapshot" ELSE "off"
  /\ joined' = FALSE /\ lastJoined' = FALSE
  /\ lastSeq' = -1        \* nothing reported: HostReady first
  /\ got' = Blank
  /\ UNCHANGED <<commands, updates, disk, made>>

\* A crash, or the window closed: what is not on disk is gone.
Stop ==
  /\ mode # "down"
  /\ mode' = "down" /\ step' = "off"
  /\ app' = Blank /\ host' = Blank /\ net' = None /\ got' = Blank
  /\ origin' = Fresh /\ requests' = 0 /\ lastSeq' = -1
  /\ joined' = FALSE /\ lastJoined' = FALSE
  /\ commands' = <<>> /\ updates' = <<>>
  /\ UNCHANGED <<disk, starts, made>>

-----------------------------------------------------------------------------
(* The session's own connections *)

Join ==
  /\ mode = "host" /\ ~joined
  /\ joined' = TRUE
  /\ UNCHANGED <<mode, ui, commands, host, bridge, updates, disk, starts, made>>

\* An accepted intent of a player.
Walk ==
  /\ joined /\ made < MaxEvents
  /\ host' = Committed(host, Move)
  /\ made' = made + 1
  /\ UNCHANGED <<mode, ui, commands, joined, bridge, updates, disk, starts>>

-----------------------------------------------------------------------------
(* run_host: how many commands a pass drains is left open *)

Commit ==
  /\ step = "loop" /\ commands # <<>>
  /\ host' = Committed(host, Head(commands))
  /\ commands' = Tail(commands)
  /\ UNCHANGED <<mode, ui, joined, bridge, updates, disk, starts, made>>

Notice ==
  /\ step = "loop"
  /\ lastSeq # Len(host.log) \/ lastJoined # joined
  /\ lastSeq' = Len(host.log) /\ lastJoined' = joined
  /\ step' = "snapshot"
  /\ UNCHANGED <<mode, ui, commands, session, got, updates, disk, starts, made>>

\* Mutant: the history is read first.
ReadingSwapped == [snapshot |-> "log", campaign |-> "priv", history |-> "pub"]

\* What each reading takes: the snapshot, the campaign and the history, each
\* under a lock of its own.
Reading == [snapshot |-> "pub", campaign |-> "priv", history |-> "log"]

Taken == [got EXCEPT ![Reading[step]] = host[Reading[step]]]

Read ==
  /\ step \in {"snapshot", "campaign"}
  /\ got' = Taken
  /\ step' = IF step = "snapshot" THEN "campaign" ELSE "history"
  /\ UNCHANGED <<mode, ui, commands, session, lastSeq, lastJoined, updates, disk, starts, made>>

\* Mutant: last_seq is taken after the report instead of before it.
ReportCounting ==
  /\ step = "history"
  /\ updates' = Append(updates, Taken)
  /\ got' = Blank
  /\ lastSeq' = Len(host.log)
  /\ step' = IF lastSeq = -1 THEN "count" ELSE "loop"
  /\ UNCHANGED <<mode, ui, commands, session, lastJoined, disk, starts, made>>

\* The last reading, and the report goes out.  HostReady is followed by the
\* first reading of last_seq, a HostState by the next turn of the loop.
Report ==
  /\ step = "history"
  /\ updates' = Append(updates, Taken)
  /\ got' = Blank
  /\ step' = IF lastSeq = -1 THEN "count" ELSE "loop"
  /\ UNCHANGED <<mode, ui, commands, session, lastSeq, lastJoined, disk, starts, made>>

Count ==
  /\ step = "count"
  /\ lastSeq' = Len(host.log)
  /\ step' = "loop"
  /\ UNCHANGED <<mode, ui, commands, session, lastJoined, got, updates, disk, starts, made>>

-----------------------------------------------------------------------------
(* The app *)

\* pump_net: poll keeps the last report, and the view is rebuilt from it.
Pump ==
  /\ updates # <<>>
  /\ net' = <<Last(updates)>>
  /\ app' = [Last(updates) EXCEPT !.pub = Unasked(@)]
  /\ updates' = <<>>
  /\ UNCHANGED <<mode, origin, requests, commands, session, bridge, disk, starts, made>>

\* The DM swings, publishes a draft or moves a token, in a session.
Send(e) ==
  /\ mode = "host" /\ made < MaxEvents
  /\ commands' = Append(commands, e)
  /\ made' = made + 1
  /\ UNCHANGED <<mode, app, origin, net, session, bridge, updates, disk, starts>>

Swing == Send(Verdict(requests + 1)) /\ requests' = requests + 1

Publish(d) == d \notin app.pub.drafts /\ Send(Commits(d)) /\ UNCHANGED requests

\* Without a session a move or a swing edits the view and logs nothing ...
SoloEdit ==
  /\ mode = "solo" /\ made < MaxEvents
  /\ app' = [app EXCEPT !.pub.moves = @ + 1]
  /\ made' = made + 1
  /\ UNCHANGED <<mode, origin, requests, net, commands, session, bridge, updates, disk, starts>>

\* ... and a draft goes through a session built for it over the app's copy.
SoloPublish(d) ==
  /\ mode = "solo" /\ made < MaxEvents /\ d \notin app.pub.drafts
  /\ app' = Committed(app, Commits(d))
  /\ made' = made + 1
  /\ UNCHANGED <<mode, origin, requests, net, commands, session, bridge, updates, disk, starts>>

\* The Save button: the last report, or the app's own copy before there is one.
Save ==
  /\ mode # "down"
  /\ disk' = <<[copy |-> IF net = None THEN app ELSE net[1], origin |-> origin]>>
  /\ UNCHANGED <<mode, ui, commands, session, bridge, updates, starts, made>>

\* The Load button: the app takes the checkpoint, a session is not told.
Load ==
  /\ mode # "down" /\ disk # None
  /\ app' = [disk[1].copy EXCEPT !.pub = Unasked(@)]
  /\ origin' = disk[1].origin
  /\ UNCHANGED <<mode, requests, net, commands, session, bridge, updates, disk, starts, made>>

-----------------------------------------------------------------------------

Init ==
  /\ mode = "down" /\ step = "off"
  /\ app = Blank /\ host = Blank /\ net = None /\ got = Blank
  /\ origin = Fresh /\ requests = 0 /\ lastSeq = -1
  /\ joined = FALSE /\ lastJoined = FALSE
  /\ commands = <<>> /\ updates = <<>>
  /\ disk = None /\ starts = 0 /\ made = 0

BridgeStep == Commit \/ Notice \/ Read \/ Report \/ Count

Next ==
  \/ \E m \in {"solo", "host"} : Start(m)
  \/ Stop \/ Join \/ Walk
  \/ BridgeStep
  \/ Pump \/ Swing \/ Save \/ Load \/ SoloEdit
  \/ \E d \in Draft : Publish(d) \/ SoloPublish(d)

Spec == Init /\ [][Next]_vars

\* Between the program's start and its end the bridge's loop turns every 80 ms
\* and the app pumps on every idle turn of the window.  Nobody has to play,
\* save or stop.
FairSpec == Spec /\ WF_vars(BridgeStep) /\ WF_vars(Pump)

-----------------------------------------------------------------------------
(* Properties *)

Event == {Move} \cup {Commits(d) : d \in Draft} \cup {Verdict(r) : r \in 1..MaxEvents}
Board == [moves : 0..MaxEvents, hurt : 0..MaxEvents, drafts : SUBSET Draft,
          taken : SUBSET (1..MaxEvents)]
IsLog(s)  == s \in Seq(Event) /\ Len(s) <= MaxEvents
IsCopy(c) == c.pub \in Board /\ c.priv \subseteq Draft /\ IsLog(c.log)

\* The session, its reports and its checkpoints keep their shape, and no more
\* events are logged than were made.
TypeOK ==
  /\ mode \in {"down", "solo", "host"}
  /\ step \in {"off", "snapshot", "campaign", "history", "count", "loop"}
  /\ IsCopy(app) /\ IsCopy(host) /\ IsCopy(got)
  /\ IsLog(commands) /\ \A i \in DOMAIN updates : IsCopy(updates[i])
  /\ net # None => IsCopy(net[1])
  /\ disk # None => IsCopy(disk[1].copy) /\ disk[1].origin \in Board
  /\ origin \in Board /\ requests \in 0..MaxEvents
  /\ joined \in BOOLEAN /\ lastJoined \in BOOLEAN /\ lastSeq \in -1..MaxEvents
  /\ starts \in 0..MaxStarts /\ made \in 0..MaxEvents

\* Where a log holds a kind of event.
Of(log, kind) == {i \in DOMAIN log : log[i].kind = kind}
Published(log) == {log[i].draft : i \in Of(log, "Campaign")}

\* A copy is in order when its private store holds the secret of every draft
\* its board publishes and of none its history has not, and the history holds
\* every verdict the board has taken.
Nested(c) ==
  /\ c.pub.drafts \subseteq c.priv
  /\ c.priv \subseteq Published(c.log)
  /\ c.pub.hurt <= Cardinality(Of(c.log, "Verdict"))

\* How many moves a copy shows that its history has not.
Unlogged(c) == c.pub.moves - Cardinality(Of(c.log, "Move"))

\* However the session is committed to while the bridge reads it (net.rs:388),
\* whichever copy is saved and however often the program stops, no copy
\* publishes what it has no secret or record of, and a report's history covers
\* the board it goes out with.
CopiesNested ==
  /\ Nested(app) /\ Nested(host)
  /\ disk # None => Nested(disk[1].copy)
  /\ \A c \in ToSet(updates) \cup ToSet(net) : Nested(c) /\ Unlogged(c) <= Unlogged(host)

\* A checkpoint is only ever replaced by one of the same past: saves before the
\* first report, after a load or after a crash (dispatch.rs:93-109) extend the
\* saved history and keep the state it began in.
LineageKept ==
  [][disk # None => /\ disk'[1].origin = disk[1].origin
                    /\ IsPrefix(disk[1].copy.log, disk'[1].copy.log)]_vars

\* A session that stays up is in the end saved whole: the seq and the players
\* the loop compares (net.rs:383-396) miss no commit, torn reports included.
ReportsSettle == <>[](mode = "host") => <>[](net = <<host>>)

\* Source time shows what was played (source_time.rs:64, protocol.rs:148-152):
\* replayed from its origin, the history lands every verdict the board has
\* taken.
VerdictsReplay == mode = "host" => Replay(origin, host.log).hurt = host.pub.hurt

\* The stronger reading, a checkpoint's board is its history replayed
\* (campaign_store.rs:22-33).  Torn reports and solo edits break it.
CheckpointReplays ==
  disk # None => Replay(disk[1].origin, disk[1].copy.log).moves = disk[1].copy.pub.moves
=============================================================================
