---------------------------- MODULE Replication ----------------------------
(***************************************************************************)
(* The replicated session: isometry-net's HostSession and ClientSession    *)
(* driven by the iroh transport.  The host orders every event under one    *)
(* session lock; it hands the resulting messages to the peers only after   *)
(* the lock is released, so the three kinds of host task (the accept loop, *)
(* the app's bridge, one reader per connection) race to the peer channels. *)
(*                                                                         *)
(* A GameSnapshot is represented by the sequence of events materialised in *)
(* it: apply_game is deterministic, so equal sequences are equal boards.   *)
(* log_hash is the sequence of the <<seq, event>> pairs folded into it,    *)
(* which abstracts from collisions of the 64-bit FNV fold.                 *)
(*                                                                         *)
(* A client is one connection: ClientNet::join binds a fresh endpoint, so  *)
(* a player who rejoins comes back as another Client with the same name.   *)
(***************************************************************************)
EXTENDS Integers, Sequences, FiniteSets

CONSTANTS
  Client,          \* connections, each used once
  Name,            \* player names
  NameOf,          \* the name a connection announces in its Hello
  Stranger,        \* clients whose build speaks another PROTOCOL_VERSION
  Event,           \* game events
  Accepts(_, _),   \* Accepts(state, event): apply_game succeeds
  Permits(_, _, _),\* Permits(name, state, event): intent_refusal is None
  NoName,          \* the name of a peer that has announced none
  Asks,            \* the events each client's app proposes
  LocalBatch,      \* batches of events the host app commits in one call
  AcceptLoop,      \* the host task of spawn_accept
  Bridge,          \* the host task of the app's command loop
  Nobody,          \* no connection is being accepted
  MaxLocal,        \* bound on the host app's commits
  MaxAsk,          \* bound on each client's intents
  MaxWhisper       \* bound on the DM's whispers

ASSUME NamesAssumption == NameOf \in [Client -> Name] /\ NoName \notin Name
ASSUME StrangersAssumption == Stranger \subseteq Client
ASSUME AsksAssumption == Asks \in [Client -> SUBSET Event]
ASSUME TasksAssumption ==
  /\ AcceptLoop \notin Client /\ Bridge \notin Client /\ AcceptLoop # Bridge
  /\ Nobody \notin Client
ASSUME BatchAssumption == LocalBatch \subseteq Seq(Event)
ASSUME BoundsAssumption == MaxLocal \in Nat /\ MaxAsk \in Nat /\ MaxWhisper \in Nat

VARIABLES
  history,    \* the Codicil; the host state is its materialisation
  logHash,    \* the host's log_hash
  announced,  \* peers with an entry in peer_names
  refused,    \* peers with an entry in HostSession.refused
  link,       \* the host's side of each connection
  accepting,  \* the connection the accept loop is busy with
  outbox,     \* what each host task produced and has not dispatched
  toClient,   \* each peer's channel and stream, host to client
  toHost,     \* each stream, client to host
  replica,    \* each ClientSession
  online,     \* clients whose process holds the connection
  commits, asked, whispered    \* counters behind the bounds

hostVars   == <<history, logHash, announced, refused>>
netVars    == <<link, accepting, outbox, toClient, toHost>>
clientVars == <<replica, online>>
counters   == <<commits, asked, whispered>>
vars       == <<hostVars, netVars, clientVars, counters>>

Task == Client \cup {AcceptLoop, Bridge}

\* Recipient::All, and Recipient::One as a singleton.
Everyone == Client
Silence  == [to |-> {}, msgs |-> <<>>]

\* NetMessage: what the host sends.
SnapshotMsg(n, h, s) == [kind |-> "Snapshot", seq |-> n, hash |-> h, state |-> s]
AppliedMsg(n, e)     == [kind |-> "Applied", seq |-> n, event |-> e]
WhisperMsg(name)     == [kind |-> "Whisper", name |-> name]
RejectedMsg          == [kind |-> "Rejected"]
RefusedMsg           == [kind |-> "VersionRefused"]
\* What a client sends.
HelloMsg             == [kind |-> "Hello"]
IntentMsg(e)         == [kind |-> "Intent", event |-> e]

\* HostSession.seq is the length of the Codicil.
seq == Len(history)

\* fold_event over a run of events whose first is number n.
Stamped(n, events) == [i \in 1..Len(events) |-> <<n + i - 1, events[i]>>]

\* Connections with a sender in the PeerMap.
Registered(c) == link[c] \in {"accepting", "greeting", "live"}

\* Mutant: a commit that does not ask apply_game first.
AllAcceptedUnchecked(state, events) == Len(state) >= 0 /\ Len(events) >= 0

\* Every event of a batch applies to the state the ones before it leave.
AllAccepted(state, events) ==
  \A i \in 1..Len(events) : Accepts(state \o SubSeq(events, 1, i - 1), events[i])

-----------------------------------------------------------------------------
(* HostSession *)

\* try_commit, for each event of a batch in turn: append, count, fold, and
\* one Applied for everyone.
TryCommit(t, events) ==
  /\ AllAccepted(history, events)
  /\ history' = history \o events
  /\ logHash' = logHash \o Stamped(seq + 1, events)
  /\ outbox' = [outbox EXCEPT ![t] =
        [to |-> Everyone,
         msgs |-> [i \in 1..Len(events) |-> AppliedMsg(seq + i, events[i])]]]

Reply(c, msg) == outbox' = [outbox EXCEPT ![c] = [to |-> {c}, msgs |-> <<msg>>]]

NameKnown(c) == IF c \in announced THEN NameOf[c] ELSE NoName

\* on_message from a peer already refused: the same receipt, nothing read.
OnRefused(c) ==
  /\ c \in refused
  /\ Reply(c, RefusedMsg)
  /\ UNCHANGED hostVars

\* Mutant: the mismatch is answered but the peer is not put on the refused list.
OnHelloForgets(c) ==
  /\ c \notin refused
  /\ IF c \in Stranger
     THEN Reply(c, RefusedMsg) /\ UNCHANGED announced
     ELSE announced' = announced \cup {c} /\ UNCHANGED outbox
  /\ UNCHANGED <<history, logHash, refused>>

OnHello(c) ==
  /\ c \notin refused
  /\ IF c \in Stranger
     THEN /\ refused' = refused \cup {c}
          /\ Reply(c, RefusedMsg)
          /\ UNCHANGED announced
     ELSE /\ announced' = announced \cup {c}
          /\ UNCHANGED <<refused, outbox>>
  /\ UNCHANGED <<history, logHash>>

\* An intent the sender may not propose, or that apply_game rejects.
OnBadIntent(c, e) ==
  /\ c \notin refused
  /\ ~Permits(NameKnown(c), history, e) \/ ~Accepts(history, e)
  /\ Reply(c, RejectedMsg)
  /\ UNCHANGED hostVars

OnIntent(c, e) ==
  /\ c \notin refused
  /\ Permits(NameKnown(c), history, e)
  /\ TryCommit(c, <<e>>)
  /\ UNCHANGED <<announced, refused>>

-----------------------------------------------------------------------------
(* The host's tasks *)

Idle(t) == outbox[t].msgs = <<>>

\* spawn_accept, up to its first lock: the channel is registered before the
\* snapshot is taken, so no later event can miss the joiner.
Accept(c) ==
  /\ accepting = Nobody /\ Idle(AcceptLoop)
  /\ link[c] = "new"
  /\ accepting' = c
  /\ link' = [link EXCEPT ![c] = "accepting"]
  /\ online' = online \cup {c}
  /\ UNCHANGED <<hostVars, outbox, toClient, toHost, replica, counters>>

\* Mutant: the snapshot is numbered with the last event's index, not the count.
OnConnectOffByOne(c) ==
  /\ accepting = c /\ link[c] = "accepting"
  /\ link' = [link EXCEPT ![c] = "greeting"]
  /\ outbox' = [outbox EXCEPT ![AcceptLoop] =
        [to |-> {c}, msgs |-> <<SnapshotMsg(seq - 1, logHash, history)>>]]
  /\ UNCHANGED <<hostVars, accepting, toClient, toHost, clientVars, counters>>

\* on_connect, under the session lock.
OnConnect(c) ==
  /\ accepting = c /\ link[c] = "accepting"
  /\ link' = [link EXCEPT ![c] = "greeting"]
  /\ outbox' = [outbox EXCEPT ![AcceptLoop] =
        [to |-> {c}, msgs |-> <<SnapshotMsg(seq, logHash, history)>>]]
  /\ UNCHANGED <<hostVars, accepting, toClient, toHost, clientVars, counters>>

\* dispatch: one pass over the PeerMap; a peer no longer in it gets nothing,
\* and a frame for a closed connection is lost.  When the accept loop has
\* dispatched the snapshot it spawns the connection's reader.
Dispatch(t) ==
  /\ ~Idle(t)
  /\ toClient' = [c \in Client |->
        IF c \in outbox[t].to /\ Registered(c) /\ c \in online
        THEN toClient[c] \o outbox[t].msgs ELSE toClient[c]]
  /\ outbox' = [outbox EXCEPT ![t] = Silence]
  /\ IF t = AcceptLoop
     THEN /\ link' = [link EXCEPT ![accepting] = "live"]
          /\ accepting' = Nobody
     ELSE UNCHANGED <<link, accepting>>
  /\ UNCHANGED <<hostVars, toHost, clientVars, counters>>

\* reader_task_host: read a frame, hand it to the session.
Read(c) ==
  /\ link[c] = "live" /\ Idle(c) /\ toHost[c] # <<>>
  /\ LET msg == Head(toHost[c]) IN
       \/ OnRefused(c)
       \/ msg.kind = "Hello" /\ OnHello(c)
       \/ msg.kind = "Intent" /\ OnBadIntent(c, msg.event)
       \/ msg.kind = "Intent" /\ OnIntent(c, msg.event)
  /\ toHost' = [toHost EXCEPT ![c] = Tail(@)]
  /\ UNCHANGED <<link, accepting, toClient, clientVars, counters>>

\* The reader meets an error: the peer leaves the PeerMap, and only that.
Close(c) ==
  /\ link[c] = "live" /\ Idle(c) /\ c \notin online
  /\ link' = [link EXCEPT ![c] = "ended"]
  /\ UNCHANGED <<hostVars, accepting, outbox, toClient, toHost, clientVars, counters>>

\* local_event and the prevalidated batches (commit_storylet,
\* commit_faction_turn, commit_campaign): one lock, one dispatch.
LocalCommit(events) ==
  /\ Idle(Bridge) /\ commits < MaxLocal
  /\ commits' = commits + 1
  /\ TryCommit(Bridge, events)
  /\ UNCHANGED <<announced, refused, link, accepting, toClient, toHost, clientVars,
                 asked, whispered>>

\* Mutant: the whisper goes out like a broadcast.
WhisperAloud(name) ==
  /\ Idle(Bridge) /\ whispered < MaxWhisper
  /\ whispered' = whispered + 1
  /\ \E c \in announced : NameOf[c] = name
  /\ outbox' = [outbox EXCEPT ![Bridge] = [to |-> Everyone, msgs |-> <<WhisperMsg(name)>>]]
  /\ UNCHANGED <<hostVars, link, accepting, toClient, toHost, clientVars, commits, asked>>

\* whisper: any announced peer with that name, in HashMap order.
Whisper(name) ==
  /\ Idle(Bridge) /\ whispered < MaxWhisper
  /\ whispered' = whispered + 1
  /\ \E c \in announced :
        /\ NameOf[c] = name
        /\ outbox' = [outbox EXCEPT ![Bridge] = [to |-> {c}, msgs |-> <<WhisperMsg(name)>>]]
  /\ UNCHANGED <<hostVars, link, accepting, toClient, toHost, clientVars, commits, asked>>

-----------------------------------------------------------------------------
(* ClientNet and ClientSession *)

NewReplica == [joined |-> FALSE, synced |-> FALSE, state |-> <<>>, applied |-> 0,
               hash |-> <<>>, pending |-> {}, refused |-> FALSE, inbox |-> <<>>]

\* join returns once the host's first frame opens the stream; Hello goes first.
Join(c) ==
  /\ c \in online /\ ~replica[c].joined /\ toClient[c] # <<>>
  /\ replica' = [replica EXCEPT ![c].joined = TRUE]
  /\ toHost' = [toHost EXCEPT ![c] = Append(@, HelloMsg)]
  /\ UNCHANGED <<hostVars, link, accepting, outbox, toClient, online, counters>>

AskIntent(c, e) ==
  /\ c \in online /\ replica[c].joined /\ asked[c] < MaxAsk
  /\ asked' = [asked EXCEPT ![c] = @ + 1]
  /\ toHost' = [toHost EXCEPT ![c] = Append(@, IntentMsg(e))]
  /\ UNCHANGED <<hostVars, link, accepting, outbox, toClient, clientVars, commits, whispered>>

EventAt(pending, n) == (CHOOSE m \in pending : m.seq = n).event

\* The n events that follow the last applied one.
NextRun(r, n) == [i \in 1..n |-> EventAt(r.pending, r.applied + i)]

CanReplay(r, n) ==
  /\ \A i \in 1..n : \E m \in r.pending : m.seq = r.applied + i
  /\ AllAccepted(r.state, NextRun(r, n))

\* drain_pending: apply while the next event is buffered; an event that fails
\* to apply has already been taken out of the buffer and is lost.
Drained(r, n) ==
  [r EXCEPT !.state   = @ \o NextRun(r, n),
            !.hash    = @ \o Stamped(r.applied + 1, NextRun(r, n)),
            !.applied = @ + n,
            !.pending = {m \in @ : m.seq \notin (r.applied + 1)..(r.applied + n + 1)}]

Drain(c, r) ==
  IF r.synced
  THEN \E n \in 0..Cardinality(r.pending) :
         /\ CanReplay(r, n) /\ ~CanReplay(r, n + 1)
         /\ replica' = [replica EXCEPT ![c] = Drained(r, n)]
  ELSE replica' = [replica EXCEPT ![c] = r]

\* Mutant: adopting the snapshot discards what arrived ahead of it.
ClientSnapshotClears(c, m) ==
  IF c \in Stranger
  THEN replica' = [replica EXCEPT ![c].refused = TRUE]
  ELSE Drain(c, [replica[c] EXCEPT !.synced = TRUE, !.state = m.state, !.pending = {},
                                   !.applied = m.seq, !.hash = m.hash])

\* Mutant: adopting the snapshot does not drain the buffer.
ClientSnapshotUndrained(c, m) ==
  replica' = [replica EXCEPT ![c] =
    IF c \in Stranger THEN [@ EXCEPT !.refused = TRUE]
    ELSE [@ EXCEPT !.synced = TRUE, !.state = m.state, !.applied = m.seq, !.hash = m.hash]]

\* ClientSession::on_message.
ClientSnapshot(c, m) ==
  IF c \in Stranger
  THEN replica' = [replica EXCEPT ![c].refused = TRUE]
  ELSE Drain(c, [replica[c] EXCEPT !.synced = TRUE, !.state = m.state,
                                   !.applied = m.seq, !.hash = m.hash])

\* Mutant: an event is applied as it arrives, whatever its number.
ClientAppliedEager(c, m) ==
  replica' = [replica EXCEPT ![c] =
    IF @.synced THEN [@ EXCEPT !.state = Append(@, m.event), !.applied = m.seq,
                               !.hash = Append(@, <<m.seq, m.event>>)]
    ELSE [@ EXCEPT !.pending = @ \cup {[seq |-> m.seq, event |-> m.event]}]]

ClientApplied(c, m) ==
  Drain(c, [replica[c] EXCEPT !.pending = @ \cup {[seq |-> m.seq, event |-> m.event]}])

\* The client's read loop takes one frame.
Deliver(c) ==
  /\ c \in online /\ replica[c].joined /\ toClient[c] # <<>>
  /\ toClient' = [toClient EXCEPT ![c] = Tail(@)]
  /\ LET m == Head(toClient[c]) IN
       IF replica[c].refused THEN UNCHANGED replica ELSE
         \/ m.kind = "Snapshot" /\ ClientSnapshot(c, m)
         \/ m.kind = "Applied" /\ ClientApplied(c, m)
         \/ /\ m.kind = "Whisper"
            /\ replica' = [replica EXCEPT ![c].inbox = Append(@, m.name)]
         \/ /\ m.kind = "VersionRefused"
            /\ replica' = [replica EXCEPT ![c].refused = TRUE]
         \/ m.kind = "Rejected" /\ UNCHANGED replica
  /\ UNCHANGED <<hostVars, link, accepting, outbox, toHost, online, counters>>

\* The player leaves, or the connection drops: what is in flight to it is lost.
Disconnect(c) ==
  /\ c \in online
  /\ online' = online \ {c}
  /\ toClient' = [toClient EXCEPT ![c] = <<>>]
  /\ UNCHANGED <<hostVars, link, accepting, outbox, toHost, replica, counters>>

-----------------------------------------------------------------------------
Init ==
  /\ history = <<>> /\ logHash = <<>> /\ announced = {} /\ refused = {}
  /\ link = [c \in Client |-> "new"] /\ accepting = Nobody
  /\ outbox = [t \in Task |-> Silence]
  /\ toClient = [c \in Client |-> <<>>] /\ toHost = [c \in Client |-> <<>>]
  /\ replica = [c \in Client |-> NewReplica] /\ online = {}
  /\ commits = 0 /\ asked = [c \in Client |-> 0] /\ whispered = 0

Next ==
  \/ \E c \in Client : \/ Accept(c) \/ OnConnect(c) \/ Read(c) \/ Close(c)
                       \/ Join(c) \/ Deliver(c) \/ Disconnect(c)
  \/ \E t \in Task : Dispatch(t)
  \/ \E c \in Client : \E e \in Asks[c] : AskIntent(c, e)
  \/ \E events \in LocalBatch : LocalCommit(events)
  \/ \E name \in Name : Whisper(name)

Spec == Init /\ [][Next]_vars

\* The runtime polls every ready task and QUIC delivers while the connection
\* stands; nobody is obliged to dial, to leave, to play or to whisper.
Fairness ==
  /\ \A c \in Client : WF_vars(OnConnect(c)) /\ WF_vars(Read(c)) /\ WF_vars(Close(c))
                       /\ WF_vars(Join(c)) /\ WF_vars(Deliver(c))
  /\ \A t \in Task : WF_vars(Dispatch(t))

FairSpec == Spec /\ Fairness

-----------------------------------------------------------------------------
(* Properties *)

HostMessage ==
  [kind : {"Snapshot"}, seq : Nat, hash : Seq(Nat \X Event), state : Seq(Event)]
    \cup [kind : {"Applied"}, seq : Nat, event : Event]
    \cup [kind : {"Whisper"}, name : Name]
    \cup [kind : {"Rejected", "VersionRefused"}]
ClientMessage == [kind : {"Hello"}] \cup [kind : {"Intent"}, event : Event]

Replica ==
  [joined : BOOLEAN, synced : BOOLEAN, state : Seq(Event), applied : Nat,
   hash : Seq(Nat \X Event), pending : SUBSET [seq : Nat, event : Event],
   refused : BOOLEAN, inbox : Seq(Name)]

\* Every variable has its type; in particular only a registered connection has
\* work at the accept loop (iroh_link.rs spawn_accept takes one at a time).
TypeOK ==
  /\ history \in Seq(Event) /\ logHash \in Seq(Nat \X Event)
  /\ announced \subseteq Client /\ refused \subseteq Client
  /\ link \in [Client -> {"new", "accepting", "greeting", "live", "ended"}]
  /\ accepting \in Client \cup {Nobody}
  /\ outbox \in [Task -> [to : SUBSET Client, msgs : Seq(HostMessage)]]
  /\ toClient \in [Client -> Seq(HostMessage)]
  /\ toHost \in [Client -> Seq(ClientMessage)]
  /\ replica \in [Client -> Replica]
  /\ online \subseteq Client
  /\ commits \in Nat /\ asked \in [Client -> Nat] /\ whispered \in Nat

Prefix(n) == SubSeq(history, 1, n)

\* Whatever order the host's tasks dispatched in, a client that holds a state
\* holds the host's board as of its own `applied`, and folded the same hash.
Converged ==
  /\ logHash = Stamped(1, history)
  /\ \A c \in Client : replica[c].synced =>
       /\ replica[c].applied <= seq
       /\ replica[c].state = Prefix(replica[c].applied)
       /\ replica[c].hash = Stamped(1, Prefix(replica[c].applied))

Carries(msgs, n) == \E i \in 1..Len(msgs) : msgs[i].kind = "Applied" /\ msgs[i].seq = n

\* On its way: in a task's outbox for the client, or in its channel.
Underway(c, n) ==
  \/ Carries(toClient[c], n)
  \/ \E t \in Task : c \in outbox[t].to /\ Carries(outbox[t].msgs, n)

\* No event falls between the snapshot and the tail, and none is dropped by
\* the replay (the debug_assert of drain_pending): every event the host has and
\* a connected client has not is buffered or underway, and the very next one,
\* which the buffer cannot hold back, is underway.
NothingLost ==
  \A c \in online \ Stranger : replica[c].synced /\ ~replica[c].refused =>
    \A n \in replica[c].applied + 1 .. seq :
      \/ Underway(c, n)
      \/ n > replica[c].applied + 1 /\ \E m \in replica[c].pending : m.seq = n

\* The session implements one shared log: each synced replica reads a growing
\* prefix of the host's history, every entry of which applied where it stands.
Promise == INSTANCE SharedLog WITH
  Reader <- Client, Entry <- Event, Fits <- Accepts, log <- history,
  view <- [c \in Client |-> replica[c].state],
  reading <- {c \in Client : replica[c].synced}
ImplementsSharedLog == Promise!Spec

\* A whisper reaches only the player it was addressed to, although it shares
\* the outboxes and channels with the broadcasts.
WhispersStayPrivate ==
  \A c \in Client : \A i \in 1..Len(replica[c].inbox) : replica[c].inbox[i] = NameOf[c]

\* Every entry of the log was committed by the host's app, or was proposed by a
\* served client whose name could propose it on the board as it then stood.  In
\* particular a client of another build leaves no trace: its Hello comes first on
\* its stream, and from then on nothing it sends is read (HostSession::on_message).
EntriesWereAllowed ==
  \A i \in 1..Len(history) :
    \/ \E batch \in LocalBatch : \E j \in 1..Len(batch) : batch[j] = history[i]
    \/ \E c \in Client \ Stranger :
         history[i] \in Asks[c] /\ Permits(NameOf[c], Prefix(i - 1), history[i])

\* "The player names currently connected" (HostSession::peer_names): a peer
\* whose reader has ended has no name any more.
NamesAreConnected == \A c \in announced : link[c] # "ended"

\* A served client that stays connected catches up with the host.
CatchesUp ==
  \A c \in Client \ Stranger :
    link[c] = "live" ~> (c \notin online \/ (replica[c].synced /\ replica[c].applied = seq))
=============================================================================
