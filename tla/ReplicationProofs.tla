------------------------- MODULE ReplicationProofs -------------------------
(***************************************************************************)
(* Theorems about Replication, for every set of connections, every set of  *)
(* events and every apply_game: the variables keep their types; a replica  *)
(* always holds the host's board as of its own `applied`; a whisper        *)
(* reaches no one it was not meant for; the log holds what somebody was    *)
(* allowed to write; and no event is lost between a snapshot and the tail  *)
(* that follows it.                                                        *)
(***************************************************************************)
EXTENDS Replication, SequenceTheorems, TLAPS

LEMMA StampedType ==
  ASSUME NEW n \in Nat, NEW events \in Seq(Event)
  PROVE  Stamped(n + 1, events) \in Seq(Nat \X Event)
  BY DEF Stamped

LEMMA OutboxType ==
  ASSUME TypeOK, NEW t \in Task, NEW to \in SUBSET Client, NEW msgs \in Seq(HostMessage)
  PROVE  [outbox EXCEPT ![t] = [to |-> to, msgs |-> msgs]]
           \in [Task -> [to : SUBSET Client, msgs : Seq(HostMessage)]]
  BY DEF TypeOK

\* What a commit does to the host's variables.
LEMMA CommitType ==
  ASSUME TypeOK, NEW t \in Task, NEW events \in Seq(Event), TryCommit(t, events)
  PROVE  /\ history' \in Seq(Event)
         /\ logHash' \in Seq(Nat \X Event)
         /\ outbox' \in [Task -> [to : SUBSET Client, msgs : Seq(HostMessage)]]
<1>1. history' \in Seq(Event)
  BY DEF TryCommit, TypeOK
<1>2. seq \in Nat
  BY DEF TypeOK, seq
<1>3. logHash' \in Seq(Nat \X Event)
  BY <1>2, StampedType DEF TryCommit, TypeOK
<1>4. [i \in 1..Len(events) |-> AppliedMsg(seq + i, events[i])] \in Seq(HostMessage)
  BY <1>2 DEF AppliedMsg, HostMessage
<1>5. outbox' \in [Task -> [to : SUBSET Client, msgs : Seq(HostMessage)]]
  BY <1>4, OutboxType DEF TryCommit, Everyone
<1> QED BY <1>1, <1>3, <1>5

LEMMA ReplyType ==
  ASSUME TypeOK, NEW c \in Client, NEW msg \in HostMessage, Reply(c, msg)
  PROVE  outbox' \in [Task -> [to : SUBSET Client, msgs : Seq(HostMessage)]]
<1>1. <<msg>> \in Seq(HostMessage) /\ {c} \in SUBSET Client /\ c \in Task
  BY DEF Task
<1> QED BY <1>1, OutboxType DEF Reply

LEMMA NextRunType ==
  ASSUME NEW r \in Replica, NEW n \in Nat, CanReplay(r, n)
  PROVE  NextRun(r, n) \in Seq(Event) /\ Len(NextRun(r, n)) = n
<1>1. ASSUME NEW i \in 1..n PROVE EventAt(r.pending, r.applied + i) \in Event
  <2>1. PICK m \in r.pending : m.seq = r.applied + i
    BY DEF CanReplay
  <2>2. \A m2 \in r.pending : m2.event \in Event
    BY DEF Replica
  <2>3. (CHOOSE m2 \in r.pending : m2.seq = r.applied + i) \in r.pending
    BY <2>1
  <2> QED BY <2>2, <2>3 DEF EventAt
<1> QED BY <1>1 DEF NextRun

LEMMA DrainedType ==
  ASSUME NEW r \in Replica, NEW n \in Nat, CanReplay(r, n)
  PROVE  Drained(r, n) \in Replica
<1>1. NextRun(r, n) \in Seq(Event)
  BY NextRunType
<1>2. r.applied \in Nat /\ r.state \in Seq(Event) /\ r.hash \in Seq(Nat \X Event)
      /\ r.pending \in SUBSET [seq : Nat, event : Event]
  BY DEF Replica
<1>3. Stamped(r.applied + 1, NextRun(r, n)) \in Seq(Nat \X Event)
  BY <1>1, <1>2, StampedType
<1>4. r.state \o NextRun(r, n) \in Seq(Event)
  BY <1>1, <1>2
<1>5. r.hash \o Stamped(r.applied + 1, NextRun(r, n)) \in Seq(Nat \X Event)
  BY <1>2, <1>3
<1>6. {m \in r.pending : m.seq \notin (r.applied + 1)..(r.applied + n + 1)}
        \in SUBSET [seq : Nat, event : Event]
  BY <1>2
<1>7. r.applied + n \in Nat
  BY <1>2
<1> HIDE DEF Stamped, NextRun
<1> QED BY <1>4, <1>5, <1>6, <1>7 DEF Drained, Replica

LEMMA DrainType ==
  ASSUME TypeOK, NEW c \in Client, NEW r \in Replica, Drain(c, r)
  PROVE  replica' \in [Client -> Replica]
<1>1. CASE ~r.synced
  BY <1>1 DEF Drain, TypeOK
<1>2. CASE r.synced
  <2>1. PICK n \in 0..Cardinality(r.pending) :
          CanReplay(r, n) /\ replica' = [replica EXCEPT ![c] = Drained(r, n)]
    BY <1>2 DEF Drain
  <2>2. n \in Nat
    BY <2>1
  <2> QED BY <2>1, <2>2, DrainedType DEF TypeOK
<1> QED BY <1>1, <1>2 DEF Replica

LEMMA NewReplicaType == NewReplica \in Replica
  BY DEF NewReplica, Replica

\* The client's part of a delivery.
LEMMA DeliverType ==
  ASSUME TypeOK, NEW c \in Client, Deliver(c)
  PROVE  replica' \in [Client -> Replica] /\ toClient' \in [Client -> Seq(HostMessage)]
<1> DEFINE m == Head(toClient[c])
<1>1. m \in HostMessage /\ Tail(toClient[c]) \in Seq(HostMessage)
  BY DEF Deliver, TypeOK
<1>2. toClient' \in [Client -> Seq(HostMessage)]
  BY <1>1 DEF Deliver, TypeOK
<1>3. replica[c] \in Replica
  BY DEF TypeOK
<1> HIDE DEF m
<1>4. CASE m.kind = "Snapshot" /\ ClientSnapshot(c, m)
  <2>1. m.seq \in Nat /\ m.hash \in Seq(Nat \X Event) /\ m.state \in Seq(Event)
    BY <1>1, <1>4 DEF HostMessage
  <2>2. [replica[c] EXCEPT !.refused = TRUE] \in Replica
    BY <1>3 DEF Replica
  <2>3. [replica[c] EXCEPT !.synced = TRUE, !.state = m.state,
                           !.applied = m.seq, !.hash = m.hash] \in Replica
    BY <1>3, <2>1 DEF Replica
  <2>4. CASE c \in Stranger
    <3>1. replica' = [replica EXCEPT ![c].refused = TRUE]
      BY <1>4, <2>4 DEF ClientSnapshot
    <3> QED BY <1>2, <2>2, <3>1 DEF TypeOK
  <2>5. CASE c \notin Stranger
    <3>1. Drain(c, [replica[c] EXCEPT !.synced = TRUE, !.state = m.state,
                                      !.applied = m.seq, !.hash = m.hash])
      BY <1>4, <2>5 DEF ClientSnapshot
    <3> QED BY <1>2, <2>3, <3>1, DrainType
  <2> QED BY <2>4, <2>5
<1>5. CASE m.kind = "Applied" /\ ClientApplied(c, m)
  <2>1. [seq |-> m.seq, event |-> m.event] \in [seq : Nat, event : Event]
    BY <1>1, <1>5 DEF HostMessage
  <2>2. [replica[c] EXCEPT !.pending = @ \cup {[seq |-> m.seq, event |-> m.event]}] \in Replica
    BY <1>3, <2>1 DEF Replica
  <2> QED BY <1>2, <1>5, <2>2, DrainType DEF ClientApplied
<1>6. CASE m.kind = "Whisper" /\ replica' = [replica EXCEPT ![c].inbox = Append(@, m.name)]
  <2>1. m.name \in Name
    BY <1>1, <1>6 DEF HostMessage
  <2>2. Append(replica[c].inbox, m.name) \in Seq(Name)
    BY <1>3, <2>1 DEF Replica
  <2>3. [replica[c] EXCEPT !.inbox = Append(@, m.name)] \in Replica
    BY <1>3, <2>2 DEF Replica
  <2> QED BY <1>2, <1>6, <2>3 DEF TypeOK
<1>7. CASE replica' = [replica EXCEPT ![c].refused = TRUE]
  <2>1. [replica[c] EXCEPT !.refused = TRUE] \in Replica
    BY <1>3 DEF Replica
  <2> QED BY <1>2, <1>7, <2>1 DEF TypeOK
<1>8. CASE UNCHANGED replica
  BY <1>2, <1>8 DEF TypeOK
<1> QED BY <1>4, <1>5, <1>6, <1>7, <1>8 DEF Deliver, m

\* Each step keeps the types.
LEMMA StepType ==
  ASSUME TypeOK, [Next]_vars
  PROVE  TypeOK'
<1> USE DEF counters, hostVars, clientVars
<1>1. ASSUME NEW c \in Client, Accept(c) PROVE TypeOK'
  BY <1>1 DEF Accept, TypeOK
<1>2. ASSUME NEW c \in Client, OnConnect(c) PROVE TypeOK'
  <2>1. SnapshotMsg(seq, logHash, history) \in HostMessage
    BY DEF SnapshotMsg, HostMessage, TypeOK, seq
  <2>2. <<SnapshotMsg(seq, logHash, history)>> \in Seq(HostMessage) /\ AcceptLoop \in Task
    BY <2>1 DEF Task
  <2>3. outbox' \in [Task -> [to : SUBSET Client, msgs : Seq(HostMessage)]]
    BY <1>2, <2>2, OutboxType DEF OnConnect
  <2>4. link' \in [Client -> {"new", "accepting", "greeting", "live", "ended"}]
    BY <1>2 DEF OnConnect, TypeOK
  <2> QED BY <1>2, <2>3, <2>4 DEF OnConnect, TypeOK
<1>3. ASSUME NEW c \in Client, Read(c) PROVE TypeOK'
  <2> DEFINE msg == Head(toHost[c])
  <2>1. msg \in ClientMessage /\ Tail(toHost[c]) \in Seq(ClientMessage)
    BY <1>3 DEF Read, TypeOK
  <2>2. toHost' \in [Client -> Seq(ClientMessage)]
    BY <1>3, <2>1 DEF Read, TypeOK
  <2>3. RefusedMsg \in HostMessage /\ RejectedMsg \in HostMessage
    BY DEF RefusedMsg, RejectedMsg, HostMessage
  <2> DEFINE HostTypes ==
        /\ history' \in Seq(Event) /\ logHash' \in Seq(Nat \X Event)
        /\ announced' \subseteq Client /\ refused' \subseteq Client
        /\ outbox' \in [Task -> [to : SUBSET Client, msgs : Seq(HostMessage)]]
  <2>4. CASE OnRefused(c)
    <3>1. outbox' \in [Task -> [to : SUBSET Client, msgs : Seq(HostMessage)]]
      BY <2>3, <2>4, ReplyType DEF OnRefused
    <3>2. HostTypes
      BY <2>4, <3>1 DEF OnRefused, TypeOK
    <3> QED BY <1>3, <2>2, <3>2 DEF Read, TypeOK
  <2>5. CASE OnHello(c)
    <3>1. outbox' \in [Task -> [to : SUBSET Client, msgs : Seq(HostMessage)]]
      BY <2>3, <2>5, ReplyType DEF OnHello, TypeOK
    <3>2. HostTypes
      BY <2>5, <3>1 DEF OnHello, TypeOK
    <3> QED BY <1>3, <2>2, <3>2 DEF Read, TypeOK
  <2>6. CASE OnBadIntent(c, msg.event)
    <3>1. outbox' \in [Task -> [to : SUBSET Client, msgs : Seq(HostMessage)]]
      BY <2>3, <2>6, ReplyType DEF OnBadIntent
    <3>2. HostTypes
      BY <2>6, <3>1 DEF OnBadIntent, TypeOK
    <3> QED BY <1>3, <2>2, <3>2 DEF Read, TypeOK
  <2>7. CASE msg.kind = "Intent" /\ OnIntent(c, msg.event)
    <3>1. <<msg.event>> \in Seq(Event) /\ c \in Task
      BY <2>1, <2>7 DEF ClientMessage, Task
    <3>2. HostTypes
      BY <2>7, <3>1, CommitType DEF OnIntent, TypeOK
    <3> QED BY <1>3, <2>2, <3>2 DEF Read, TypeOK
  <2> QED BY <1>3, <2>4, <2>5, <2>6, <2>7 DEF Read
<1>4. ASSUME NEW c \in Client, Close(c) PROVE TypeOK'
  BY <1>4 DEF Close, TypeOK
<1>5. ASSUME NEW c \in Client, Join(c) PROVE TypeOK'
  <2>1. [replica[c] EXCEPT !.joined = TRUE] \in Replica
    BY ZenonT(60) DEF TypeOK, Replica
  <2>2. replica' \in [Client -> Replica]
    BY <1>5, <2>1 DEF Join, TypeOK
  <2>3. HelloMsg \in ClientMessage
    BY DEF HelloMsg, ClientMessage
  <2>4. Append(toHost[c], HelloMsg) \in Seq(ClientMessage)
    BY <2>3 DEF TypeOK
  <2>5. toHost' \in [Client -> Seq(ClientMessage)]
    BY <1>5, <2>4 DEF Join, TypeOK
  <2> QED BY <1>5, <2>2, <2>5 DEF Join, TypeOK
<1>6. ASSUME NEW c \in Client, Deliver(c) PROVE TypeOK'
  <2>1. replica' \in [Client -> Replica] /\ toClient' \in [Client -> Seq(HostMessage)]
    BY <1>6, DeliverType
  <2> QED BY <1>6, <2>1 DEF Deliver, TypeOK
<1>7. ASSUME NEW c \in Client, Disconnect(c) PROVE TypeOK'
  BY <1>7 DEF Disconnect, TypeOK
<1>8. ASSUME NEW t \in Task, Dispatch(t) PROVE TypeOK'
  <2>1. outbox[t].msgs \in Seq(HostMessage)
    BY DEF TypeOK
  <2>2. \A c \in Client : toClient[c] \in Seq(HostMessage)
                          /\ toClient[c] \o outbox[t].msgs \in Seq(HostMessage)
    BY <2>1 DEF TypeOK
  <2>3. toClient' \in [Client -> Seq(HostMessage)]
    BY <1>8, <2>2 DEF Dispatch
  <2>4. <<>> \in Seq(HostMessage) /\ {} \in SUBSET Client
    OBVIOUS
  <2>5. outbox' \in [Task -> [to : SUBSET Client, msgs : Seq(HostMessage)]]
    BY <1>8, <2>4, OutboxType DEF Dispatch, Silence
  <2>6. /\ link' \in [Client -> {"new", "accepting", "greeting", "live", "ended"}]
        /\ accepting' \in Client \cup {Nobody}
    BY <1>8 DEF Dispatch, TypeOK
  <2> QED BY <1>8, <2>3, <2>5, <2>6 DEF Dispatch, TypeOK
<1>9. ASSUME NEW c \in Client, NEW e \in Asks[c], AskIntent(c, e) PROVE TypeOK'
  <2>1. e \in Event
    BY AsksAssumption
  <2>2. IntentMsg(e) \in ClientMessage
    BY <2>1 DEF IntentMsg, ClientMessage
  <2>3. Append(toHost[c], IntentMsg(e)) \in Seq(ClientMessage)
    BY <2>2 DEF TypeOK
  <2>4. toHost' \in [Client -> Seq(ClientMessage)]
    BY <1>9, <2>3 DEF AskIntent, TypeOK
  <2>5. asked' \in [Client -> Nat]
    BY <1>9 DEF AskIntent, TypeOK
  <2> QED BY <1>9, <2>4, <2>5 DEF AskIntent, TypeOK
<1>10. ASSUME NEW events \in LocalBatch, LocalCommit(events) PROVE TypeOK'
  <2>1. events \in Seq(Event) /\ Bridge \in Task
    BY BatchAssumption DEF Task
  <2>2. /\ history' \in Seq(Event) /\ logHash' \in Seq(Nat \X Event)
        /\ outbox' \in [Task -> [to : SUBSET Client, msgs : Seq(HostMessage)]]
    BY <1>10, <2>1, CommitType DEF LocalCommit
  <2> QED BY <1>10, <2>2 DEF LocalCommit, TypeOK
<1>11. ASSUME NEW name \in Name, Whisper(name) PROVE TypeOK'
  <2>1. PICK c \in announced :
          outbox' = [outbox EXCEPT ![Bridge] = [to |-> {c}, msgs |-> <<WhisperMsg(name)>>]]
    BY <1>11 DEF Whisper
  <2>2. WhisperMsg(name) \in HostMessage
    BY DEF WhisperMsg, HostMessage
  <2>3. <<WhisperMsg(name)>> \in Seq(HostMessage) /\ {c} \in SUBSET Client /\ Bridge \in Task
    BY <2>1, <2>2 DEF TypeOK, Task
  <2>4. outbox' \in [Task -> [to : SUBSET Client, msgs : Seq(HostMessage)]]
    BY <2>1, <2>3, OutboxType
  <2> QED BY <1>11, <2>4, SMTT(60) DEF Whisper, TypeOK
<1>12. CASE UNCHANGED vars
  BY <1>12 DEF vars, netVars, TypeOK
<1> QED
  BY <1>1, <1>2, <1>3, <1>4, <1>5, <1>6, <1>7, <1>8, <1>9, <1>10, <1>11, <1>12 DEF Next

\* The variables of Replication keep their types (HostSession, ClientSession,
\* the peer map and the tasks' outboxes), whatever the constants.
THEOREM TypeCorrect == Spec => []TypeOK
<1>1. Init => TypeOK
  BY NewReplicaType DEF Init, TypeOK, Silence
<1>2. TypeOK /\ [Next]_vars => TypeOK'
  BY StepType
<1> QED BY <1>1, <1>2, PTL DEF Spec

-----------------------------------------------------------------------------
(***************************************************************************)
(* Convergence.  The invariant behind it: whatever is in flight or held is *)
(* true of the history.  A snapshot carries a prefix of it, an Applied and *)
(* a buffered event carry the entry of their number; and since the history *)
(* only grows at its end, what was true once stays true while it waits in  *)
(* an outbox, a channel or a client's buffer.                              *)
(***************************************************************************)

TrueMsg(h, m) ==
  /\ m.kind = "Snapshot" => /\ m.seq \in 0..Len(h)
                            /\ m.state = SubSeq(h, 1, m.seq)
                            /\ m.hash = Stamped(1, SubSeq(h, 1, m.seq))
  /\ m.kind = "Applied" => m.seq \in 1..Len(h) /\ m.event = h[m.seq]

TrueReplica(h, r) ==
  /\ \A m \in r.pending : m.seq \in 1..Len(h) /\ m.event = h[m.seq]
  /\ r.synced => /\ r.applied \in 0..Len(h)
                 /\ r.state = SubSeq(h, 1, r.applied)
                 /\ r.hash = Stamped(1, SubSeq(h, 1, r.applied))

TrueHash     == logHash = Stamped(1, history)
TrueOutboxes == \A t \in Task : \A i \in 1..Len(outbox[t].msgs) :
                  TrueMsg(history, outbox[t].msgs[i])
TrueChannels == \A c \in Client : \A i \in 1..Len(toClient[c]) :
                  TrueMsg(history, toClient[c][i])
TrueReplicas == \A c \in Client : TrueReplica(history, replica[c])

Truth == TypeOK /\ TrueHash /\ TrueOutboxes /\ TrueChannels /\ TrueReplicas

\* What a slice of a sequence holds.
LEMMA Slice ==
  ASSUME NEW S, NEW s \in Seq(S), NEW a \in Nat, NEW n \in Nat, a + n <= Len(s)
  PROVE  /\ SubSeq(s, a + 1, a + n) \in Seq(S)
         /\ Len(SubSeq(s, a + 1, a + n)) = n
         /\ \A i \in 1..n : SubSeq(s, a + 1, a + n)[i] = s[a + i]
<1>1. /\ Len(s) \in Nat /\ a + 1 \in Int /\ a + n \in Int
      /\ \A i \in a + 1 .. a + n : s[i] \in S
  OBVIOUS
<1>2. /\ SubSeq(s, a + 1, a + n) \in Seq(S)
      /\ Len(SubSeq(s, a + 1, a + n)) = IF a + 1 <= a + n THEN a + n - (a + 1) + 1 ELSE 0
  BY <1>1, SubSeqProperties
<1>3. \A i \in 1 .. a + n - (a + 1) + 1 : SubSeq(s, a + 1, a + n)[i] = s[a + 1 + i - 1]
  BY <1>1, SubSeqProperties
<1>4. a + n - (a + 1) + 1 = n /\ \A i \in 1..n : a + 1 + i - 1 = a + i
  OBVIOUS
<1> QED BY <1>2, <1>3, <1>4, SMTT(60)

\* An element of a concatenation comes from one of its halves.
LEMMA ConcatSplit ==
  ASSUME NEW S, NEW s \in Seq(S), NEW t \in Seq(S), NEW i \in 1..Len(s \o t)
  PROVE  \/ i \in 1..Len(s) /\ (s \o t)[i] = s[i]
         \/ i - Len(s) \in 1..Len(t) /\ (s \o t)[i] = t[i - Len(s)]
<1>1. Len(s) \in Nat /\ Len(t) \in Nat /\ i \in 1..Len(s) + Len(t)
  BY ConcatProperties
<1>2. (s \o t)[i] = IF i <= Len(s) THEN s[i] ELSE t[i - Len(s)]
  BY <1>1, ConcatProperties
<1> QED BY <1>1, <1>2

LEMMA ConcatIs ==
  ASSUME NEW S, NEW s \in Seq(S), NEW t \in Seq(S), NEW u \in Seq(S),
         Len(u) = Len(s) + Len(t),
         \A i \in 1..Len(s) + Len(t) : u[i] = IF i <= Len(s) THEN s[i] ELSE t[i - Len(s)]
  PROVE  u = s \o t
  BY ConcatProperties, SeqEqual, SMTT(60)

LEMMA StampedConcat ==
  ASSUME NEW h \in Seq(Event), NEW e \in Seq(Event)
  PROVE  Stamped(1, h \o e) = Stamped(1, h) \o Stamped(Len(h) + 1, e)
<1> DEFINE u == Stamped(1, h \o e)
           s == Stamped(1, h)
           t == Stamped(Len(h) + 1, e)
<1>1. /\ Len(h) \in Nat /\ Len(e) \in Nat
      /\ h \o e \in Seq(Event) /\ Len(h \o e) = Len(h) + Len(e)
      /\ \A i \in 1..Len(h) + Len(e) :
           (h \o e)[i] = IF i <= Len(h) THEN h[i] ELSE e[i - Len(h)]
  BY ConcatProperties
<1>2. /\ u \in Seq(Nat \X Event) /\ Len(u) = Len(h) + Len(e)
      /\ \A i \in 1..Len(h) + Len(e) : u[i] = <<i, (h \o e)[i]>>
  BY <1>1 DEF Stamped
<1>3. /\ s \in Seq(Nat \X Event) /\ Len(s) = Len(h)
      /\ \A i \in 1..Len(h) : s[i] = <<i, h[i]>>
  BY <1>1 DEF Stamped
<1>4. /\ t \in Seq(Nat \X Event) /\ Len(t) = Len(e)
      /\ \A i \in 1..Len(e) : t[i] = <<Len(h) + i, e[i]>>
  BY <1>1 DEF Stamped
<1> HIDE DEF u, s, t
<1>5. ASSUME NEW i \in 1..Len(s) + Len(t)
      PROVE  u[i] = IF i <= Len(s) THEN s[i] ELSE t[i - Len(s)]
  <2>1. CASE i <= Len(h)
    <3>1. i \in 1..Len(h) /\ i \in 1..Len(h) + Len(e) /\ i <= Len(s)
      BY <1>1, <1>3, <1>4, <2>1
    <3>2. u[i] = <<i, h[i]>>
      BY <1>1, <1>2, <2>1, <3>1
    <3> QED BY <1>3, <3>1, <3>2
  <2>2. CASE ~(i <= Len(h))
    <3>1. i - Len(h) \in 1..Len(e) /\ Len(h) + (i - Len(h)) = i
      BY <1>1, <1>3, <1>4, <2>2
    <3>2. t[i - Len(h)] = <<i, e[i - Len(h)]>>
      BY <1>4, <3>1
    <3> QED BY <1>1, <1>2, <1>3, <1>4, <2>2, <3>2
  <2> QED BY <2>1, <2>2
<1>6. u = s \o t
  <2> DEFINE P == Nat \X Event
  <2>1. u \in Seq(P) /\ s \in Seq(P) /\ t \in Seq(P) /\ Len(u) = Len(s) + Len(t)
    BY <1>2, <1>3, <1>4
  <2> HIDE DEF P
  <2> QED BY <1>5, <2>1, ConcatIs
<1> QED BY <1>6 DEF u, s, t

\* A prefix of the history stays a prefix when events are added at its end.
LEMMA PrefixKept ==
  ASSUME NEW h \in Seq(Event), NEW e \in Seq(Event), NEW n \in 0..Len(h)
  PROVE  SubSeq(h \o e, 1, n) = SubSeq(h, 1, n)
<1>1. SubSeq(h, 1, n) \in Seq(Event) /\ Len(SubSeq(h, 1, n)) = n
  OBVIOUS
<1>2. h \o e \in Seq(Event) /\ Len(h \o e) = Len(h) + Len(e)
  OBVIOUS
<1>3. SubSeq(h \o e, 1, n) \in Seq(Event) /\ Len(SubSeq(h \o e, 1, n)) = n
  BY <1>2
<1>4. \A i \in 1..n : SubSeq(h \o e, 1, n)[i] = SubSeq(h, 1, n)[i]
  OBVIOUS
<1> QED BY <1>1, <1>3, <1>4, SeqEqual

LEMMA TrueMsgKept ==
  ASSUME NEW h \in Seq(Event), NEW e \in Seq(Event), NEW m, TrueMsg(h, m)
  PROVE  TrueMsg(h \o e, m)
<1>1. Len(h \o e) = Len(h) + Len(e) /\ Len(h) \in Nat /\ Len(e) \in Nat
  OBVIOUS
<1>2. CASE m.kind = "Snapshot"
  <2>1. m.seq \in 0..Len(h) /\ m.seq \in 0..Len(h \o e)
    BY <1>1, <1>2 DEF TrueMsg
  <2>2. SubSeq(h \o e, 1, m.seq) = SubSeq(h, 1, m.seq)
    BY <2>1, PrefixKept
  <2> QED BY <1>2, <2>1, <2>2 DEF TrueMsg
<1>3. CASE m.kind = "Applied"
  BY <1>1, <1>3 DEF TrueMsg
<1> QED BY <1>2, <1>3 DEF TrueMsg

LEMMA TrueReplicaKept ==
  ASSUME NEW h \in Seq(Event), NEW e \in Seq(Event), NEW r, TrueReplica(h, r)
  PROVE  TrueReplica(h \o e, r)
<1>1. Len(h \o e) = Len(h) + Len(e) /\ Len(h) \in Nat /\ Len(e) \in Nat
  OBVIOUS
<1>2. \A m \in r.pending : m.seq \in 1..Len(h \o e) /\ m.event = (h \o e)[m.seq]
  BY <1>1 DEF TrueReplica
<1>3. r.synced => /\ r.applied \in 0..Len(h \o e)
                  /\ r.state = SubSeq(h \o e, 1, r.applied)
                  /\ r.hash = Stamped(1, SubSeq(h \o e, 1, r.applied))
  <2>1. SUFFICES ASSUME r.synced
                 PROVE  /\ r.applied \in 0..Len(h \o e)
                        /\ r.state = SubSeq(h \o e, 1, r.applied)
                        /\ r.hash = Stamped(1, SubSeq(h \o e, 1, r.applied))
    OBVIOUS
  <2>2. r.applied \in 0..Len(h) /\ r.applied \in 0..Len(h \o e)
    BY <1>1, <2>1 DEF TrueReplica
  <2>3. SubSeq(h \o e, 1, r.applied) = SubSeq(h, 1, r.applied)
    BY <2>2, PrefixKept
  <2> QED BY <2>1, <2>2, <2>3 DEF TrueReplica
<1> QED BY <1>2, <1>3 DEF TrueReplica

\* drain_pending on a true replica leaves a true replica.
LEMMA DrainedTrue ==
  ASSUME NEW h \in Seq(Event), NEW r \in Replica, NEW n \in Nat,
         TrueReplica(h, r), r.synced, CanReplay(r, n)
  PROVE  TrueReplica(h, Drained(r, n))
<1> DEFINE a == r.applied
           run == NextRun(r, n)
<1>1. a \in 0..Len(h) /\ a \in Nat /\ Len(h) \in Nat
  BY DEF TrueReplica, Replica
<1>2. run \in Seq(Event) /\ Len(run) = n
  BY NextRunType
<1>3. ASSUME NEW i \in 1..n PROVE a + i \in 1..Len(h) /\ run[i] = h[a + i]
  <2>1. PICK m \in r.pending : m.seq = a + i
    BY DEF CanReplay
  <2>2. (CHOOSE m2 \in r.pending : m2.seq = a + i) \in r.pending
        /\ (CHOOSE m2 \in r.pending : m2.seq = a + i).seq = a + i
    BY <2>1
  <2>3. run[i] = EventAt(r.pending, a + i)
    BY DEF NextRun
  <2> QED BY <2>1, <2>2, <2>3 DEF EventAt, TrueReplica
<1>4. a + n \in a..Len(h)
  <2>1. CASE n = 0
    BY <1>1, <2>1
  <2>2. CASE n # 0
    BY <1>1, <1>3, <2>2
  <2> QED BY <2>1, <2>2
<1>5. run = SubSeq(h, a + 1, a + n)
  <2>1. a + n <= Len(h) /\ a \in Nat
    BY <1>1, <1>4
  <2>2. /\ SubSeq(h, a + 1, a + n) \in Seq(Event)
        /\ Len(SubSeq(h, a + 1, a + n)) = n
        /\ \A i \in 1..n : SubSeq(h, a + 1, a + n)[i] = h[a + i]
    <3> HIDE DEF a
    <3> QED BY <2>1, Slice
  <2> QED BY <1>2, <1>3, <2>2, SeqEqual
<1>6. r.state \o run = SubSeq(h, 1, a + n)
  <2>1. SubSeq(h, 1, a) \o SubSeq(h, a + 1, a + n) = SubSeq(h, 1, a + n)
    <3>1. 1 \in 1..Len(h) + 1 /\ a \in 1 - 1 .. Len(h) /\ a + n \in a..Len(h)
      BY <1>1, <1>4
    <3> QED BY <3>1, ConcatAdjacentSubSeq
  <2> QED BY <1>5, <2>1 DEF TrueReplica
<1>7. r.hash \o Stamped(a + 1, run) = Stamped(1, SubSeq(h, 1, a + n))
  <2>1. SubSeq(h, 1, a) \in Seq(Event) /\ Len(SubSeq(h, 1, a)) = a
    BY <1>1
  <2>2. Stamped(1, SubSeq(h, 1, a) \o run)
          = Stamped(1, SubSeq(h, 1, a)) \o Stamped(a + 1, run)
    BY <1>2, <2>1, StampedConcat
  <2> QED BY <1>6, <2>2 DEF TrueReplica
<1>8. /\ Drained(r, n).pending \subseteq r.pending
      /\ Drained(r, n).applied = a + n
      /\ Drained(r, n).state = r.state \o run
      /\ Drained(r, n).hash = r.hash \o Stamped(a + 1, run)
  BY DEF Drained, Replica
<1> HIDE DEF a, run
<1>9. a + n \in 0..Len(h)
  BY <1>1, <1>4
<1> QED BY <1>6, <1>7, <1>8, <1>9 DEF TrueReplica

LEMMA DrainTrue ==
  ASSUME TypeOK, TrueReplicas, NEW c \in Client, NEW r \in Replica,
         TrueReplica(history, r), Drain(c, r)
  PROVE  \A d \in Client : TrueReplica(history, replica'[d])
<1>1. CASE ~r.synced
  BY <1>1 DEF Drain, TypeOK, TrueReplicas
<1>2. CASE r.synced
  <2>1. PICK n \in 0..Cardinality(r.pending) :
          CanReplay(r, n) /\ replica' = [replica EXCEPT ![c] = Drained(r, n)]
    BY <1>2 DEF Drain
  <2>2. n \in Nat /\ history \in Seq(Event)
    BY <2>1 DEF TypeOK
  <2>3. TrueReplica(history, Drained(r, n))
    BY <1>2, <2>1, <2>2, DrainedTrue
  <2> QED BY <2>1, <2>3 DEF TypeOK, TrueReplicas
<1> QED BY <1>1, <1>2 DEF Replica

\* A delivered message is true, so the replica that takes it stays true.
LEMMA DeliverTrue ==
  ASSUME Truth, NEW c \in Client, Deliver(c)
  PROVE  \A d \in Client : TrueReplica(history, replica'[d])
<1> DEFINE m == Head(toClient[c])
           r == replica[c]
<1>1. m \in HostMessage /\ TrueMsg(history, m)
  <2>1. toClient[c] \in Seq(HostMessage) /\ toClient[c] # <<>>
    BY DEF Deliver, Truth, TypeOK
  <2>2. Head(toClient[c]) = toClient[c][1] /\ 1 \in 1..Len(toClient[c])
    BY <2>1
  <2> QED BY <2>1, <2>2 DEF Truth, TrueChannels
<1>2. r \in Replica /\ TrueReplica(history, r) /\ TypeOK /\ TrueReplicas
  BY DEF Truth, TypeOK, TrueReplicas
<1>3. CASE UNCHANGED replica
  BY <1>3 DEF Truth, TrueReplicas
<1>4. CASE replica' = [replica EXCEPT ![c].refused = TRUE]
  <2>1. TrueReplica(history, [r EXCEPT !.refused = TRUE])
    BY <1>2 DEF TrueReplica, Replica
  <2> QED BY <1>2, <1>4, <2>1 DEF TypeOK, TrueReplicas
<1>5. CASE replica' = [replica EXCEPT ![c].inbox = Append(@, m.name)]
  <2>1. TrueReplica(history, [r EXCEPT !.inbox = Append(@, m.name)])
    BY <1>2 DEF TrueReplica, Replica
  <2> QED BY <1>2, <1>5, <2>1 DEF TypeOK, TrueReplicas
<1> HIDE DEF m
<1>6. CASE m.kind = "Snapshot" /\ c \notin Stranger /\ ClientSnapshot(c, m)
  <2> DEFINE adopted == [r EXCEPT !.synced = TRUE, !.state = m.state,
                                  !.applied = m.seq, !.hash = m.hash]
  <2>1. m.seq \in Nat /\ m.hash \in Seq(Nat \X Event) /\ m.state \in Seq(Event)
    BY <1>1, <1>6 DEF HostMessage
  <2>2. adopted \in Replica
    BY <1>2, <2>1 DEF Replica
  <2>3. /\ adopted.pending = r.pending /\ adopted.applied = m.seq
        /\ adopted.state = m.state /\ adopted.hash = m.hash
    BY <1>2 DEF Replica
  <2>4. Drain(c, adopted)
    BY <1>6 DEF ClientSnapshot
  <2> HIDE DEF adopted
  <2>5. TrueReplica(history, adopted)
    BY <1>1, <1>2, <1>6, <2>3 DEF TrueReplica, TrueMsg
  <2> QED BY <1>2, <2>2, <2>4, <2>5, DrainTrue
<1>7. CASE m.kind = "Applied" /\ ClientApplied(c, m)
  <2> DEFINE buffered == [r EXCEPT !.pending = @ \cup {[seq |-> m.seq, event |-> m.event]}]
  <2>1. [seq |-> m.seq, event |-> m.event] \in [seq : Nat, event : Event]
    BY <1>1, <1>7 DEF HostMessage
  <2>2. buffered \in Replica
    BY <1>2, <2>1 DEF Replica
  <2>3. /\ buffered.pending = r.pending \cup {[seq |-> m.seq, event |-> m.event]}
        /\ buffered.synced = r.synced /\ buffered.applied = r.applied
        /\ buffered.state = r.state /\ buffered.hash = r.hash
    BY <1>2 DEF Replica
  <2>4. Drain(c, buffered)
    BY <1>7 DEF ClientApplied
  <2> HIDE DEF buffered
  <2>5. TrueReplica(history, buffered)
    BY <1>1, <1>2, <1>7, <2>3 DEF TrueReplica, TrueMsg
  <2> QED BY <1>2, <2>2, <2>4, <2>5, DrainTrue
<1> QED
  BY <1>3, <1>4, <1>5, <1>6, <1>7 DEF Deliver, ClientSnapshot, m

\* A commit extends the history, and everything true of it stays true.
LEMMA CommitTrue ==
  ASSUME Truth, NEW t \in Task, NEW events \in Seq(Event), TryCommit(t, events),
         UNCHANGED <<toClient, replica>>
  PROVE  TrueHash' /\ TrueOutboxes' /\ TrueChannels' /\ TrueReplicas'
<1>1. history \in Seq(Event) /\ history' = history \o events /\ seq = Len(history)
      /\ seq \in Nat
  BY DEF TryCommit, Truth, TypeOK, seq
<1>2. TrueHash'
  BY <1>1, StampedConcat DEF TryCommit, Truth, TrueHash
<1>3. TrueChannels'
  BY <1>1, TrueMsgKept DEF Truth, TrueChannels
<1>4. TrueReplicas'
  BY <1>1, TrueReplicaKept DEF Truth, TrueReplicas
<1>5. \A u \in Task \ {t} : outbox'[u] = outbox[u]
  BY DEF TryCommit, Truth, TypeOK
<1>6. outbox'[t].msgs = [i \in 1..Len(events) |-> AppliedMsg(seq + i, events[i])]
  BY DEF TryCommit, Truth, TypeOK
<1>7. ASSUME NEW i \in 1..Len(events) PROVE TrueMsg(history', AppliedMsg(seq + i, events[i]))
  <2>1. Len(history') = seq + Len(events) /\ history'[seq + i] = events[i]
    BY <1>1
  <2> QED BY <1>1, <2>1 DEF TrueMsg, AppliedMsg
<1>8. ASSUME NEW u \in Task, NEW i \in 1..Len(outbox'[u].msgs)
      PROVE  TrueMsg(history', outbox'[u].msgs[i])
  <2>1. CASE u = t
    <3>1. Len(outbox'[t].msgs) = Len(events)
      BY <1>6
    <3> QED BY <1>6, <1>7, <2>1, <3>1
  <2>2. CASE u # t
    BY <1>1, <1>5, <2>2, TrueMsgKept DEF Truth, TrueOutboxes
  <2> QED BY <2>1, <2>2
<1> QED BY <1>2, <1>3, <1>4, <1>8 DEF TrueOutboxes

\* Posting one true message leaves the outboxes true.
LEMMA PostTrue ==
  ASSUME Truth, NEW t \in Task, NEW to, NEW msg, TrueMsg(history, msg),
         outbox' = [outbox EXCEPT ![t] = [to |-> to, msgs |-> <<msg>>]],
         history' = history
  PROVE  TrueOutboxes'
  BY DEF Truth, TypeOK, TrueOutboxes

LEMMA StepTrue ==
  ASSUME Truth, [Next]_vars
  PROVE  Truth'
<1>1. TypeOK'
  BY StepType DEF Truth
<1> USE DEF hostVars
<1>2. ASSUME UNCHANGED <<hostVars, outbox, toClient, replica>> PROVE Truth'
  BY <1>1, <1>2 DEF Truth, TrueHash, TrueOutboxes, TrueChannels, TrueReplicas
<1>3. ASSUME UNCHANGED <<history, logHash, toClient, replica>>, TrueOutboxes' PROVE Truth'
  BY <1>1, <1>3 DEF Truth, TrueHash, TrueChannels, TrueReplicas
<1>4. ASSUME NEW c \in Client, Accept(c) PROVE Truth'
  BY <1>2, <1>4 DEF Accept
<1>5. ASSUME NEW c \in Client, OnConnect(c) PROVE Truth'
  <2>1. TrueMsg(history, SnapshotMsg(seq, logHash, history)) /\ AcceptLoop \in Task
    <3>1. history \in Seq(Event) /\ SubSeq(history, 1, Len(history)) = history
      BY SubSeqFull DEF Truth, TypeOK
    <3>2. logHash = Stamped(1, history) /\ Len(history) \in 0..Len(history)
      BY <3>1 DEF Truth, TrueHash
    <3>3. TrueMsg(history, SnapshotMsg(seq, logHash, history))
      BY <3>1, <3>2 DEF TrueMsg, SnapshotMsg, seq
    <3> QED BY <3>3 DEF Task
  <2> HIDE DEF hostVars
  <2>2. TrueOutboxes'
    BY <1>5, <2>1, PostTrue DEF OnConnect, hostVars
  <2> QED BY <1>3, <1>5, <2>2 DEF OnConnect, hostVars, clientVars
<1>6. ASSUME NEW c \in Client, Read(c) PROVE Truth'
  <2> DEFINE msg == Head(toHost[c])
  <2>1. msg \in ClientMessage /\ c \in Task /\ UNCHANGED <<toClient, replica>>
    BY <1>6 DEF Read, Truth, TypeOK, Task, clientVars
  <2>2. TrueMsg(history, RefusedMsg) /\ TrueMsg(history, RejectedMsg)
    BY DEF TrueMsg, RefusedMsg, RejectedMsg
  <2>3. CASE OnRefused(c)
    <3>1. TrueOutboxes'
      BY <2>1, <2>2, <2>3, PostTrue DEF OnRefused, Reply
    <3> QED BY <1>3, <2>1, <2>3, <3>1 DEF OnRefused
  <2>4. CASE OnHello(c)
    <3>1. CASE c \in Stranger
      <4>1. TrueOutboxes'
        BY <2>1, <2>2, <2>4, <3>1, PostTrue DEF OnHello, Reply
      <4> QED BY <1>3, <2>1, <2>4, <4>1 DEF OnHello
    <3>2. CASE c \notin Stranger
      <4>1. TrueOutboxes'
        BY <2>4, <3>2 DEF OnHello, Truth, TrueOutboxes
      <4> QED BY <1>3, <2>1, <2>4, <4>1 DEF OnHello
    <3> QED BY <3>1, <3>2
  <2>5. CASE OnBadIntent(c, msg.event)
    <3>1. TrueOutboxes'
      BY <2>1, <2>2, <2>5, PostTrue DEF OnBadIntent, Reply
    <3> QED BY <1>3, <2>1, <2>5, <3>1 DEF OnBadIntent
  <2>6. CASE msg.kind = "Intent" /\ OnIntent(c, msg.event)
    <3>1. <<msg.event>> \in Seq(Event)
      BY <2>1, <2>6 DEF ClientMessage
    <3> QED BY <1>1, <2>1, <2>6, <3>1, CommitTrue DEF OnIntent, Truth
  <2> QED BY <1>6, <2>3, <2>4, <2>5, <2>6 DEF Read
<1>7. ASSUME NEW c \in Client, Close(c) PROVE Truth'
  BY <1>2, <1>7 DEF Close, clientVars
<1>8. ASSUME NEW c \in Client, Join(c) PROVE Truth'
  <2>1. /\ [replica[c] EXCEPT !.joined = TRUE].pending = replica[c].pending
        /\ [replica[c] EXCEPT !.joined = TRUE].synced = replica[c].synced
        /\ [replica[c] EXCEPT !.joined = TRUE].applied = replica[c].applied
        /\ [replica[c] EXCEPT !.joined = TRUE].state = replica[c].state
        /\ [replica[c] EXCEPT !.joined = TRUE].hash = replica[c].hash
    BY DEF Truth, TypeOK, Replica
  <2>2. TrueReplica(history, [replica[c] EXCEPT !.joined = TRUE])
    BY <2>1 DEF TrueReplica, Truth, TrueReplicas
  <2>3. TrueReplicas'
    BY <1>8, <2>2 DEF Join, Truth, TypeOK, TrueReplicas
  <2> QED BY <1>1, <1>8, <2>3 DEF Join, Truth, TrueHash, TrueOutboxes, TrueChannels
<1>9. ASSUME NEW c \in Client, Deliver(c) PROVE Truth'
  <2>1. TrueReplicas'
    BY <1>9, DeliverTrue DEF Deliver, TrueReplicas
  <2>2. /\ Len(Tail(toClient[c])) = Len(toClient[c]) - 1
        /\ \A i \in 1..Len(Tail(toClient[c])) : Tail(toClient[c])[i] = toClient[c][i + 1]
        /\ Len(toClient[c]) \in Nat
    BY <1>9 DEF Deliver, Truth, TypeOK
  <2>3. \A i \in 1..Len(Tail(toClient[c])) : TrueMsg(history, Tail(toClient[c])[i])
    BY <2>2 DEF Truth, TrueChannels
  <2>4. TrueChannels'
    BY <1>9, <2>3 DEF Deliver, Truth, TypeOK, TrueChannels
  <2> QED BY <1>1, <1>9, <2>1, <2>4 DEF Deliver, Truth, TrueHash, TrueOutboxes
<1>10. ASSUME NEW c \in Client, Disconnect(c) PROVE Truth'
  <2>1. TrueChannels'
    BY <1>10 DEF Disconnect, Truth, TypeOK, TrueChannels
  <2> QED BY <1>1, <1>10, <2>1 DEF Disconnect, Truth, TrueHash, TrueOutboxes, TrueReplicas
<1>11. ASSUME NEW t \in Task, Dispatch(t) PROVE Truth'
  <2>1. TrueOutboxes'
    BY <1>11 DEF Dispatch, Silence, Truth, TypeOK, TrueOutboxes
  <2>2. ASSUME NEW c \in Client,
               NEW i \in 1..Len(toClient[c] \o outbox[t].msgs)
        PROVE  TrueMsg(history, (toClient[c] \o outbox[t].msgs)[i])
    <3>1. toClient[c] \in Seq(HostMessage) /\ outbox[t].msgs \in Seq(HostMessage)
      BY DEF Truth, TypeOK
    <3>2. \/ i \in 1..Len(toClient[c])
             /\ (toClient[c] \o outbox[t].msgs)[i] = toClient[c][i]
          \/ /\ i - Len(toClient[c]) \in 1..Len(outbox[t].msgs)
             /\ (toClient[c] \o outbox[t].msgs)[i] = outbox[t].msgs[i - Len(toClient[c])]
      BY <3>1, ConcatSplit
    <3> QED BY <3>2 DEF Truth, TrueChannels, TrueOutboxes
  <2>3. TrueChannels'
    BY <1>11, <2>2 DEF Dispatch, Truth, TrueChannels
  <2> QED BY <1>1, <1>11, <2>1, <2>3 DEF Dispatch, Truth, TrueHash, TrueReplicas, clientVars
<1>12. ASSUME NEW c \in Client, NEW e \in Asks[c], AskIntent(c, e) PROVE Truth'
  BY <1>2, <1>12 DEF AskIntent, clientVars
<1>13. ASSUME NEW events \in LocalBatch, LocalCommit(events) PROVE Truth'
  <2>1. events \in Seq(Event) /\ Bridge \in Task
    BY BatchAssumption DEF Task
  <2> QED BY <1>1, <1>13, <2>1, CommitTrue DEF LocalCommit, Truth, clientVars
<1>14. ASSUME NEW name \in Name, Whisper(name) PROVE Truth'
  <2>1. TrueMsg(history, WhisperMsg(name)) /\ Bridge \in Task
    BY DEF TrueMsg, WhisperMsg, Task
  <2>2. TrueOutboxes'
    BY <1>14, <2>1, PostTrue DEF Whisper
  <2> QED BY <1>3, <1>14, <2>2 DEF Whisper, clientVars
<1>15. CASE UNCHANGED vars
  BY <1>2, <1>15 DEF vars, netVars, clientVars
<1> QED
  BY <1>4, <1>5, <1>6, <1>7, <1>8, <1>9, <1>10, <1>11, <1>12, <1>13, <1>14, <1>15 DEF Next

THEOREM TruthHolds == Spec => []Truth
<1>1. Init => Truth
  <2>1. Init => TypeOK
    BY NewReplicaType DEF Init, TypeOK, Silence
  <2>2. Init => TrueHash
    BY DEF Init, TrueHash, Stamped
  <2>3. Init => TrueOutboxes /\ TrueChannels /\ TrueReplicas
    BY DEF Init, TrueOutboxes, TrueChannels, TrueReplicas, TrueReplica, NewReplica, Silence
  <2> QED BY <2>1, <2>2, <2>3 DEF Truth
<1>2. Truth /\ [Next]_vars => Truth'
  BY StepTrue
<1> QED BY <1>1, <1>2, PTL DEF Spec

\* A replica never diverges: whatever order the host's tasks dispatched in, a
\* client that holds a state holds the host's board as of its own `applied`
\* and folded the hash the host had there (HostSession::try_commit and
\* on_connect, iroh_link's dispatch, ClientSession::drain_pending).
THEOREM Convergence == Spec => []Converged
<1>1. Truth => Converged
  BY DEF Truth, TrueHash, TrueReplicas, TrueReplica, Converged, Prefix, seq
<1> QED BY <1>1, TruthHolds, PTL

-----------------------------------------------------------------------------
(***************************************************************************)
(* Refinement.  A second snapshot could roll a replica back, so beside     *)
(* Truth the mapping needs Once: a connection is greeted with one snapshot *)
(* and a replica that holds a state has none left to read.                 *)
(***************************************************************************)

IsSnapshot(m) == m.kind = "Snapshot"

OneGreeting ==
  /\ \A t \in Task : \A i \in 1..Len(outbox[t].msgs) :
       IsSnapshot(outbox[t].msgs[i]) => t = AcceptLoop
  /\ outbox[AcceptLoop].msgs # <<>> =>
       /\ accepting \in Client /\ link[accepting] = "greeting"
       /\ outbox[AcceptLoop].to = {accepting} /\ Len(outbox[AcceptLoop].msgs) = 1

OneSnapshot(c) ==
  /\ link[c] \in {"new", "accepting", "greeting"} =>
       ~replica[c].synced /\ \A i \in 1..Len(toClient[c]) : ~IsSnapshot(toClient[c][i])
  /\ \A i \in 1..Len(toClient[c]) : IsSnapshot(toClient[c][i]) =>
       /\ ~replica[c].synced
       /\ \A j \in 1..Len(toClient[c]) : IsSnapshot(toClient[c][j]) => j = i

Once == OneGreeting /\ \A c \in Client : OneSnapshot(c)

LEMMA DrainKeeps ==
  ASSUME TypeOK, NEW c \in Client, NEW r \in Replica, Drain(c, r)
  PROVE  /\ \A d \in Client \ {c} : replica'[d] = replica[d]
         /\ replica'[c].synced = r.synced
         /\ ~r.synced => replica'[c].state = r.state
         /\ r.applied <= replica'[c].applied
<1>1. CASE ~r.synced
  <2>1. replica' = [replica EXCEPT ![c] = r]
    BY <1>1 DEF Drain
  <2>2. replica'[c] = r /\ \A d \in Client \ {c} : replica'[d] = replica[d]
    BY <2>1 DEF TypeOK
  <2>3. r.applied \in Nat
    BY DEF Replica
  <2> QED BY <2>2, <2>3
<1>2. CASE r.synced
  <2>1. PICK n \in 0..Cardinality(r.pending) :
          CanReplay(r, n) /\ replica' = [replica EXCEPT ![c] = Drained(r, n)]
    BY <1>2 DEF Drain
  <2>2. n \in Nat /\ r.applied \in Nat
    BY <2>1 DEF Replica
  <2>3. Drained(r, n).synced = r.synced /\ Drained(r, n).applied = r.applied + n
    BY DEF Drained, Replica
  <2>4. replica'[c] = Drained(r, n) /\ \A d \in Client \ {c} : replica'[d] = replica[d]
    BY <2>1 DEF TypeOK
  <2> HIDE DEF Drained
  <2>5. replica'[c].synced = r.synced
    BY <2>3, <2>4
  <2>6. r.applied <= replica'[c].applied
    <3>1. replica'[c].applied = r.applied + n
      BY <2>3, <2>4
    <3> QED BY <2>2, <3>1
  <2> QED BY <1>2, <2>4, <2>5, <2>6
<1> QED BY <1>1, <1>2 DEF Replica

\* What a delivery may do to the replica that takes it.
LEMMA DeliverShape ==
  ASSUME TypeOK, NEW c \in Client, Deliver(c)
  PROVE  /\ \A d \in Client \ {c} : replica'[d] = replica[d]
         /\ IsSnapshot(Head(toClient[c])) \/ ~IsSnapshot(Head(toClient[c]))
         /\ ~IsSnapshot(Head(toClient[c])) =>
              /\ replica'[c].synced = replica[c].synced
              /\ ~replica[c].synced => replica'[c].state = replica[c].state
              /\ replica[c].applied <= replica'[c].applied
         /\ replica[c].synced => replica'[c].synced
         /\ ~replica'[c].synced => replica'[c].state = replica[c].state
<1> DEFINE m == Head(toClient[c])
           r == replica[c]
<1>1. m \in HostMessage /\ r \in Replica /\ r.applied \in Nat
  <2>1. toClient[c] \in Seq(HostMessage) /\ toClient[c] # <<>> /\ r \in Replica
    BY DEF Deliver, TypeOK
  <2> QED BY <2>1, HeadTailProperties DEF Replica
<1>2. CASE UNCHANGED replica
  BY <1>1, <1>2
<1>3. CASE replica' = [replica EXCEPT ![c].refused = TRUE]
  <2>1. /\ [r EXCEPT !.refused = TRUE].synced = r.synced
        /\ [r EXCEPT !.refused = TRUE].state = r.state
        /\ [r EXCEPT !.refused = TRUE].applied = r.applied
    BY <1>1 DEF Replica
  <2> QED BY <1>1, <1>3, <2>1 DEF TypeOK
<1>4. CASE replica' = [replica EXCEPT ![c].inbox = Append(@, m.name)]
  <2>1. /\ [r EXCEPT !.inbox = Append(@, m.name)].synced = r.synced
        /\ [r EXCEPT !.inbox = Append(@, m.name)].state = r.state
        /\ [r EXCEPT !.inbox = Append(@, m.name)].applied = r.applied
    BY <1>1 DEF Replica
  <2> QED BY <1>1, <1>4, <2>1 DEF TypeOK
<1> HIDE DEF m
<1>5. CASE m.kind = "Snapshot" /\ c \notin Stranger /\ ClientSnapshot(c, m)
  <2> DEFINE adopted == [r EXCEPT !.synced = TRUE, !.state = m.state,
                                  !.applied = m.seq, !.hash = m.hash]
  <2>1. m.seq \in Nat /\ m.hash \in Seq(Nat \X Event) /\ m.state \in Seq(Event)
    BY <1>1, <1>5 DEF HostMessage
  <2>2. adopted \in Replica /\ adopted.synced = TRUE
    BY <1>1, <2>1 DEF Replica
  <2>3. Drain(c, adopted)
    BY <1>5 DEF ClientSnapshot
  <2> HIDE DEF adopted
  <2>4. replica'[c].synced /\ \A d \in Client \ {c} : replica'[d] = replica[d]
    BY <2>2, <2>3, DrainKeeps
  <2> QED BY <1>5, <2>4 DEF IsSnapshot, m
<1>6. CASE m.kind = "Applied" /\ ClientApplied(c, m)
  <2> DEFINE buffered == [r EXCEPT !.pending = @ \cup {[seq |-> m.seq, event |-> m.event]}]
  <2>1. [seq |-> m.seq, event |-> m.event] \in [seq : Nat, event : Event]
    BY <1>1, <1>6 DEF HostMessage
  <2>2. /\ buffered \in Replica /\ buffered.synced = r.synced
        /\ buffered.applied = r.applied /\ buffered.state = r.state
    BY <1>1, <2>1 DEF Replica
  <2>3. Drain(c, buffered)
    BY <1>6 DEF ClientApplied
  <2> HIDE DEF buffered
  <2> QED BY <2>2, <2>3, DrainKeeps
<1> QED BY <1>2, <1>3, <1>4, <1>5, <1>6 DEF Deliver, ClientSnapshot, m

LEMMA NewReplicaUnsynced == NewReplica.synced = FALSE /\ NewReplica.state = <<>>
  BY DEF NewReplica

\* Posting a message that is not a snapshot leaves the accept loop's box alone.
LEMMA PostKeepsGreeting ==
  ASSUME TypeOK, OneGreeting, NEW t \in Task \ {AcceptLoop}, NEW to, NEW msgs \in Seq(HostMessage),
         \A i \in 1..Len(msgs) : ~IsSnapshot(msgs[i]),
         outbox' = [outbox EXCEPT ![t] = [to |-> to, msgs |-> msgs]],
         UNCHANGED <<accepting, link>>
  PROVE  OneGreeting'
<1>1. /\ \A u \in Task \ {t} : outbox'[u] = outbox[u]
      /\ outbox'[t].msgs = msgs
  BY DEF TypeOK
<1>2. outbox'[AcceptLoop] = outbox[AcceptLoop]
  BY <1>1 DEF Task
<1> QED BY <1>1, <1>2 DEF OneGreeting

LEMMA CommitKeepsGreeting ==
  ASSUME TypeOK, OneGreeting, NEW t \in Task \ {AcceptLoop}, NEW events \in Seq(Event),
         TryCommit(t, events), UNCHANGED <<accepting, link>>
  PROVE  OneGreeting'
<1> DEFINE msgs == [i \in 1..Len(events) |-> AppliedMsg(seq + i, events[i])]
<1>1. seq \in Nat
  BY DEF TypeOK, seq
<1>2. msgs \in Seq(HostMessage) /\ \A i \in 1..Len(msgs) : ~IsSnapshot(msgs[i])
  BY <1>1 DEF AppliedMsg, HostMessage, IsSnapshot
<1>3. outbox' = [outbox EXCEPT ![t] = [to |-> Everyone, msgs |-> msgs]]
  BY DEF TryCommit
<1> HIDE DEF msgs
<1> QED BY <1>2, <1>3, PostKeepsGreeting

LEMMA StepOnce ==
  ASSUME TypeOK, Once, [Next]_vars
  PROVE  Once'
<1> USE DEF hostVars, clientVars
<1>1. \A c \in Client : c \in Task \ {AcceptLoop}
  BY TasksAssumption DEF Task
<1>2. Bridge \in Task \ {AcceptLoop} /\ AcceptLoop \in Task
  BY TasksAssumption DEF Task
<1>3. ASSUME UNCHANGED <<link, toClient, replica>>, OneGreeting' PROVE Once'
  BY <1>3 DEF Once, OneSnapshot
<1>4. ASSUME UNCHANGED <<link, accepting, outbox>>,
             \A c \in Client : OneSnapshot(c)'
      PROVE  Once'
  BY <1>4 DEF Once, OneGreeting
<1>5. ASSUME NEW c \in Client, Accept(c) PROVE Once'
  <2>1. /\ outbox[AcceptLoop].msgs = <<>> /\ link[c] = "new"
        /\ link' = [link EXCEPT ![c] = "accepting"]
        /\ UNCHANGED <<outbox, toClient, replica>>
    BY <1>5 DEF Accept, Idle
  <2>2. OneGreeting'
    BY <2>1 DEF Once, OneGreeting
  <2>3. ASSUME NEW d \in Client PROVE OneSnapshot(d)'
    BY <2>1 DEF Once, OneSnapshot, TypeOK
  <2> QED BY <2>2, <2>3 DEF Once
<1>6. ASSUME NEW c \in Client, OnConnect(c) PROVE Once'
  <2> DEFINE box == [to |-> {c}, msgs |-> <<SnapshotMsg(seq, logHash, history)>>]
  <2>1. /\ accepting = c /\ accepting' = c /\ link[c] = "accepting"
        /\ link' = [link EXCEPT ![c] = "greeting"]
        /\ outbox' = [outbox EXCEPT ![AcceptLoop] = box]
        /\ UNCHANGED <<toClient, replica>>
    BY <1>6 DEF OnConnect
  <2>2. box.to = {c} /\ Len(box.msgs) = 1
    OBVIOUS
  <2> HIDE DEF box
  <2>3. /\ outbox'[AcceptLoop] = box /\ \A u \in Task \ {AcceptLoop} : outbox'[u] = outbox[u]
        /\ link'[c] = "greeting" /\ \A d \in Client \ {c} : link'[d] = link[d]
    BY <1>2, <2>1 DEF TypeOK
  <2>4. OneGreeting'
    BY <2>1, <2>2, <2>3 DEF Once, OneGreeting
  <2>5. ASSUME NEW d \in Client PROVE OneSnapshot(d)'
    <3>1. link[d] \in {"new", "accepting", "greeting"}
            <=> link'[d] \in {"new", "accepting", "greeting"}
      BY <2>1, <2>3
    <3> QED BY <2>1, <3>1 DEF Once, OneSnapshot
  <2> QED BY <2>4, <2>5 DEF Once
<1>7. ASSUME NEW c \in Client, Read(c) PROVE Once'
  <2> DEFINE msg == Head(toHost[c])
  <2>1. msg \in ClientMessage /\ UNCHANGED <<link, accepting, toClient, replica>>
    BY <1>7 DEF Read, TypeOK
  <2>2. ASSUME NEW reply \in {RefusedMsg, RejectedMsg}, Reply(c, reply) PROVE Once'
    <3>1. /\ <<reply>> \in Seq(HostMessage)
          /\ \A i \in 1..Len(<<reply>>) : ~IsSnapshot(<<reply>>[i])
      BY DEF RefusedMsg, RejectedMsg, HostMessage, IsSnapshot
    <3>2. OneGreeting'
      BY <1>1, <2>1, <2>2, <3>1, PostKeepsGreeting DEF Once, Reply
    <3> QED BY <1>3, <2>1, <3>2
  <2>3. CASE OnRefused(c)
    BY <2>2, <2>3 DEF OnRefused
  <2>4. CASE OnHello(c)
    <3>1. CASE c \in Stranger
      BY <2>2, <2>4, <3>1 DEF OnHello
    <3>2. CASE c \notin Stranger
      BY <1>4, <2>1, <2>4, <3>2 DEF OnHello, Once, OneSnapshot
    <3> QED BY <3>1, <3>2
  <2>5. CASE OnBadIntent(c, msg.event)
    BY <2>2, <2>5 DEF OnBadIntent
  <2>6. CASE msg.kind = "Intent" /\ OnIntent(c, msg.event)
    <3>1. <<msg.event>> \in Seq(Event)
      BY <2>1, <2>6 DEF ClientMessage
    <3>2. OneGreeting'
      BY <1>1, <2>1, <2>6, <3>1, CommitKeepsGreeting DEF OnIntent, Once
    <3> QED BY <1>3, <2>1, <3>2
  <2> QED BY <1>7, <2>3, <2>4, <2>5, <2>6 DEF Read
<1>8. ASSUME NEW c \in Client, Close(c) PROVE Once'
  <2>1. /\ link[c] = "live" /\ link' = [link EXCEPT ![c] = "ended"]
        /\ UNCHANGED <<accepting, outbox, toClient, replica>>
    BY <1>8 DEF Close
  <2>2. OneGreeting'
    BY <2>1 DEF Once, OneGreeting, TypeOK
  <2>3. ASSUME NEW d \in Client PROVE OneSnapshot(d)'
    BY <2>1 DEF Once, OneSnapshot, TypeOK
  <2> QED BY <2>2, <2>3 DEF Once
<1>9. ASSUME NEW c \in Client, Join(c) PROVE Once'
  <2>1. /\ UNCHANGED <<link, accepting, outbox, toClient>>
        /\ \A d \in Client : replica'[d].synced = replica[d].synced
    BY <1>9 DEF Join, TypeOK, Replica
  <2> QED BY <2>1 DEF Once, OneGreeting, OneSnapshot
<1>10. ASSUME NEW c \in Client, Deliver(c) PROVE Once'
  <2>1. /\ UNCHANGED <<link, accepting, outbox>>
        /\ toClient[c] \in Seq(HostMessage) /\ toClient[c] # <<>>
        /\ toClient' = [toClient EXCEPT ![c] = Tail(@)]
    BY <1>10 DEF Deliver, TypeOK
  <2>2. /\ Len(Tail(toClient[c])) = Len(toClient[c]) - 1 /\ Len(toClient[c]) \in Nat
        /\ Head(toClient[c]) = toClient[c][1] /\ 1 \in 1..Len(toClient[c])
        /\ \A i \in 1..Len(Tail(toClient[c])) : Tail(toClient[c])[i] = toClient[c][i + 1]
    BY <2>1, HeadTailProperties
  <2>3. toClient'[c] = Tail(toClient[c]) /\ \A d \in Client \ {c} : toClient'[d] = toClient[d]
    BY <2>1 DEF TypeOK
  <2>4. \A i \in 1..Len(toClient'[c]) :
          i + 1 \in 1..Len(toClient[c]) /\ toClient'[c][i] = toClient[c][i + 1]
    BY <2>2, <2>3
  <2>5. \A d \in Client \ {c} : replica'[d] = replica[d]
    BY <1>10, DeliverShape
  <2>6. ASSUME NEW d \in Client PROVE OneSnapshot(d)'
    <3>1. CASE d # c
      BY <2>1, <2>3, <2>5, <3>1 DEF Once, OneSnapshot
    <3>2. CASE d = c /\ ~IsSnapshot(toClient[c][1])
      <4>1. replica'[c].synced = replica[c].synced
        BY <1>10, <2>2, <3>2, DeliverShape
      <4>2. \A i, j \in 1..Len(toClient'[c]) : i + 1 = j + 1 => i = j
        BY <2>2, <2>3
      <4> QED BY <2>1, <2>4, <3>2, <4>1, <4>2, SMTT(60) DEF Once, OneSnapshot
    <3>3. CASE d = c /\ IsSnapshot(toClient[c][1])
      <4>1. link[c] \notin {"new", "accepting", "greeting"}
        BY <2>2, <3>3 DEF Once, OneSnapshot
      <4>2. \A i \in 1..Len(toClient'[c]) : ~IsSnapshot(toClient'[c][i])
        <5>1. \A j \in 1..Len(toClient[c]) : IsSnapshot(toClient[c][j]) => j = 1
          BY <2>2, <3>3 DEF Once, OneSnapshot
        <5>2. \A i \in 1..Len(toClient'[c]) : i + 1 # 1
          BY <2>2, <2>3
        <5> QED BY <2>4, <5>1, <5>2
      <4> QED BY <2>1, <3>3, <4>1, <4>2 DEF OneSnapshot
    <3> QED BY <3>1, <3>2, <3>3
  <2> QED BY <1>4, <2>1, <2>6
<1>11. ASSUME NEW c \in Client, Disconnect(c) PROVE Once'
  <2>1. /\ UNCHANGED <<link, accepting, outbox, replica>>
        /\ toClient'[c] = <<>> /\ \A d \in Client \ {c} : toClient'[d] = toClient[d]
    BY <1>11 DEF Disconnect, TypeOK
  <2>2. ASSUME NEW d \in Client PROVE OneSnapshot(d)'
    BY <2>1 DEF Once, OneSnapshot
  <2> QED BY <1>4, <2>1, <2>2
<1>12. ASSUME NEW t \in Task, Dispatch(t) PROVE Once'
  <2>1. /\ outbox'[t] = Silence /\ \A u \in Task \ {t} : outbox'[u] = outbox[u]
        /\ replica' = replica /\ Silence.msgs = <<>>
        /\ outbox[t].msgs # <<>>
    BY <1>12 DEF Dispatch, TypeOK, Silence, Idle
  <2>2. \A c \in Client : \/ toClient'[c] = toClient[c]
                          \/ /\ c \in outbox[t].to
                             /\ toClient'[c] = toClient[c] \o outbox[t].msgs
    BY <1>12 DEF Dispatch
  <2>3. \A c \in Client : /\ toClient[c] \in Seq(HostMessage)
                          /\ outbox[t].msgs \in Seq(HostMessage)
    BY DEF TypeOK
  <2>4. CASE t # AcceptLoop
    <3>1. UNCHANGED <<link, accepting>> /\ outbox'[AcceptLoop] = outbox[AcceptLoop]
      BY <1>2, <1>12, <2>1, <2>4 DEF Dispatch
    <3>2. OneGreeting'
      BY <2>1, <3>1 DEF Once, OneGreeting
    <3>3. ASSUME NEW c \in Client PROVE OneSnapshot(c)'
      <4>1. CASE toClient'[c] = toClient[c]
        BY <2>1, <3>1, <4>1 DEF Once, OneSnapshot
      <4>2. CASE toClient'[c] = toClient[c] \o outbox[t].msgs
        <5>1. \A i \in 1..Len(outbox[t].msgs) : ~IsSnapshot(outbox[t].msgs[i])
          BY <2>4 DEF Once, OneGreeting
        <5>2. ASSUME NEW i \in 1..Len(toClient'[c]), IsSnapshot(toClient'[c][i])
              PROVE  i \in 1..Len(toClient[c]) /\ toClient'[c][i] = toClient[c][i]
          <6> DEFINE s == toClient[c]
                     u == outbox[t].msgs
          <6>1. s \in Seq(HostMessage) /\ u \in Seq(HostMessage) /\ i \in 1..Len(s \o u)
            BY <2>3, <4>2
          <6>2. \A j \in 1..Len(u) : ~IsSnapshot(u[j])
            BY <5>1
          <6>3. toClient'[c] = s \o u /\ IsSnapshot((s \o u)[i])
            BY <4>2, <5>2
          <6>4. i \in 1..Len(s) /\ (s \o u)[i] = s[i]
            <7> HIDE DEF s, u
            <7>1. \/ i \in 1..Len(s) /\ (s \o u)[i] = s[i]
                  \/ i - Len(s) \in 1..Len(u) /\ (s \o u)[i] = u[i - Len(s)]
              BY <6>1, ConcatSplit
            <7> QED BY <6>2, <6>3, <7>1
          <6> QED BY <6>3, <6>4
        <5> QED BY <2>1, <3>1, <5>2 DEF Once, OneSnapshot
      <4> QED BY <2>2, <4>1, <4>2
    <3> QED BY <3>2, <3>3 DEF Once
  <2>5. CASE t = AcceptLoop
    <3> DEFINE a == accepting
    <3>1. /\ a \in Client /\ link[a] = "greeting" /\ outbox[t].to = {a}
          /\ Len(outbox[t].msgs) = 1
      BY <2>1, <2>5 DEF Once, OneGreeting
    <3>2. link'[a] = "live" /\ \A d \in Client \ {a} : link'[d] = link[d]
      BY <1>12, <2>5, <3>1 DEF Dispatch, TypeOK
    <3>3. OneGreeting'
      BY <2>1, <2>5 DEF Once, OneGreeting
    <3> HIDE DEF a
    <3>4. ASSUME NEW c \in Client PROVE OneSnapshot(c)'
      <4>1. CASE c # a
        BY <2>1, <2>2, <3>1, <3>2, <4>1 DEF Once, OneSnapshot
      <4>2. CASE c = a
        <5>1. /\ ~replica'[c].synced /\ link'[c] = "live"
              /\ \A i \in 1..Len(toClient[c]) : ~IsSnapshot(toClient[c][i])
          BY <2>1, <3>1, <3>2, <4>2 DEF Once, OneSnapshot
        <5>2. CASE toClient'[c] = toClient[c]
          BY <5>1, <5>2 DEF OneSnapshot
        <5>3. CASE toClient'[c] = toClient[c] \o outbox[t].msgs
          <6>1. ASSUME NEW i \in 1..Len(toClient'[c]), IsSnapshot(toClient'[c][i])
                PROVE  i = Len(toClient[c]) + 1
            <7>1. \/ i \in 1..Len(toClient[c]) /\ toClient'[c][i] = toClient[c][i]
                  \/ i - Len(toClient[c]) \in 1..Len(outbox[t].msgs)
              BY <2>3, <5>3, ConcatSplit
            <7>2. Len(toClient[c]) \in Nat
              BY <2>3
            <7> QED BY <3>1, <5>1, <6>1, <7>1, <7>2
          <6> QED BY <5>1, <6>1 DEF OneSnapshot
        <5> QED BY <2>2, <5>2, <5>3
      <4> QED BY <4>1, <4>2
    <3> QED BY <3>3, <3>4 DEF Once
  <2> QED BY <2>4, <2>5
<1>13. ASSUME NEW c \in Client, NEW e \in Asks[c], AskIntent(c, e) PROVE Once'
  BY <1>4, <1>13 DEF AskIntent, Once, OneSnapshot
<1>14. ASSUME NEW events \in LocalBatch, LocalCommit(events) PROVE Once'
  <2>1. events \in Seq(Event)
    BY BatchAssumption
  <2>2. OneGreeting'
    BY <1>2, <1>14, <2>1, CommitKeepsGreeting DEF LocalCommit, Once
  <2> QED BY <1>3, <1>14, <2>2 DEF LocalCommit
<1>15. ASSUME NEW name \in Name, Whisper(name) PROVE Once'
  <2>1. PICK c \in announced :
          outbox' = [outbox EXCEPT ![Bridge] = [to |-> {c}, msgs |-> <<WhisperMsg(name)>>]]
    BY <1>15 DEF Whisper
  <2>2. /\ <<WhisperMsg(name)>> \in Seq(HostMessage)
        /\ \A i \in 1..Len(<<WhisperMsg(name)>>) : ~IsSnapshot(<<WhisperMsg(name)>>[i])
    BY DEF WhisperMsg, HostMessage, IsSnapshot
  <2>3. OneGreeting'
    BY <1>2, <1>15, <2>1, <2>2, PostKeepsGreeting DEF Whisper, Once
  <2> QED BY <1>3, <1>15, <2>3 DEF Whisper
<1>16. CASE UNCHANGED vars
  BY <1>4, <1>16 DEF vars, netVars, Once, OneSnapshot
<1> QED
  BY <1>5, <1>6, <1>7, <1>8, <1>9, <1>10, <1>11, <1>12, <1>13, <1>14, <1>15, <1>16 DEF Next

THEOREM OnceHolds == Spec => []Once
<1>1. Init => Once
  BY DEF Init, Once, OneGreeting, OneSnapshot, Silence, NewReplica, Task
<1>2. TypeOK /\ Once /\ [Next]_vars => Once'
  BY StepOnce
<1> QED BY <1>1, <1>2, TypeCorrect, PTL DEF Spec

View == [c \in Client |-> replica[c].state]
Reading == {c \in Client : replica[c].synced}

\* A commit is one extension of the log, however many events its batch holds.
LEMMA CommitExtends ==
  ASSUME Truth, NEW t \in Task, NEW events \in Seq(Event), TryCommit(t, events),
         UNCHANGED replica
  PROVE  Promise!Extend
<1>1. /\ history \in Seq(Event) /\ history' = history \o events /\ history' \in Seq(Event)
      /\ Len(history') = Len(history) + Len(events)
      /\ Len(history) \in Nat /\ Len(events) \in Nat
  BY ConcatProperties DEF TryCommit, Truth, TypeOK
<1>2. SubSeq(history', 1, Len(history)) = history
  <2>1. SubSeq(history', 1, Len(history)) = SubSeq(history, 1, Len(history))
    BY <1>1, PrefixKept
  <2> QED BY <1>1, <2>1, SubSeqFull
<1>3. ASSUME NEW i \in Len(history) + 1 .. Len(history')
      PROVE  Accepts(SubSeq(history', 1, i - 1), history'[i])
  <2> DEFINE j == i - Len(history)
  <2>1. j \in 1..Len(events) /\ i = Len(history) + j /\ j - 1 \in 0..Len(events)
    BY <1>1
  <2> HIDE DEF j
  <2>2. history'[i] = events[j]
    BY <1>1, <2>1
  <2>3. SubSeq(history', 1, i - 1) = history \o SubSeq(events, 1, j - 1)
    <3>1. /\ SubSeq(events, 1, j - 1) \in Seq(Event) /\ Len(SubSeq(events, 1, j - 1)) = j - 1
          /\ \A k \in 1..j - 1 : SubSeq(events, 1, j - 1)[k] = events[k]
      BY <2>1
    <3>2. /\ SubSeq(history', 1, i - 1) \in Seq(Event)
          /\ Len(SubSeq(history', 1, i - 1)) = Len(history) + (j - 1)
          /\ \A k \in 1..i - 1 : SubSeq(history', 1, i - 1)[k] = history'[k]
      BY <1>1, <2>1
    <3>3. ASSUME NEW k \in 1..Len(history) + (j - 1)
          PROVE  SubSeq(history', 1, i - 1)[k]
                   = IF k <= Len(history) THEN history[k]
                     ELSE SubSeq(events, 1, j - 1)[k - Len(history)]
      <4>1. k \in 1..i - 1 /\ k \in 1..Len(history) + Len(events)
        BY <1>1, <2>1
      <4>2. history'[k] = IF k <= Len(history) THEN history[k] ELSE events[k - Len(history)]
        BY <1>1, <4>1, ConcatProperties
      <4>3. ~(k <= Len(history)) => k - Len(history) \in 1..j - 1
        BY <1>1, <2>1
      <4> QED BY <3>1, <3>2, <4>1, <4>2, <4>3
    <3> DEFINE u == SubSeq(events, 1, j - 1)
                w == SubSeq(history', 1, i - 1)
    <3>4. /\ history \in Seq(Event) /\ u \in Seq(Event) /\ w \in Seq(Event)
          /\ Len(u) = j - 1 /\ Len(w) = Len(history) + Len(u)
      BY <1>1, <3>1, <3>2
    <3>5. \A k \in 1..Len(history) + Len(u) :
            w[k] = IF k <= Len(history) THEN history[k] ELSE u[k - Len(history)]
      BY <3>3, <3>4
    <3> HIDE DEF u, w
    <3>6. w = history \o u
      BY <3>4, <3>5, ConcatIs
    <3> QED BY <3>6 DEF u, w
  <2>4. Accepts(history \o SubSeq(events, 1, j - 1), events[j])
    BY <2>1 DEF TryCommit, AllAccepted
  <2> QED BY <2>2, <2>3, <2>4
<1> QED BY <1>1, <1>2, <1>3 DEF Promise!Extend

\* A delivery adopts a prefix, follows the log further, or changes no view.
LEMMA DeliverFollows ==
  ASSUME Truth, Truth', Once, NEW c \in Client, Deliver(c)
  PROVE  Promise!Adopt(c) \/ Promise!Follow(c) \/ UNCHANGED Promise!vars
<1>1. history' = history
  BY DEF Deliver, hostVars
<1>2. \A d \in Client \ {c} : replica'[d] = replica[d]
  BY DeliverShape DEF Truth
<1>3. View' = [View EXCEPT ![c] = replica'[c].state]
  BY <1>2 DEF View
<1>4. CASE ~replica'[c].synced
  <2>1. replica'[c].state = replica[c].state /\ ~replica[c].synced
    BY <1>4, DeliverShape DEF Truth
  <2>2. View' = View /\ Reading' = Reading
    BY <1>2, <1>4, <2>1 DEF View, Reading
  <2> QED BY <1>1, <2>2 DEF Promise!vars, View, Reading
<1>5. CASE replica'[c].synced /\ ~replica[c].synced
  <2>1. Reading' = Reading \cup {c} /\ c \notin Reading
    BY <1>2, <1>5 DEF Reading
  <2>2. replica'[c].applied \in 0..Len(history)
        /\ replica'[c].state = SubSeq(history, 1, replica'[c].applied)
    BY <1>1, <1>5 DEF Truth, TrueReplicas, TrueReplica
  <2> QED BY <1>1, <1>3, <2>1, <2>2 DEF Promise!Adopt, View, Reading
<1>6. CASE replica'[c].synced /\ replica[c].synced
  <2>1. Reading' = Reading /\ c \in Reading
    BY <1>2, <1>6 DEF Reading
  <2>2. replica'[c].applied \in 0..Len(history)
        /\ replica'[c].state = SubSeq(history, 1, replica'[c].applied)
    BY <1>1, <1>6 DEF Truth, TrueReplicas, TrueReplica
  <2>3. replica[c].applied \in 0..Len(history)
        /\ replica[c].state = SubSeq(history, 1, replica[c].applied)
    BY <1>6 DEF Truth, TrueReplicas, TrueReplica
  <2>4. replica[c].applied <= replica'[c].applied
    <3>1. toClient[c] \in Seq(HostMessage) /\ toClient[c] # <<>>
      BY DEF Deliver, Truth, TypeOK
    <3>2. Head(toClient[c]) = toClient[c][1] /\ 1 \in 1..Len(toClient[c])
      BY <3>1
    <3>3. ~IsSnapshot(Head(toClient[c]))
      BY <1>6, <3>2 DEF Once, OneSnapshot
    <3> QED BY <3>3, DeliverShape DEF Truth
  <2>5. Len(View[c]) = replica[c].applied
    BY <2>3 DEF View, Truth, TypeOK
  <2>6. replica'[c].applied \in Len(View[c])..Len(history)
    BY <2>2, <2>3, <2>4, <2>5
  <2> QED BY <1>1, <1>3, <2>1, <2>2, <2>6 DEF Promise!Follow, View, Reading
<1> QED BY <1>4, <1>5, <1>6

LEMMA StepRefines ==
  ASSUME Truth, Truth', Once, [Next]_vars
  PROVE  [Promise!Next]_(Promise!vars)
<1> USE DEF hostVars, clientVars
<1>1. ASSUME UNCHANGED <<history, replica>> PROVE UNCHANGED Promise!vars
  BY <1>1 DEF Promise!vars
<1>2. ASSUME NEW c \in Client, Read(c) PROVE [Promise!Next]_(Promise!vars)
  <2> DEFINE msg == Head(toHost[c])
  <2>1. msg \in ClientMessage /\ c \in Task /\ UNCHANGED replica
    BY <1>2 DEF Read, Truth, TypeOK, Task
  <2>2. CASE OnRefused(c) \/ OnHello(c) \/ OnBadIntent(c, msg.event)
    BY <1>1, <2>1, <2>2 DEF OnRefused, OnHello, OnBadIntent
  <2>3. CASE msg.kind = "Intent" /\ OnIntent(c, msg.event)
    <3>1. <<msg.event>> \in Seq(Event)
      BY <2>1, <2>3 DEF ClientMessage
    <3> QED BY <2>1, <2>3, <3>1, CommitExtends DEF OnIntent, Promise!Next
  <2> QED BY <1>2, <2>2, <2>3 DEF Read
<1>3. ASSUME NEW events \in LocalBatch, LocalCommit(events) PROVE [Promise!Next]_(Promise!vars)
  <2>1. events \in Seq(Event) /\ Bridge \in Task
    BY BatchAssumption DEF Task
  <2> QED BY <1>3, <2>1, CommitExtends DEF LocalCommit, Promise!Next
<1>4. ASSUME NEW c \in Client, Deliver(c) PROVE [Promise!Next]_(Promise!vars)
  BY <1>4, DeliverFollows DEF Promise!Next
<1>5. ASSUME NEW c \in Client, Join(c) PROVE [Promise!Next]_(Promise!vars)
  <2> DEFINE r == replica[c]
  <2>1. r \in Replica /\ replica' = [replica EXCEPT ![c] = [r EXCEPT !.joined = TRUE]]
    BY <1>5 DEF Join, Truth, TypeOK
  <2>2. [r EXCEPT !.joined = TRUE].synced = r.synced /\ [r EXCEPT !.joined = TRUE].state = r.state
    <3> HIDE DEF r
    <3> QED BY <2>1 DEF Replica
  <2>3. \A d \in Client : /\ replica'[d].synced = replica[d].synced
                          /\ replica'[d].state = replica[d].state
    BY <2>1, <2>2 DEF Truth, TypeOK
  <2> QED BY <1>5, <2>3 DEF Join, Promise!vars
<1>6. ASSUME NEW c \in Client, Accept(c) \/ OnConnect(c) \/ Close(c) \/ Disconnect(c)
      PROVE  [Promise!Next]_(Promise!vars)
  BY <1>1, <1>6 DEF Accept, OnConnect, Close, Disconnect
<1>7. ASSUME NEW t \in Task, Dispatch(t) PROVE [Promise!Next]_(Promise!vars)
  BY <1>1, <1>7 DEF Dispatch
<1>8. ASSUME NEW c \in Client, NEW e \in Asks[c], AskIntent(c, e)
      PROVE  [Promise!Next]_(Promise!vars)
  BY <1>1, <1>8 DEF AskIntent
<1>9. ASSUME NEW name \in Name, Whisper(name) PROVE [Promise!Next]_(Promise!vars)
  BY <1>1, <1>9 DEF Whisper
<1>10. CASE UNCHANGED vars
  BY <1>1, <1>10 DEF vars
<1> QED
  BY <1>2, <1>3, <1>4, <1>5, <1>6, <1>7, <1>8, <1>9, <1>10 DEF Next

\* The session implements one shared log: the host only appends events that
\* apply where they stand, and each client adopts a prefix once and from then
\* on only moves forward in it (the promise of protocol.rs, "every peer applies
\* the same ordered log").
THEOREM Refinement == Spec => ImplementsSharedLog
<1>1. Init => Promise!Init
  BY NewReplicaUnsynced DEF Init, Promise!Init
<1>2. Truth /\ Truth' /\ Once /\ [Next]_vars => [Promise!Next]_(Promise!vars)
  BY StepRefines
<1> QED BY <1>1, <1>2, TruthHolds, OnceHolds, PTL DEF Spec, ImplementsSharedLog, Promise!Spec

-----------------------------------------------------------------------------
(* Whispers.  A whisper is addressed when it is put into an outbox; from     *)
(* there on it only moves towards connections that outbox is addressed to.   *)

MeantFor(c, m) == m.kind = "Whisper" => m.name = NameOf[c]

Addressed ==
  /\ \A t \in Task : \A c \in outbox[t].to : \A i \in 1..Len(outbox[t].msgs) :
       MeantFor(c, outbox[t].msgs[i])
  /\ \A c \in Client : \A i \in 1..Len(toClient[c]) : MeantFor(c, toClient[c][i])

Private == Addressed /\ WhispersStayPrivate

\* A commit and a reply are no whispers.
LEMMA CommitAddressed ==
  ASSUME TypeOK, Addressed, NEW t \in Task, NEW events \in Seq(Event), TryCommit(t, events),
         UNCHANGED toClient
  PROVE  Addressed'
<1> DEFINE msgs == [i \in 1..Len(events) |-> AppliedMsg(seq + i, events[i])]
<1>1. /\ outbox'[t] = [to |-> Everyone, msgs |-> msgs]
      /\ \A u \in Task \ {t} : outbox'[u] = outbox[u]
  BY DEF TryCommit, TypeOK
<1>2. Len(msgs) = Len(events) /\ \A i \in 1..Len(events) : msgs[i].kind = "Applied"
  BY DEF AppliedMsg
<1> HIDE DEF msgs
<1>3. \A c \in outbox'[t].to : \A i \in 1..Len(outbox'[t].msgs) : MeantFor(c, outbox'[t].msgs[i])
  BY <1>1, <1>2 DEF MeantFor
<1> QED BY <1>1, <1>3 DEF Addressed

LEMMA PostAddressed ==
  ASSUME TypeOK, Addressed, NEW t \in Task, NEW c \in Client, NEW msg, MeantFor(c, msg),
         outbox' = [outbox EXCEPT ![t] = [to |-> {c}, msgs |-> <<msg>>]],
         UNCHANGED toClient
  PROVE  Addressed'
<1>1. /\ outbox'[t] = [to |-> {c}, msgs |-> <<msg>>]
      /\ \A u \in Task \ {t} : outbox'[u] = outbox[u]
  BY DEF TypeOK
<1>2. \A d \in outbox'[t].to : \A i \in 1..Len(outbox'[t].msgs) : MeantFor(d, outbox'[t].msgs[i])
  BY <1>1
<1> QED BY <1>1, <1>2 DEF Addressed

\* Dispatch takes messages to connections their outbox is addressed to.
LEMMA DispatchAddressed ==
  ASSUME TypeOK, Addressed, NEW t \in Task, Dispatch(t)
  PROVE  Addressed'
<1>1. /\ outbox'[t] = Silence /\ \A u \in Task \ {t} : outbox'[u] = outbox[u]
      /\ Silence.to = {}
  BY DEF Dispatch, TypeOK, Silence
<1>2. ASSUME NEW c \in Client, NEW i \in 1..Len(toClient'[c])
      PROVE  MeantFor(c, toClient'[c][i])
  <2>1. CASE toClient'[c] = toClient[c]
    BY <1>2, <2>1 DEF Addressed
  <2>2. CASE c \in outbox[t].to /\ toClient'[c] = toClient[c] \o outbox[t].msgs
    <3>1. toClient[c] \in Seq(HostMessage) /\ outbox[t].msgs \in Seq(HostMessage)
      BY DEF TypeOK
    <3>2. i \in 1..Len(toClient[c] \o outbox[t].msgs)
      BY <1>2, <2>2
    <3>3. \/ i \in 1..Len(toClient[c])
             /\ (toClient[c] \o outbox[t].msgs)[i] = toClient[c][i]
          \/ /\ i - Len(toClient[c]) \in 1..Len(outbox[t].msgs)
             /\ (toClient[c] \o outbox[t].msgs)[i] = outbox[t].msgs[i - Len(toClient[c])]
      BY <3>1, <3>2, ConcatSplit
    <3> QED BY <2>2, <3>3 DEF Addressed
  <2> QED BY <2>1, <2>2 DEF Dispatch
<1> QED BY <1>1, <1>2 DEF Addressed

\* What a delivery does to inboxes, and that it joins nobody.
LEMMA DeliverInbox ==
  ASSUME TypeOK, NEW c \in Client, Deliver(c)
  PROVE  /\ \A d \in Client \ {c} : replica'[d] = replica[d]
         /\ replica'[c].joined = replica[c].joined
         /\ \/ replica'[c].inbox = replica[c].inbox
            \/ /\ Head(toClient[c]).kind = "Whisper"
               /\ replica'[c].inbox = Append(replica[c].inbox, Head(toClient[c]).name)
<1> DEFINE m == Head(toClient[c])
           r == replica[c]
<1>1. m \in HostMessage /\ r \in Replica
  <2>1. toClient[c] \in Seq(HostMessage) /\ toClient[c] # <<>> /\ r \in Replica
    BY DEF Deliver, TypeOK
  <2> QED BY <2>1, HeadTailProperties
<1>2. \A d \in Client \ {c} : replica'[d] = replica[d]
  BY DeliverShape
<1>3. ASSUME NEW s \in Replica, s.inbox = r.inbox, s.joined = r.joined, Drain(c, s)
      PROVE  replica'[c].inbox = r.inbox /\ replica'[c].joined = r.joined
  <2>1. replica' = [replica EXCEPT ![c] = s]
          \/ \E n \in Nat : replica' = [replica EXCEPT ![c] = Drained(s, n)]
    BY <1>3 DEF Drain
  <2>2. \A n \in Nat : Drained(s, n).inbox = s.inbox /\ Drained(s, n).joined = s.joined
    BY DEF Drained, Replica
  <2> HIDE DEF Drained
  <2> QED BY <1>3, <2>1, <2>2 DEF TypeOK
<1>4. CASE UNCHANGED replica
  BY <1>2, <1>4
<1>5. CASE replica' = [replica EXCEPT ![c].refused = TRUE]
  <2>1. [r EXCEPT !.refused = TRUE].inbox = r.inbox
    BY <1>1 DEF Replica
  <2>2. [r EXCEPT !.refused = TRUE].joined = r.joined
    BY <1>1 DEF Replica
  <2> QED BY <2>2, <1>2, <1>5, <2>1 DEF TypeOK
<1>6. CASE m.kind = "Whisper" /\ replica' = [replica EXCEPT ![c].inbox = Append(@, m.name)]
  <2>1. [r EXCEPT !.inbox = Append(@, m.name)].inbox = Append(r.inbox, m.name)
      /\ [r EXCEPT !.inbox = Append(@, m.name)].joined = r.joined
    BY <1>1 DEF Replica
  <2> QED BY <1>2, <1>6, <2>1 DEF TypeOK
<1> HIDE DEF m
<1>7. CASE m.kind = "Snapshot" /\ c \notin Stranger /\ ClientSnapshot(c, m)
  <2>1. m.seq \in Nat /\ m.hash \in Seq(Nat \X Event) /\ m.state \in Seq(Event)
    BY <1>1, <1>7 DEF HostMessage
  <2> DEFINE adopted == [r EXCEPT !.synced = TRUE, !.state = m.state,
                                  !.applied = m.seq, !.hash = m.hash]
  <2>2. adopted \in Replica /\ adopted.inbox = r.inbox /\ adopted.joined = r.joined
    BY <1>1, <2>1 DEF Replica
  <2>3. Drain(c, adopted)
    BY <1>7 DEF ClientSnapshot
  <2> HIDE DEF adopted
  <2> QED BY <1>2, <1>3, <2>2, <2>3
<1>8. CASE m.kind = "Applied" /\ ClientApplied(c, m)
  <2>1. [seq |-> m.seq, event |-> m.event] \in [seq : Nat, event : Event]
    BY <1>1, <1>8 DEF HostMessage
  <2> DEFINE buffered == [r EXCEPT !.pending = @ \cup {[seq |-> m.seq, event |-> m.event]}]
  <2>2. buffered \in Replica /\ buffered.inbox = r.inbox /\ buffered.joined = r.joined
    BY <1>1, <2>1 DEF Replica
  <2>3. Drain(c, buffered)
    BY <1>8 DEF ClientApplied
  <2> HIDE DEF buffered
  <2> QED BY <1>2, <1>3, <2>2, <2>3
<1> QED BY <1>4, <1>5, <1>6, <1>7, <1>8 DEF Deliver, ClientSnapshot, m

LEMMA DeliverPrivate ==
  ASSUME TypeOK, Private, NEW c \in Client, Deliver(c)
  PROVE  Private'
<1>1. /\ toClient[c] \in Seq(HostMessage) /\ toClient[c] # <<>>
      /\ toClient'[c] = Tail(toClient[c])
      /\ \A d \in Client \ {c} : toClient'[d] = toClient[d]
      /\ outbox' = outbox
  BY DEF Deliver, TypeOK
<1>2. /\ Head(toClient[c]) = toClient[c][1] /\ 1 \in 1..Len(toClient[c])
      /\ \A i \in 1..Len(toClient'[c]) :
           i + 1 \in 1..Len(toClient[c]) /\ toClient'[c][i] = toClient[c][i + 1]
  BY <1>1
<1>3. Addressed'
  BY <1>1, <1>2 DEF Private, Addressed
<1>4. MeantFor(c, Head(toClient[c]))
  BY <1>2 DEF Private, Addressed
<1>5. replica[c].inbox \in Seq(Name)
  BY DEF TypeOK, Replica
<1>6. ASSUME NEW i \in 1..Len(replica'[c].inbox) PROVE replica'[c].inbox[i] = NameOf[c]
  <2>1. CASE replica'[c].inbox = replica[c].inbox
    BY <1>6, <2>1 DEF Private, WhispersStayPrivate
  <2>2. CASE /\ Head(toClient[c]).kind = "Whisper"
             /\ replica'[c].inbox = Append(replica[c].inbox, Head(toClient[c]).name)
    <3>1. Head(toClient[c]).name = NameOf[c]
      BY <1>4, <2>2 DEF MeantFor
    <3>2. Append(replica[c].inbox, NameOf[c])[i]
            = IF i <= Len(replica[c].inbox) THEN replica[c].inbox[i] ELSE NameOf[c]
      BY <1>5, <1>6, <2>2, <3>1, NamesAssumption
    <3> QED BY <1>5, <1>6, <2>2, <3>1, <3>2 DEF Private, WhispersStayPrivate
  <2> QED BY <2>1, <2>2, DeliverInbox
<1> QED BY <1>3, <1>6, DeliverInbox DEF Private, WhispersStayPrivate

LEMMA StepPrivate ==
  ASSUME TypeOK, Private, [Next]_vars
  PROVE  Private'
<1>1. ASSUME Addressed', UNCHANGED replica PROVE Private'
  BY <1>1 DEF Private, WhispersStayPrivate
<1>2. ASSUME UNCHANGED <<outbox, toClient, replica>> PROVE Private'
  BY <1>2 DEF Private, Addressed, WhispersStayPrivate
<1>3. ASSUME NEW c \in Client, Accept(c) PROVE Private'
  BY <1>2, <1>3 DEF Accept
<1>4. ASSUME NEW c \in Client, OnConnect(c) PROVE Private'
  <2>1. MeantFor(c, SnapshotMsg(seq, logHash, history)) /\ AcceptLoop \in Task
    BY DEF MeantFor, SnapshotMsg, Task
  <2>2. Addressed'
    BY <1>4, <2>1, PostAddressed DEF OnConnect, Private
  <2> QED BY <1>1, <1>4, <2>2 DEF OnConnect, clientVars
<1>5. ASSUME NEW c \in Client, Read(c) PROVE Private'
  <2> DEFINE msg == Head(toHost[c])
  <2>1. msg \in ClientMessage /\ c \in Task /\ UNCHANGED <<toClient, replica>>
    BY <1>5 DEF Read, TypeOK, Task, clientVars
  <2>2. ASSUME NEW reply \in {RefusedMsg, RejectedMsg}, Reply(c, reply) PROVE Private'
    <3>1. MeantFor(c, reply)
      BY DEF MeantFor, RefusedMsg, RejectedMsg
    <3>2. Addressed'
      BY <2>1, <2>2, <3>1, PostAddressed DEF Reply, Private
    <3> QED BY <1>1, <2>1, <3>2
  <2>3. CASE OnRefused(c)
    BY <2>2, <2>3 DEF OnRefused
  <2>4. CASE OnHello(c)
    <3>1. CASE c \in Stranger
      BY <2>2, <2>4, <3>1 DEF OnHello
    <3>2. CASE c \notin Stranger
      BY <1>2, <2>1, <2>4, <3>2 DEF OnHello
    <3> QED BY <3>1, <3>2
  <2>5. CASE OnBadIntent(c, msg.event)
    BY <2>2, <2>5 DEF OnBadIntent
  <2>6. CASE msg.kind = "Intent" /\ OnIntent(c, msg.event)
    <3>1. <<msg.event>> \in Seq(Event)
      BY <2>1, <2>6 DEF ClientMessage
    <3>2. Addressed'
      BY <2>1, <2>6, <3>1, CommitAddressed DEF OnIntent, Private
    <3> QED BY <1>1, <2>1, <3>2
  <2> QED BY <1>5, <2>3, <2>4, <2>5, <2>6 DEF Read
<1>6. ASSUME NEW c \in Client, Close(c) PROVE Private'
  BY <1>2, <1>6 DEF Close, clientVars
<1>7. ASSUME NEW c \in Client, Join(c) PROVE Private'
  <2>1. UNCHANGED <<outbox, toClient>>
    BY <1>7 DEF Join
  <2>2. \A d \in Client : replica'[d].inbox = replica[d].inbox
    BY <1>7 DEF Join, TypeOK, Replica
  <2> QED BY <2>1, <2>2 DEF Private, Addressed, WhispersStayPrivate
<1>8. ASSUME NEW c \in Client, Deliver(c) PROVE Private'
  BY <1>8, DeliverPrivate
<1>9. ASSUME NEW c \in Client, Disconnect(c) PROVE Private'
  <2>1. /\ UNCHANGED <<outbox, replica>>
        /\ toClient'[c] = <<>> /\ \A d \in Client \ {c} : toClient'[d] = toClient[d]
    BY <1>9 DEF Disconnect, TypeOK
  <2> QED BY <1>1, <2>1 DEF Private, Addressed
<1>10. ASSUME NEW t \in Task, Dispatch(t) PROVE Private'
  BY <1>1, <1>10, DispatchAddressed DEF Dispatch, Private, clientVars
<1>11. ASSUME NEW c \in Client, NEW e \in Asks[c], AskIntent(c, e) PROVE Private'
  BY <1>2, <1>11 DEF AskIntent, clientVars
<1>12. ASSUME NEW events \in LocalBatch, LocalCommit(events) PROVE Private'
  <2>1. events \in Seq(Event) /\ Bridge \in Task
    BY BatchAssumption DEF Task
  <2>2. Addressed'
    BY <1>12, <2>1, CommitAddressed DEF LocalCommit, Private
  <2> QED BY <1>1, <1>12, <2>2 DEF LocalCommit, clientVars
<1>13. ASSUME NEW name \in Name, Whisper(name) PROVE Private'
  <2>1. PICK c \in announced :
          /\ NameOf[c] = name
          /\ outbox' = [outbox EXCEPT ![Bridge] = [to |-> {c}, msgs |-> <<WhisperMsg(name)>>]]
    BY <1>13 DEF Whisper
  <2>2. c \in Client /\ Bridge \in Task /\ MeantFor(c, WhisperMsg(name))
    BY <2>1 DEF TypeOK, Task, MeantFor, WhisperMsg
  <2>3. Addressed'
    BY <1>13, <2>1, <2>2, PostAddressed DEF Whisper, Private
  <2> QED BY <1>1, <1>13, <2>3 DEF Whisper, clientVars
<1>14. CASE UNCHANGED vars
  BY <1>2, <1>14 DEF vars, netVars, clientVars
<1> QED
  BY <1>3, <1>4, <1>5, <1>6, <1>7, <1>8, <1>9, <1>10, <1>11, <1>12, <1>13, <1>14 DEF Next

\* No player reads a whisper meant for another: HostSession::whisper names one
\* peer, and dispatch sends to no one else although the same outboxes and
\* channels carry the broadcasts.
THEOREM Privacy == Spec => []WhispersStayPrivate
<1>1. Init => Private
  BY DEF Init, Private, Addressed, WhispersStayPrivate, Silence, NewReplica
<1>2. TypeOK /\ Private /\ [Next]_vars => Private'
  BY StepPrivate
<1>3. Private => WhispersStayPrivate
  BY DEF Private
<1> QED BY <1>1, <1>2, <1>3, TypeCorrect, PTL DEF Spec

-----------------------------------------------------------------------------
(* Who may write.  A client's intents are its app's asks; and until the Hello *)
(* has been read it is the first thing on the client's stream, so that an     *)
(* intent is only ever read of a client that was served or refused.           *)

OwnAsks(c) ==
  \A i \in 1..Len(toHost[c]) :
    toHost[c][i].kind = "Intent" => toHost[c][i].event \in Asks[c]

Introduced(c) ==
  \/ c \in refused
  \/ c \in announced /\ c \notin Stranger
  \/ replica[c].joined /\ toHost[c] # <<>> /\ toHost[c][1].kind = "Hello"
  \/ ~replica[c].joined /\ toHost[c] = <<>>

Rightful == EntriesWereAllowed /\ \A c \in Client : OwnAsks(c) /\ Introduced(c)

\* A frame more on a client's stream.
LEMMA SendRightful ==
  ASSUME TypeOK, NEW c \in Client, NEW msg \in ClientMessage, OwnAsks(c),
         msg.kind = "Intent" => msg.event \in Asks[c],
         toHost' = [toHost EXCEPT ![c] = Append(@, msg)]
  PROVE  /\ OwnAsks(c)'
         /\ toHost'[c] # <<>>
         /\ toHost'[c][1] = IF toHost[c] = <<>> THEN msg ELSE toHost[c][1]
         /\ \A d \in Client \ {c} : toHost'[d] = toHost[d]
<1>1. /\ toHost[c] \in Seq(ClientMessage)
      /\ toHost'[c] = Append(toHost[c], msg)
      /\ \A d \in Client \ {c} : toHost'[d] = toHost[d]
  BY DEF TypeOK
<1>2. /\ Len(toHost'[c]) = Len(toHost[c]) + 1 /\ Len(toHost[c]) \in Nat
      /\ \A i \in 1..Len(toHost[c]) : toHost'[c][i] = toHost[c][i]
      /\ toHost'[c][Len(toHost[c]) + 1] = msg
  BY <1>1
<1>3. OwnAsks(c)'
  <2> SUFFICES ASSUME NEW i \in 1..Len(toHost'[c]), toHost'[c][i].kind = "Intent"
               PROVE  toHost'[c][i].event \in Asks[c]
    BY DEF OwnAsks
  <2>1. i \in 1..Len(toHost[c]) \/ i = Len(toHost[c]) + 1
    BY <1>2
  <2> QED BY <1>2, <2>1 DEF OwnAsks
<1>4. CASE toHost[c] = <<>>
  BY <1>1, <1>2, <1>3, <1>4
<1>5. CASE toHost[c] # <<>>
  <2>1. 1 \in 1..Len(toHost[c]) /\ toHost'[c] # <<>>
    BY <1>1, <1>5
  <2> QED BY <1>1, <1>2, <1>3, <1>5, <2>1
<1> QED BY <1>4, <1>5

\* A commit adds to the log what it was given, where it was given.
LEMMA CommitRightful ==
  ASSUME TypeOK, EntriesWereAllowed, NEW t \in Task, NEW events \in Seq(Event),
         TryCommit(t, events),
         \/ events \in LocalBatch
         \/ \E c \in Client \ Stranger : \E e \in Asks[c] :
              events = <<e>> /\ Permits(NameOf[c], history, e)
  PROVE  EntriesWereAllowed'
<1>1. /\ history \in Seq(Event) /\ history' = history \o events /\ Len(history) \in Nat
      /\ \A n \in 0..Len(history) : Prefix(n)' = Prefix(n)
  BY PrefixKept DEF TypeOK, TryCommit, Prefix
<1> SUFFICES ASSUME NEW i \in 1..Len(history')
             PROVE  \/ \E batch \in LocalBatch : \E j \in 1..Len(batch) : batch[j] = history'[i]
                    \/ \E c \in Client \ Stranger :
                         /\ history'[i] \in Asks[c]
                         /\ Permits(NameOf[c], Prefix(i - 1)', history'[i])
  BY DEF EntriesWereAllowed
<1>2. \/ i \in 1..Len(history) /\ history'[i] = history[i]
      \/ i - Len(history) \in 1..Len(events) /\ history'[i] = events[i - Len(history)]
  BY <1>1, ConcatSplit
<1>3. CASE i \in 1..Len(history) /\ history'[i] = history[i]
  <2>1. i - 1 \in 0..Len(history)
    BY <1>1, <1>3
  <2> QED BY <1>1, <1>3, <2>1 DEF EntriesWereAllowed
<1>4. CASE i - Len(history) \in 1..Len(events) /\ history'[i] = events[i - Len(history)]
  <2>1. CASE events \in LocalBatch
    BY <1>4, <2>1
  <2>2. ASSUME NEW c \in Client \ Stranger, NEW e \in Asks[c], events = <<e>>,
               Permits(NameOf[c], history, e)
        PROVE  history'[i] \in Asks[c] /\ Permits(NameOf[c], Prefix(i - 1)', history'[i])
    <3>1. Len(events) = 1 /\ events[1] = e
      BY <2>2
    <3>2. i - Len(history) = 1 /\ i - 1 = Len(history)
      BY <1>1, <1>4, <3>1
    <3>3. history'[i] = e
      BY <1>4, <3>1, <3>2
    <3>4. Prefix(i - 1)' = history
      BY <1>1, <3>2 DEF Prefix
    <3> QED BY <2>2, <3>3, <3>4
  <2> QED BY <2>1, <2>2
<1> QED BY <1>2, <1>3, <1>4

\* What a reader takes off a stream.
LEMMA ReadRightful ==
  ASSUME TypeOK, Rightful, NEW c \in Client, Read(c)
  PROVE  Rightful'
<1> DEFINE msg == Head(toHost[c])
<1>1. /\ toHost[c] \in Seq(ClientMessage) /\ toHost[c] # <<>>
      /\ toHost'[c] = Tail(toHost[c])
      /\ \A d \in Client \ {c} : toHost'[d] = toHost[d]
      /\ UNCHANGED replica
  BY DEF Read, TypeOK, clientVars
<1>2. /\ msg = toHost[c][1] /\ msg \in ClientMessage /\ 1 \in 1..Len(toHost[c])
      /\ \A i \in 1..Len(toHost'[c]) :
           i + 1 \in 1..Len(toHost[c]) /\ toHost'[c][i] = toHost[c][i + 1]
  BY <1>1
<1>3. \A d \in Client : OwnAsks(d)'
  <2>1. \A d \in Client : OwnAsks(d)
    BY DEF Rightful
  <2>2. OwnAsks(c)'
    BY <1>2, <2>1 DEF OwnAsks
  <2>3. \A d \in Client \ {c} : OwnAsks(d)'
    BY <1>1, <2>1 DEF OwnAsks
  <2> QED BY <2>2, <2>3
<1>4. msg.kind = "Intent" => msg.event \in Asks[c]
  BY <1>2 DEF Rightful, OwnAsks
<1> HIDE DEF msg
<1>5. ASSUME refused \subseteq refused', announced \subseteq announced',
             c \in refused' \/ (c \in announced' /\ c \notin Stranger)
      PROVE  \A d \in Client : Introduced(d)'
  BY <1>1, <1>5 DEF Rightful, Introduced
<1>6. CASE OnRefused(c)
  <2>1. UNCHANGED <<history, announced, refused>> /\ c \in refused
    BY <1>6 DEF OnRefused, hostVars
  <2>2. EntriesWereAllowed'
    BY <2>1 DEF Rightful, EntriesWereAllowed, Prefix
  <2> QED BY <1>3, <1>5, <2>1, <2>2 DEF Rightful
<1>7. CASE OnHello(c)
  <2>1. /\ refused \subseteq refused' /\ announced \subseteq announced' /\ history' = history
        /\ c \in refused' \/ (c \in announced' /\ c \notin Stranger)
    BY <1>7 DEF OnHello
  <2>2. EntriesWereAllowed'
    BY <2>1 DEF Rightful, EntriesWereAllowed, Prefix
  <2> QED BY <1>3, <1>5, <2>1, <2>2 DEF Rightful
<1>8. ASSUME msg.kind = "Intent", c \notin refused
      PROVE  c \in announced /\ c \notin Stranger
  BY <1>1, <1>2, <1>8 DEF Rightful, Introduced
<1>9. CASE msg.kind = "Intent" /\ OnBadIntent(c, msg.event)
  <2>1. UNCHANGED <<history, announced, refused>> /\ c \notin refused
    BY <1>9 DEF OnBadIntent, hostVars
  <2>2. EntriesWereAllowed'
    BY <2>1 DEF Rightful, EntriesWereAllowed, Prefix
  <2> QED BY <1>3, <1>5, <1>8, <1>9, <2>1, <2>2 DEF Rightful
<1>10. CASE msg.kind = "Intent" /\ OnIntent(c, msg.event)
  <2>1. /\ TryCommit(c, <<msg.event>>) /\ Permits(NameKnown(c), history, msg.event)
        /\ UNCHANGED <<announced, refused>> /\ c \notin refused
    BY <1>10 DEF OnIntent
  <2>2. c \in Client \ Stranger /\ NameKnown(c) = NameOf[c] /\ c \in Task
    BY <1>8, <1>10, <2>1 DEF NameKnown, Task
  <2>3. <<msg.event>> \in Seq(Event)
    BY <1>2, <1>10 DEF ClientMessage
  <2>4. msg.event \in Asks[c] /\ Permits(NameOf[c], history, msg.event)
    BY <1>4, <1>10, <2>1, <2>2
  <2>5. EntriesWereAllowed'
    BY <2>1, <2>2, <2>3, <2>4, CommitRightful DEF Rightful
  <2> QED BY <1>3, <1>5, <1>8, <1>10, <2>1, <2>5 DEF Rightful
<1> QED BY <1>6, <1>7, <1>9, <1>10 DEF Read, msg

LEMMA StepRightful ==
  ASSUME TypeOK, Rightful, [Next]_vars
  PROVE  Rightful'
<1>1. ASSUME UNCHANGED <<hostVars, toHost>>,
             \A c \in Client : replica'[c].joined = replica[c].joined
      PROVE  Rightful'
  <2>1. UNCHANGED <<history, announced, refused, toHost>>
    BY <1>1 DEF hostVars
  <2>2. EntriesWereAllowed'
    BY <2>1 DEF Rightful, EntriesWereAllowed, Prefix
  <2>3. \A c \in Client : OwnAsks(c)' /\ Introduced(c)'
    BY <1>1, <2>1 DEF Rightful, OwnAsks, Introduced
  <2> QED BY <2>2, <2>3 DEF Rightful
<1>2. ASSUME UNCHANGED <<hostVars, toHost, replica>> PROVE Rightful'
  BY <1>1, <1>2
<1>3. ASSUME NEW c \in Client, Accept(c) PROVE Rightful'
  BY <1>2, <1>3 DEF Accept
<1>4. ASSUME NEW c \in Client, OnConnect(c) PROVE Rightful'
  BY <1>2, <1>4 DEF OnConnect, clientVars
<1>5. ASSUME NEW c \in Client, Read(c) PROVE Rightful'
  BY <1>5, ReadRightful
<1>6. ASSUME NEW c \in Client, Close(c) PROVE Rightful'
  BY <1>2, <1>6 DEF Close, clientVars
<1>7. ASSUME NEW c \in Client, Join(c) PROVE Rightful'
  <2>1. /\ UNCHANGED <<history, announced, refused>>
        /\ toHost' = [toHost EXCEPT ![c] = Append(@, HelloMsg)]
        /\ ~replica[c].joined /\ replica'[c].joined
        /\ \A d \in Client \ {c} : replica'[d] = replica[d]
    BY <1>7 DEF Join, hostVars, TypeOK, Replica
  <2>2. HelloMsg \in ClientMessage /\ HelloMsg.kind = "Hello"
    BY DEF HelloMsg, ClientMessage
  <2>3. OwnAsks(c)
    BY DEF Rightful
  <2>4. /\ OwnAsks(c)' /\ toHost'[c] # <<>>
        /\ toHost'[c][1] = IF toHost[c] = <<>> THEN HelloMsg ELSE toHost[c][1]
        /\ \A d \in Client \ {c} : toHost'[d] = toHost[d]
    <3> HIDE DEF OwnAsks
    <3> QED BY <2>1, <2>2, <2>3, SendRightful
  <2>5. EntriesWereAllowed'
    BY <2>1 DEF Rightful, EntriesWereAllowed, Prefix
  <2>6. Introduced(c)'
    BY <2>1, <2>2, <2>4 DEF Rightful, Introduced
  <2>7. \A d \in Client \ {c} : OwnAsks(d)' /\ Introduced(d)'
    BY <2>1, <2>4 DEF Rightful, OwnAsks, Introduced
  <2> QED BY <2>4, <2>5, <2>6, <2>7 DEF Rightful
<1>8. ASSUME NEW c \in Client, Deliver(c) PROVE Rightful'
  <2>1. \A d \in Client : replica'[d].joined = replica[d].joined
    BY <1>8, DeliverInbox
  <2> QED BY <1>1, <1>8, <2>1 DEF Deliver
<1>9. ASSUME NEW c \in Client, Disconnect(c) PROVE Rightful'
  BY <1>2, <1>9 DEF Disconnect
<1>10. ASSUME NEW t \in Task, Dispatch(t) PROVE Rightful'
  BY <1>2, <1>10 DEF Dispatch, clientVars
<1>11. ASSUME NEW c \in Client, NEW e \in Asks[c], AskIntent(c, e) PROVE Rightful'
  <2>1. /\ UNCHANGED <<history, announced, refused, replica>> /\ replica[c].joined
        /\ toHost' = [toHost EXCEPT ![c] = Append(@, IntentMsg(e))]
    BY <1>11 DEF AskIntent, hostVars, clientVars
  <2>2. IntentMsg(e) \in ClientMessage /\ IntentMsg(e).event = e
    BY AsksAssumption DEF IntentMsg, ClientMessage
  <2>3. OwnAsks(c)
    BY DEF Rightful
  <2>4. /\ OwnAsks(c)' /\ toHost'[c] # <<>>
        /\ toHost'[c][1] = IF toHost[c] = <<>> THEN IntentMsg(e) ELSE toHost[c][1]
        /\ \A d \in Client \ {c} : toHost'[d] = toHost[d]
    <3> HIDE DEF OwnAsks
    <3> QED BY <2>1, <2>2, <2>3, SendRightful
  <2>5. EntriesWereAllowed'
    BY <2>1 DEF Rightful, EntriesWereAllowed, Prefix
  <2>6. Introduced(c)'
    BY <2>1, <2>4 DEF Rightful, Introduced
  <2>7. \A d \in Client \ {c} : OwnAsks(d)' /\ Introduced(d)'
    BY <2>1, <2>4 DEF Rightful, OwnAsks, Introduced
  <2> QED BY <2>4, <2>5, <2>6, <2>7 DEF Rightful
<1>12. ASSUME NEW events \in LocalBatch, LocalCommit(events) PROVE Rightful'
  <2>1. events \in Seq(Event) /\ Bridge \in Task
    BY BatchAssumption DEF Task
  <2>2. EntriesWereAllowed'
    BY <1>12, <2>1, CommitRightful DEF LocalCommit, Rightful
  <2>3. UNCHANGED <<announced, refused, toHost, replica>>
    BY <1>12 DEF LocalCommit, clientVars
  <2>4. \A c \in Client : OwnAsks(c)' /\ Introduced(c)'
    BY <2>3 DEF Rightful, OwnAsks, Introduced
  <2> QED BY <2>2, <2>4 DEF Rightful
<1>13. ASSUME NEW name \in Name, Whisper(name) PROVE Rightful'
  BY <1>2, <1>13 DEF Whisper, clientVars
<1>14. CASE UNCHANGED vars
  BY <1>2, <1>14 DEF vars, netVars, clientVars
<1> QED
  BY <1>3, <1>4, <1>5, <1>6, <1>7, <1>8, <1>9, <1>10, <1>11, <1>12, <1>13, <1>14 DEF Next

\* Every entry of the log was committed by the host's app, or proposed by a
\* served client whose name could propose it there: try_commit is reached only
\* past the refused list, which a Hello read first has filled, and past
\* intent_refusal under the same lock.
THEOREM Authority == Spec => []EntriesWereAllowed
<1>1. Init => Rightful
  BY DEF Init, Rightful, EntriesWereAllowed, OwnAsks, Introduced, NewReplica
<1>2. TypeOK /\ Rightful /\ [Next]_vars => Rightful'
  BY StepRightful
<1>3. Rightful => EntriesWereAllowed
  BY DEF Rightful
<1> QED BY <1>1, <1>2, <1>3, TypeCorrect, PTL DEF Spec

-----------------------------------------------------------------------------
(***************************************************************************)
(* Nothing lost.  What has to be carried from step to step is more than    *)
(* NothingLost says: before a client holds a state, the events after the   *)
(* snapshot on its way must already be on theirs (Whole); a connection     *)
(* that stands is in the peer map (Serving); and the history itself        *)
(* applies, entry by entry, so that a replica that is true of it never     *)
(* stops a replay at an event it has (HistoryFits).                        *)
(***************************************************************************)

HistoryFits ==
  \A i \in 1..Len(history) : Accepts(SubSeq(history, 1, i - 1), history[i])

Serving == \A c \in online : Registered(c)

\* A snapshot on its way to c.
Greets(c, m) ==
  /\ IsSnapshot(m)
  /\ \/ \E i \in 1..Len(toClient[c]) : toClient[c][i] = m
     \/ /\ c \in outbox[AcceptLoop].to
        /\ \E i \in 1..Len(outbox[AcceptLoop].msgs) : outbox[AcceptLoop].msgs[i] = m

Buffered(c, n) == \E m \in replica[c].pending : m.seq = n

Whole(c) ==
  c \in online /\ ~replica[c].refused =>
    /\ \A m \in HostMessage : Greets(c, m) =>
         \A n \in m.seq + 1 .. seq : Underway(c, n) \/ Buffered(c, n)
    /\ replica[c].synced => \A n \in replica[c].applied + 1 .. seq :
         Underway(c, n) \/ (n > replica[c].applied + 1 /\ Buffered(c, n))

Delivery == HistoryFits /\ Serving /\ \A c \in Client \ Stranger : Whole(c)

LEMMA FitsAt ==
  ASSUME HistoryFits, NEW j \in 1..Len(history), NEW k, k = j - 1
  PROVE  Accepts(SubSeq(history, 1, k), history[j])
  BY DEF HistoryFits

LEMMA StepFits ==
  ASSUME Truth, Truth', Once, HistoryFits, [Next]_vars
  PROVE  HistoryFits'
<1>1. Promise!Extend \/ history' = history
  <2>1. [Promise!Next]_(Promise!vars)
    BY StepRefines
  <2> QED BY <2>1 DEF Promise!Next, Promise!Adopt, Promise!Follow, Promise!vars
<1>2. CASE history' = history
  BY <1>2 DEF HistoryFits
<1>3. CASE Promise!Extend
  <2>1. /\ history \in Seq(Event) /\ history' \in Seq(Event)
        /\ Len(history) \in Nat /\ Len(history') \in Nat /\ Len(history) <= Len(history')
        /\ SubSeq(history', 1, Len(history)) = history
    <3>1. /\ history' \in Seq(Event) /\ Len(history) <= Len(history')
          /\ SubSeq(history', 1, Len(history)) = history
      BY <1>3 DEF Promise!Extend
    <3>2. history \in Seq(Event)
      BY DEF Truth, TypeOK
    <3> QED BY <3>1, <3>2
  <2>2. \A i \in 1..Len(history) : history'[i] = history[i]
    <3>1. \A i \in 1..Len(history) : SubSeq(history', 1, Len(history))[i] = history'[i]
      BY <2>1
    <3> QED BY <2>1, <3>1
  <2>3. SUFFICES ASSUME NEW i \in 1..Len(history')
                 PROVE  Accepts(SubSeq(history', 1, i - 1), history'[i])
    BY DEF HistoryFits
  <2>4. CASE i > Len(history)
    <3>1. i \in Len(history) + 1 .. Len(history')
      BY <2>1, <2>4
    <3> QED BY <1>3, <3>1 DEF Promise!Extend
  <2>5. CASE i <= Len(history)
    <3>1. i \in 1..Len(history) /\ i - 1 \in 0..Len(history) /\ i - 1 \in 0..Len(history')
      BY <2>1, <2>5
    <3>2. /\ SubSeq(history, 1, i - 1) \in Seq(Event) /\ Len(SubSeq(history, 1, i - 1)) = i - 1
          /\ SubSeq(history', 1, i - 1) \in Seq(Event) /\ Len(SubSeq(history', 1, i - 1)) = i - 1
          /\ \A k \in 1..i - 1 : /\ SubSeq(history, 1, i - 1)[k] = history[k]
                                 /\ SubSeq(history', 1, i - 1)[k] = history'[k]
      BY <2>1, <3>1
    <3>3. \A k \in 1..i - 1 : SubSeq(history', 1, i - 1)[k] = SubSeq(history, 1, i - 1)[k]
      BY <2>1, <2>2, <3>1, <3>2
    <3>4. SubSeq(history', 1, i - 1) = SubSeq(history, 1, i - 1)
      BY <3>2, <3>3, SeqEqual
    <3> QED BY <2>2, <3>1, <3>4 DEF HistoryFits
  <2> QED BY <2>1, <2>4, <2>5
<1> QED BY <1>1, <1>2, <1>3

LEMMA StepServing ==
  ASSUME TypeOK, Serving, [Next]_vars
  PROVE  Serving'
<1>1. CASE UNCHANGED <<link, online>>
  BY <1>1 DEF Serving, Registered
<1>2. ASSUME NEW c \in Client, Accept(c) PROVE Serving'
  BY <1>2 DEF Accept, Serving, Registered, TypeOK
<1>3. ASSUME NEW c \in Client, OnConnect(c) PROVE Serving'
  BY <1>3 DEF OnConnect, Serving, Registered, TypeOK, clientVars
<1>4. ASSUME NEW c \in Client, Close(c) PROVE Serving'
  BY <1>4 DEF Close, Serving, Registered, TypeOK, clientVars
<1>5. ASSUME NEW c \in Client, Disconnect(c) PROVE Serving'
  BY <1>5 DEF Disconnect, Serving, Registered, TypeOK
<1>6. ASSUME NEW t \in Task, Dispatch(t) PROVE Serving'
  BY <1>6 DEF Dispatch, Serving, Registered, TypeOK, clientVars
<1>7. ASSUME NEW c \in Client, Read(c) \/ Join(c) \/ Deliver(c) PROVE Serving'
  BY <1>1, <1>7 DEF Read, Join, Deliver, clientVars
<1>8. ASSUME NEW c \in Client, NEW e \in Asks[c], AskIntent(c, e) PROVE Serving'
  BY <1>1, <1>8 DEF AskIntent, clientVars
<1>9. ASSUME NEW events \in LocalBatch, LocalCommit(events) PROVE Serving'
  BY <1>1, <1>9 DEF LocalCommit, clientVars
<1>10. ASSUME NEW name \in Name, Whisper(name) PROVE Serving'
  BY <1>1, <1>10 DEF Whisper, clientVars
<1>11. CASE UNCHANGED vars
  BY <1>1, <1>11 DEF vars, netVars, clientVars
<1> QED BY <1>2, <1>3, <1>4, <1>5, <1>6, <1>7, <1>8, <1>9, <1>10, <1>11 DEF Next

-----------------------------------------------------------------------------
(* What a replay leaves *)

\* The run of consecutive events a true replica has buffered is the history's.
LEMMA RunIs ==
  ASSUME NEW h \in Seq(Event), NEW r \in Replica, NEW n \in Nat,
         TrueReplica(h, r), r.synced,
         \A i \in 1..n : \E m \in r.pending : m.seq = r.applied + i
  PROVE  /\ NextRun(r, n) \in Seq(Event) /\ Len(NextRun(r, n)) = n
         /\ \A i \in 1..n : r.applied + i \in 1..Len(h) /\ NextRun(r, n)[i] = h[r.applied + i]
<1>1. ASSUME NEW i \in 1..n
      PROVE  /\ r.applied + i \in 1..Len(h)
             /\ EventAt(r.pending, r.applied + i) = h[r.applied + i]
  <2>1. PICK m \in r.pending : m.seq = r.applied + i
    OBVIOUS
  <2>2. /\ (CHOOSE m2 \in r.pending : m2.seq = r.applied + i) \in r.pending
        /\ (CHOOSE m2 \in r.pending : m2.seq = r.applied + i).seq = r.applied + i
    BY <2>1
  <2> QED BY <2>1, <2>2 DEF EventAt, TrueReplica
<1>2. \A i \in 1..n : h[r.applied + i] \in Event
  BY <1>1
<1> QED BY <1>1, <1>2 DEF NextRun

\* So it applies, as far as it goes.
LEMMA RunReplays ==
  ASSUME TypeOK, HistoryFits, NEW r \in Replica, NEW n \in Nat,
         TrueReplica(history, r), r.synced,
         \A i \in 1..n : \E m \in r.pending : m.seq = r.applied + i
  PROVE  CanReplay(r, n)
<1> DEFINE a   == r.applied
           run == NextRun(r, n)
<1>1. /\ history \in Seq(Event) /\ a \in 0..Len(history) /\ a \in Nat /\ Len(history) \in Nat
      /\ r.state = SubSeq(history, 1, a)
  BY DEF TypeOK, TrueReplica, Replica
<1>2. /\ run \in Seq(Event) /\ Len(run) = n
      /\ \A i \in 1..n : a + i \in 1..Len(history) /\ run[i] = history[a + i]
  BY <1>1, RunIs
<1>3. ASSUME NEW i \in 1..n PROVE Accepts(r.state \o SubSeq(run, 1, i - 1), run[i])
  <2> HIDE DEF a, run
  <2>1. a + i \in 1..Len(history) /\ i - 1 \in Nat /\ a + (i - 1) = a + i - 1
    BY <1>1, <1>2
  <2>2. /\ SubSeq(run, 1, i - 1) \in Seq(Event) /\ Len(SubSeq(run, 1, i - 1)) = i - 1
        /\ \A k \in 1..i - 1 : SubSeq(run, 1, i - 1)[k] = run[k]
    BY <1>2
  <2>3. a + (i - 1) <= Len(history)
    BY <1>1, <2>1
  <2>4. /\ SubSeq(history, a + 1, a + (i - 1)) \in Seq(Event)
        /\ Len(SubSeq(history, a + 1, a + (i - 1))) = i - 1
        /\ \A k \in 1..i - 1 : SubSeq(history, a + 1, a + (i - 1))[k] = history[a + k]
    BY <1>1, <2>1, <2>3, Slice
  <2>5. SubSeq(run, 1, i - 1) = SubSeq(history, a + 1, a + (i - 1))
    <3>1. \A k \in 1..i - 1 : k \in 1..n
      OBVIOUS
    <3>2. \A k \in 1..i - 1 : SubSeq(run, 1, i - 1)[k] = SubSeq(history, a + 1, a + (i - 1))[k]
      BY <1>2, <2>2, <2>4, <3>1
    <3> QED BY <2>2, <2>4, <3>2, SeqEqual
  <2>6. SubSeq(history, 1, a) \o SubSeq(history, a + 1, a + (i - 1))
          = SubSeq(history, 1, a + (i - 1))
    <3>1. 1 \in 1..Len(history) + 1 /\ a \in 1 - 1 .. Len(history)
          /\ a + (i - 1) \in a..Len(history)
      BY <1>1, <2>1, <2>3
    <3> QED BY <1>1, <3>1, ConcatAdjacentSubSeq
  <2>7. Accepts(SubSeq(history, 1, a + (i - 1)), history[a + i])
    <3>1. a + (i - 1) = (a + i) - 1
      BY <1>1
    <3> QED BY <2>1, <3>1, FitsAt
  <2> QED BY <1>1, <1>2, <2>5, <2>6, <2>7
<1> QED BY <1>2, <1>3 DEF CanReplay, AllAccepted

\* A replay ends before an event that is not buffered, and takes none of those
\* behind it.
LEMMA DrainWhole ==
  ASSUME TypeOK, HistoryFits, NEW c \in Client, NEW r \in Replica, r.synced,
         TrueReplica(history, r), Drain(c, r), NEW U,
         \A n \in r.applied + 1 .. seq : n \in U \/ \E m \in r.pending : m.seq = n
  PROVE  \A n \in replica'[c].applied + 1 .. seq :
           \/ n \in U
           \/ n > replica'[c].applied + 1 /\ \E m \in replica'[c].pending : m.seq = n
<1>1. PICK k \in 0..Cardinality(r.pending) :
        /\ CanReplay(r, k) /\ ~CanReplay(r, k + 1)
        /\ replica' = [replica EXCEPT ![c] = Drained(r, k)]
  BY DEF Drain
<1>2. k \in Nat /\ r.applied \in Nat /\ r.pending \in SUBSET [seq : Nat, event : Event]
  BY <1>1 DEF Replica
<1>3. ~\E m \in r.pending : m.seq = r.applied + k + 1
  <2>1. SUFFICES ASSUME NEW m0 \in r.pending, m0.seq = r.applied + k + 1 PROVE FALSE
    OBVIOUS
  <2>2. ASSUME NEW i \in 1..k + 1 PROVE \E m \in r.pending : m.seq = r.applied + i
    <3>1. CASE i \in 1..k
      BY <1>1, <3>1 DEF CanReplay
    <3>2. CASE i \notin 1..k
      <4>1. r.applied + i = r.applied + k + 1
        BY <1>2, <3>2
      <4> QED BY <2>1, <4>1
    <3> QED BY <3>1, <3>2
  <2>3. k + 1 \in Nat
    BY <1>2
  <2>4. CanReplay(r, k + 1)
    BY <2>2, <2>3, RunReplays
  <2> QED BY <1>1, <2>4
<1>4. /\ replica'[c].applied = r.applied + k
      /\ replica'[c].pending
           = {m \in r.pending : m.seq \notin (r.applied + 1)..(r.applied + k + 1)}
  <2>1. replica'[c] = Drained(r, k)
    BY <1>1 DEF TypeOK
  <2> QED BY <2>1 DEF Drained, Replica
<1>5. SUFFICES ASSUME NEW n \in r.applied + k + 1 .. seq, n \notin U
               PROVE  n > r.applied + k + 1 /\ \E m \in replica'[c].pending : m.seq = n
  BY <1>4
<1>6. seq \in Nat
  BY DEF TypeOK, seq
<1>7. PICK m \in r.pending : m.seq = n
  <2>1. n \in r.applied + 1 .. seq
    BY <1>2, <1>5, <1>6
  <2> QED BY <1>5, <2>1
<1>8. n # r.applied + k + 1
  BY <1>3, <1>7
<1>9. n > r.applied + k + 1 /\ n \notin (r.applied + 1)..(r.applied + k + 1)
  BY <1>2, <1>5, <1>6, <1>8
<1> QED BY <1>4, <1>7, <1>9

-----------------------------------------------------------------------------
(* What each step leaves of Whole *)

LEMMA CarriesConcat ==
  ASSUME NEW s \in Seq(HostMessage), NEW u \in Seq(HostMessage), NEW n,
         Carries(s, n) \/ Carries(u, n)
  PROVE  Carries(s \o u, n)
<1>1. /\ Len(s) \in Nat /\ Len(u) \in Nat /\ Len(s \o u) = Len(s) + Len(u)
      /\ \A i \in 1..Len(s) + Len(u) :
           (s \o u)[i] = IF i <= Len(s) THEN s[i] ELSE u[i - Len(s)]
  BY ConcatProperties
<1>2. CASE Carries(s, n)
  <2>1. PICK i \in 1..Len(s) : s[i].kind = "Applied" /\ s[i].seq = n
    BY <1>2 DEF Carries
  <2>2. i \in 1..Len(s \o u) /\ (s \o u)[i] = s[i]
    BY <1>1, <2>1
  <2> QED BY <2>1, <2>2 DEF Carries
<1>3. CASE Carries(u, n)
  <2>1. PICK i \in 1..Len(u) : u[i].kind = "Applied" /\ u[i].seq = n
    BY <1>3 DEF Carries
  <2>2. Len(s) + i \in 1..Len(s \o u) /\ (s \o u)[Len(s) + i] = u[i]
    BY <1>1, <2>1
  <2> QED BY <2>1, <2>2 DEF Carries
<1> QED BY <1>2, <1>3

LEMMA CarriesTail ==
  ASSUME NEW s \in Seq(HostMessage), s # <<>>, NEW n, Carries(s, n),
         ~(Head(s).kind = "Applied" /\ Head(s).seq = n)
  PROVE  Carries(Tail(s), n)
<1>1. /\ Len(s) \in Nat /\ Len(Tail(s)) = Len(s) - 1 /\ Head(s) = s[1]
      /\ \A i \in 1..Len(Tail(s)) : Tail(s)[i] = s[i + 1]
  OBVIOUS
<1>2. PICK i \in 1..Len(s) : s[i].kind = "Applied" /\ s[i].seq = n
  BY DEF Carries
<1>3. i # 1
  BY <1>1, <1>2
<1>4. i - 1 \in 1..Len(Tail(s)) /\ (i - 1) + 1 = i
  BY <1>1, <1>2, <1>3
<1>5. Tail(s)[i - 1] = s[i]
  BY <1>1, <1>4
<1> QED BY <1>2, <1>4, <1>5 DEF Carries

\* Nothing changes for c when its replica, the history and the tasks' boxes stay.
LEMMA WholeKept ==
  ASSUME NEW c \in Client, Whole(c), history' = history,
         c \in online' => c \in online,
         replica'[c].synced = replica[c].synced, replica'[c].applied = replica[c].applied,
         replica'[c].pending = replica[c].pending, replica'[c].refused = replica[c].refused,
         \A n : Underway(c, n) => Underway(c, n)',
         \A m : Greets(c, m)' => Greets(c, m)
  PROVE  Whole(c)'
<1>1. seq' = seq
  BY DEF seq
<1>2. \A n : Buffered(c, n)' <=> Buffered(c, n)
  BY DEF Buffered
<1>3. SUFFICES ASSUME c \in online', ~replica'[c].refused
               PROVE  /\ \A m \in HostMessage : Greets(c, m)' =>
                           \A n \in m.seq + 1 .. seq : Underway(c, n)' \/ Buffered(c, n)'
                      /\ replica'[c].synced => \A n \in replica'[c].applied + 1 .. seq :
                           Underway(c, n)' \/ (n > replica'[c].applied + 1 /\ Buffered(c, n)')
  BY <1>1 DEF Whole
<1>4. c \in online /\ ~replica[c].refused
  BY <1>3
<1>5. ASSUME NEW m \in HostMessage, Greets(c, m)', NEW n \in m.seq + 1 .. seq
      PROVE  Underway(c, n)' \/ Buffered(c, n)'
  BY <1>2, <1>4, <1>5 DEF Whole
<1>6. ASSUME replica'[c].synced, NEW n \in replica'[c].applied + 1 .. seq
      PROVE  Underway(c, n)' \/ (n > replica'[c].applied + 1 /\ Buffered(c, n)')
  BY <1>2, <1>4, <1>6 DEF Whole
<1> QED BY <1>5, <1>6

LEMMA IdleKept ==
  ASSUME NEW c \in Client, Whole(c), c \in online' => c \in online,
         UNCHANGED <<history, outbox, toClient, replica>>
  PROVE  Whole(c)'
  BY WholeKept DEF Underway, Greets

\* A task that is idle takes new work without losing any.
LEMMA BoxKept ==
  ASSUME TypeOK, NEW c \in Client, NEW t \in Task, outbox[t].msgs = <<>>,
         NEW box, outbox' = [outbox EXCEPT ![t] = box], UNCHANGED toClient,
         NEW n, Underway(c, n)
  PROVE  Underway(c, n)'
<1>1. \A u \in Task \ {t} : outbox'[u] = outbox[u]
  BY DEF TypeOK
<1>2. ~Carries(outbox[t].msgs, n)
  BY DEF Carries
<1> QED BY <1>1, <1>2 DEF Underway

\* A box of a task other than the accept loop brings no snapshot.
LEMMA BoxGreets ==
  ASSUME TypeOK, NEW c \in Client, NEW t \in Task \ {AcceptLoop},
         NEW box, outbox' = [outbox EXCEPT ![t] = box], UNCHANGED toClient,
         NEW m, Greets(c, m)'
  PROVE  Greets(c, m)
<1>1. outbox'[AcceptLoop] = outbox[AcceptLoop]
  BY DEF TypeOK, Task
<1> QED BY <1>1 DEF Greets

LEMMA ReplyWhole ==
  ASSUME TypeOK, NEW c \in Client, Whole(c), NEW t \in Task \ {AcceptLoop},
         outbox[t].msgs = <<>>, NEW box, outbox' = [outbox EXCEPT ![t] = box],
         UNCHANGED <<history, toClient, replica, online>>
  PROVE  Whole(c)'
<1>1. \A n : Underway(c, n) => Underway(c, n)'
  BY BoxKept
<1>2. \A m : Greets(c, m)' => Greets(c, m)
  BY BoxGreets
<1> QED BY <1>1, <1>2, WholeKept

\* What a commit adds to the history it sends to everyone.
LEMMA CommitWhole ==
  ASSUME TypeOK, NEW c \in Client, Whole(c), NEW t \in Task \ {AcceptLoop},
         outbox[t].msgs = <<>>, NEW events \in Seq(Event), TryCommit(t, events),
         UNCHANGED <<toClient, replica, online>>
  PROVE  Whole(c)'
<1> DEFINE msgs == [i \in 1..Len(events) |-> AppliedMsg(seq + i, events[i])]
           box  == [to |-> Everyone, msgs |-> msgs]
<1>1. /\ seq \in Nat /\ seq' = seq + Len(events) /\ Len(events) \in Nat
      /\ outbox' = [outbox EXCEPT ![t] = box]
  BY ConcatProperties DEF TryCommit, TypeOK, seq
<1>2. ASSUME NEW n \in seq + 1 .. seq' PROVE Underway(c, n)'
  <2>1. n - seq \in 1..Len(events) /\ seq + (n - seq) = n
    BY <1>1
  <2>2. /\ outbox'[t].to = Client /\ outbox'[t].msgs = msgs /\ Len(msgs) = Len(events)
    BY <1>1 DEF TypeOK, Everyone
  <2>3. msgs[n - seq].kind = "Applied" /\ msgs[n - seq].seq = n
    BY <2>1 DEF AppliedMsg
  <2> HIDE DEF msgs
  <2>4. Carries(outbox'[t].msgs, n)
    BY <2>1, <2>2, <2>3 DEF Carries
  <2> QED BY <2>2, <2>4 DEF Underway
<1> HIDE DEF box
<1>3. \A n : Underway(c, n) => Underway(c, n)'
  BY <1>1, BoxKept
<1>4. \A m : Greets(c, m)' => Greets(c, m)
  BY <1>1, BoxGreets
<1>5. \A n : Buffered(c, n)' <=> Buffered(c, n)
  BY DEF Buffered
<1>6. SUFFICES ASSUME c \in online, ~replica[c].refused
               PROVE  /\ \A m \in HostMessage : Greets(c, m)' =>
                           \A n \in m.seq + 1 .. seq' : Underway(c, n)' \/ Buffered(c, n)'
                      /\ replica[c].synced => \A n \in replica[c].applied + 1 .. seq' :
                           Underway(c, n)' \/ (n > replica[c].applied + 1 /\ Buffered(c, n)')
  BY DEF Whole
<1>7. ASSUME NEW m \in HostMessage, Greets(c, m)', NEW n \in m.seq + 1 .. seq'
      PROVE  Underway(c, n)' \/ Buffered(c, n)'
  <2>1. m.seq \in Nat
    BY <1>7 DEF Greets, IsSnapshot, HostMessage
  <2>2. CASE n \in m.seq + 1 .. seq
    BY <1>3, <1>4, <1>5, <1>6, <1>7, <2>2 DEF Whole
  <2>3. CASE n \notin m.seq + 1 .. seq
    <3>1. n \in seq + 1 .. seq'
      BY <1>1, <2>1, <2>3
    <3> QED BY <1>2, <3>1
  <2> QED BY <2>2, <2>3
<1>8. ASSUME replica[c].synced, NEW n \in replica[c].applied + 1 .. seq'
      PROVE  Underway(c, n)' \/ (n > replica[c].applied + 1 /\ Buffered(c, n)')
  <2>1. replica[c].applied \in Nat
    BY DEF TypeOK, Replica
  <2>2. CASE n \in replica[c].applied + 1 .. seq
    BY <1>3, <1>5, <1>6, <1>8, <2>2 DEF Whole
  <2>3. CASE n \notin replica[c].applied + 1 .. seq
    <3>1. n \in seq + 1 .. seq'
      BY <1>1, <2>1, <2>3
    <3> QED BY <1>2, <3>1
  <2> QED BY <2>2, <2>3
<1> QED BY <1>7, <1>8

LEMMA DispatchWhole ==
  ASSUME TypeOK, OneGreeting, Serving, NEW c \in Client, Whole(c), NEW t \in Task, Dispatch(t)
  PROVE  Whole(c)'
<1>1. /\ outbox'[t] = Silence /\ \A u \in Task \ {t} : outbox'[u] = outbox[u]
      /\ UNCHANGED <<history, replica, online>>
      /\ toClient[c] \in Seq(HostMessage) /\ outbox[t].msgs \in Seq(HostMessage)
      /\ Silence.to = {} /\ AcceptLoop \in Task
  BY DEF Dispatch, TypeOK, Silence, Task, hostVars, clientVars
<1>2. CASE c \notin online
  BY <1>1, <1>2 DEF Whole
<1>3. CASE c \in online
  <2>1. toClient'[c] = IF c \in outbox[t].to THEN toClient[c] \o outbox[t].msgs ELSE toClient[c]
    BY <1>3 DEF Dispatch, Serving
  <2>2. ASSUME NEW n, Underway(c, n) PROVE Underway(c, n)'
    <3>1. CASE Carries(toClient[c], n)
      <4>1. Carries(toClient'[c], n)
        BY <1>1, <2>1, <3>1, CarriesConcat
      <4> QED BY <4>1 DEF Underway
    <3>2. ASSUME NEW u \in Task, c \in outbox[u].to, Carries(outbox[u].msgs, n)
          PROVE  Underway(c, n)'
      <4>1. CASE u = t
        <5>1. Carries(toClient'[c], n)
          BY <1>1, <2>1, <3>2, <4>1, CarriesConcat
        <5> QED BY <5>1 DEF Underway
      <4>2. CASE u # t
        BY <1>1, <3>2, <4>2 DEF Underway
      <4> QED BY <4>1, <4>2
    <3> QED BY <2>2, <3>1, <3>2 DEF Underway
  <2>3. ASSUME NEW m, Greets(c, m)' PROVE Greets(c, m)
    <3>1. IsSnapshot(m)
      BY <2>3 DEF Greets
    <3>2. ASSUME NEW i \in 1..Len(toClient'[c]), toClient'[c][i] = m PROVE Greets(c, m)
      <4>1. CASE c \notin outbox[t].to
        BY <2>1, <3>1, <3>2, <4>1 DEF Greets
      <4>2. CASE c \in outbox[t].to
        <5>1. i \in 1..Len(toClient[c] \o outbox[t].msgs)
          BY <2>1, <3>2, <4>2
        <5>2. \/ i \in 1..Len(toClient[c])
                 /\ (toClient[c] \o outbox[t].msgs)[i] = toClient[c][i]
              \/ /\ i - Len(toClient[c]) \in 1..Len(outbox[t].msgs)
                 /\ (toClient[c] \o outbox[t].msgs)[i] = outbox[t].msgs[i - Len(toClient[c])]
          <6>1. toClient[c] \in Seq(HostMessage) /\ outbox[t].msgs \in Seq(HostMessage)
            BY <1>1
          <6> QED BY <5>1, <6>1, ConcatSplit
        <5>3. CASE i \in 1..Len(toClient[c]) /\ toClient[c][i] = m
          BY <3>1, <5>3 DEF Greets
        <5>4. ASSUME NEW j \in 1..Len(outbox[t].msgs), outbox[t].msgs[j] = m PROVE Greets(c, m)
          <6>1. t = AcceptLoop
            BY <3>1, <5>4 DEF OneGreeting
          <6> QED BY <3>1, <4>2, <5>4, <6>1 DEF Greets
        <5> QED BY <2>1, <3>2, <4>2, <5>2, <5>3, <5>4
      <4> QED BY <4>1, <4>2
    <3>3. ASSUME c \in outbox'[AcceptLoop].to,
                 NEW i \in 1..Len(outbox'[AcceptLoop].msgs), outbox'[AcceptLoop].msgs[i] = m
          PROVE  Greets(c, m)
      BY <1>1, <3>1, <3>3 DEF Greets
    <3> QED BY <2>3, <3>2, <3>3 DEF Greets
  <2> QED BY <1>1, <2>2, <2>3, WholeKept
<1> QED BY <1>2, <1>3

\* Taking a frame: the snapshot hands over to the tail, and an event that
\* leaves the channel is applied or stays in the buffer.
LEMMA DeliverWhole ==
  ASSUME Truth, HistoryFits, Once', NEW c \in Client \ Stranger, Whole(c), Deliver(c)
  PROVE  Whole(c)'
<1> DEFINE m == Head(toClient[c])
           r == replica[c]
           U == {n \in Nat : Underway(c, n)'}
<1>1. /\ TypeOK /\ history' = history /\ seq' = seq /\ seq \in Nat
      /\ outbox' = outbox /\ online' = online /\ c \in online
      /\ toClient[c] \in Seq(HostMessage) /\ toClient[c] # <<>>
      /\ toClient'[c] = Tail(toClient[c])
      /\ r \in Replica /\ r.applied \in Nat
  <2>1. TypeOK /\ history \in Seq(Event)
    BY DEF Truth, TypeOK
  <2>2. /\ history' = history /\ outbox' = outbox /\ online' = online /\ c \in online
        /\ toClient[c] # <<>> /\ toClient' = [toClient EXCEPT ![c] = Tail(@)]
    BY DEF Deliver, hostVars
  <2>3. /\ toClient[c] \in Seq(HostMessage) /\ toClient'[c] = Tail(toClient[c])
        /\ r \in Replica
    BY <2>1, <2>2 DEF TypeOK
  <2>4. r.applied \in Nat
    BY <2>3 DEF Replica
  <2>5. seq' = seq /\ seq \in Nat
    BY <2>1, <2>2 DEF seq
  <2> QED BY <2>1, <2>2, <2>3, <2>4, <2>5
<1>2. /\ m = toClient[c][1] /\ 1 \in 1..Len(toClient[c]) /\ m \in HostMessage
      /\ \A i \in 1..Len(toClient'[c]) :
           i + 1 \in 1..Len(toClient[c]) /\ toClient'[c][i] = toClient[c][i + 1]
  BY <1>1
<1>3. TrueMsg(history, m) /\ TrueReplica(history, r)
  BY <1>2 DEF Truth, TrueChannels, TrueReplicas
<1> HIDE DEF m
<1>4. ASSUME NEW n, Underway(c, n), ~(m.kind = "Applied" /\ m.seq = n) PROVE Underway(c, n)'
  <2>1. CASE Carries(toClient[c], n)
    <3>1. Carries(toClient'[c], n)
      BY <1>1, <1>4, <2>1, CarriesTail DEF m
    <3> QED BY <3>1 DEF Underway
  <2>2. CASE \E t \in Task : c \in outbox[t].to /\ Carries(outbox[t].msgs, n)
    BY <1>1, <2>2 DEF Underway
  <2> QED BY <1>4, <2>1, <2>2 DEF Underway
<1>5. ASSUME NEW x, Greets(c, x)' PROVE Greets(c, x)
  BY <1>1, <1>2, <1>5 DEF Greets
<1>6. ASSUME replica'[c].synced, NEW x, Greets(c, x)' PROVE FALSE
  <2>1. CASE \E i \in 1..Len(toClient'[c]) : toClient'[c][i] = x
    BY <1>6, <2>1 DEF Greets, Once, OneSnapshot
  <2>2. CASE /\ c \in outbox'[AcceptLoop].to
             /\ \E i \in 1..Len(outbox'[AcceptLoop].msgs) : outbox'[AcceptLoop].msgs[i] = x
    <3>1. outbox'[AcceptLoop].msgs # <<>>
      BY <2>2
    <3>2. c = accepting' /\ link'[c] = "greeting"
      BY <2>2, <3>1 DEF Once, OneGreeting
    <3> QED BY <1>6, <3>2 DEF Once, OneSnapshot
  <2> QED BY <1>6, <2>1, <2>2 DEF Greets
<1>7. SUFFICES ASSUME ~replica'[c].refused PROVE Whole(c)'
  BY DEF Whole
<1>8. ~r.refused
  BY <1>7 DEF Deliver
<1>9. CASE /\ m.kind # "Applied"
           /\ replica'[c].synced = r.synced /\ replica'[c].applied = r.applied
           /\ replica'[c].pending = r.pending /\ replica'[c].refused = r.refused
  BY <1>1, <1>4, <1>5, <1>9, WholeKept
\* The state a drain leaves, with what is underway to it.
<1>10. ASSUME NEW s \in Replica, s.synced, TrueReplica(history, s), Drain(c, s),
              \A n \in s.applied + 1 .. seq : n \in U \/ \E p \in s.pending : p.seq = n
       PROVE  Whole(c)'
  <2>1. replica'[c].synced
    BY <1>1, <1>10, DrainKeeps
  <2>2. \A n \in replica'[c].applied + 1 .. seq :
           \/ n \in U
           \/ n > replica'[c].applied + 1 /\ \E p \in replica'[c].pending : p.seq = n
    <3> HIDE DEF U
    <3> QED BY <1>1, <1>10, DrainWhole
  <2>3. \A n \in replica'[c].applied + 1 .. seq' :
          Underway(c, n)' \/ (n > replica'[c].applied + 1 /\ Buffered(c, n)')
    BY <1>1, <2>2 DEF Buffered
  <2> QED BY <1>6, <2>1, <2>3 DEF Whole
<1>11. CASE m.kind = "Snapshot" /\ ClientSnapshot(c, m)
  <2> DEFINE adopted == [r EXCEPT !.synced = TRUE, !.state = m.state,
                                  !.applied = m.seq, !.hash = m.hash]
  <2>1. m.seq \in Nat /\ m.hash \in Seq(Nat \X Event) /\ m.state \in Seq(Event)
    BY <1>2, <1>11 DEF HostMessage
  <2>2. /\ adopted \in Replica /\ adopted.synced /\ adopted.pending = r.pending
        /\ adopted.applied = m.seq /\ adopted.state = m.state /\ adopted.hash = m.hash
    BY <1>1, <2>1 DEF Replica
  <2>3. Drain(c, adopted)
    BY <1>11 DEF ClientSnapshot
  <2> HIDE DEF adopted
  <2>4. TrueReplica(history, adopted)
    BY <1>3, <1>11, <2>2 DEF TrueReplica, TrueMsg
  <2>5. Greets(c, m)
    BY <1>2, <1>11 DEF Greets, IsSnapshot
  <2>6. \A n \in m.seq + 1 .. seq : Underway(c, n) \/ Buffered(c, n)
    BY <1>1, <1>2, <1>8, <2>5 DEF Whole
  <2>7. ASSUME NEW n \in adopted.applied + 1 .. seq
        PROVE  n \in U \/ \E p \in adopted.pending : p.seq = n
    <3>1. n \in m.seq + 1 .. seq /\ n \in Nat
      BY <1>1, <2>1, <2>2
    <3>2. Underway(c, n) => n \in U
      BY <1>4, <1>11, <3>1
    <3> QED BY <2>2, <2>6, <3>1, <3>2 DEF Buffered
  <2> HIDE DEF U
  <2> QED BY <1>10, <2>2, <2>3, <2>4, <2>7
<1>12. CASE m.kind = "Applied" /\ ClientApplied(c, m)
  <2> DEFINE buffered == [r EXCEPT !.pending = @ \cup {[seq |-> m.seq, event |-> m.event]}]
  <2>1. [seq |-> m.seq, event |-> m.event] \in [seq : Nat, event : Event]
    BY <1>2, <1>12 DEF HostMessage
  <2>2. /\ buffered \in Replica /\ buffered.synced = r.synced /\ buffered.applied = r.applied
        /\ buffered.state = r.state /\ buffered.hash = r.hash
        /\ buffered.pending = r.pending \cup {[seq |-> m.seq, event |-> m.event]}
    BY <1>1, <2>1 DEF Replica
  <2>3. Drain(c, buffered)
    BY <1>12 DEF ClientApplied
  <2> HIDE DEF buffered
  <2>4. TrueReplica(history, buffered)
    BY <1>3, <1>12, <2>2 DEF TrueReplica, TrueMsg
  <2>5. ASSUME NEW n, Underway(c, n) \/ Buffered(c, n)
        PROVE  Underway(c, n)' \/ \E p \in buffered.pending : p.seq = n
    <3>1. CASE Underway(c, n) /\ m.seq # n
      BY <1>4, <3>1
    <3>2. CASE m.seq = n
      <4>1. [seq |-> m.seq, event |-> m.event] \in buffered.pending
        BY <2>2
      <4> QED BY <3>2, <4>1
    <3>3. CASE Buffered(c, n)
      BY <2>2, <3>3 DEF Buffered
    <3> QED BY <2>5, <3>1, <3>2, <3>3
  <2>6. CASE r.synced
    <3>1. ASSUME NEW n \in buffered.applied + 1 .. seq
          PROVE  n \in U \/ \E p \in buffered.pending : p.seq = n
      <4>1. n \in r.applied + 1 .. seq /\ n \in Nat
        BY <1>1, <2>2
      <4>2. Underway(c, n) \/ Buffered(c, n)
        BY <1>1, <1>8, <2>6, <4>1 DEF Whole
      <4> QED BY <2>5, <4>1, <4>2
    <3> HIDE DEF U
    <3> QED BY <1>10, <2>2, <2>3, <2>4, <2>6, <3>1
  <2>7. CASE ~r.synced
    <3>1. replica'[c] = buffered
      BY <1>1, <2>2, <2>3, <2>7 DEF Drain, TypeOK
    <3>2. ASSUME NEW x \in HostMessage, Greets(c, x)', NEW n \in x.seq + 1 .. seq
          PROVE  Underway(c, n)' \/ Buffered(c, n)'
      <4>1. Underway(c, n) \/ Buffered(c, n)
        BY <1>1, <1>5, <1>8, <3>2 DEF Whole
      <4> QED BY <2>5, <3>1, <4>1 DEF Buffered
    <3> QED BY <1>1, <2>2, <2>7, <3>1, <3>2 DEF Whole
  <2> QED BY <2>6, <2>7
<1>13. CASE m.kind = "Whisper" /\ replica' = [replica EXCEPT ![c].inbox = Append(@, m.name)]
  <2>1. /\ [r EXCEPT !.inbox = Append(@, m.name)].synced = r.synced
        /\ [r EXCEPT !.inbox = Append(@, m.name)].applied = r.applied
        /\ [r EXCEPT !.inbox = Append(@, m.name)].pending = r.pending
        /\ [r EXCEPT !.inbox = Append(@, m.name)].refused = r.refused
    BY <1>1 DEF Replica
  <2> QED BY <1>1, <1>9, <1>13, <2>1 DEF TypeOK
<1>14. CASE m.kind = "VersionRefused" /\ replica' = [replica EXCEPT ![c].refused = TRUE]
  BY <1>1, <1>7, <1>14 DEF TypeOK, Replica
<1>15. CASE m.kind = "Rejected" /\ UNCHANGED replica
  BY <1>9, <1>15
<1> QED BY <1>8, <1>11, <1>12, <1>13, <1>14, <1>15 DEF Deliver, m

LEMMA StepWhole ==
  ASSUME Truth, Once, Once', HistoryFits, Serving, NEW c \in Client \ Stranger, Whole(c),
         [Next]_vars
  PROVE  Whole(c)'
<1>1. /\ TypeOK /\ OneGreeting /\ AcceptLoop \in Task
      /\ \A d \in Client : d \in Task \ {AcceptLoop}
      /\ Bridge \in Task \ {AcceptLoop}
  BY TasksAssumption DEF Truth, Once, Task
<1>2. ASSUME NEW d \in Client, Accept(d) PROVE Whole(c)'
  <2>1. UNCHANGED <<history, outbox, toClient, replica>> /\ online' = online \cup {d}
        /\ link[d] = "new" /\ outbox[AcceptLoop].msgs = <<>>
    BY <1>2 DEF Accept, hostVars, Idle
  <2>2. CASE c # d
    BY <2>1, <2>2, IdleKept
  <2>3. CASE c = d
    <3>1. /\ ~replica'[c].synced
          /\ \A i \in 1..Len(toClient'[c]) : ~IsSnapshot(toClient'[c][i])
          /\ outbox'[AcceptLoop].msgs = <<>>
      BY <2>1, <2>3 DEF Once, OneSnapshot
    <3>2. \A m : ~Greets(c, m)'
      BY <3>1 DEF Greets
    <3> QED BY <3>1, <3>2 DEF Whole
  <2> QED BY <2>2, <2>3
<1>3. ASSUME NEW d \in Client, OnConnect(d) PROVE Whole(c)'
  <2> DEFINE snap == SnapshotMsg(seq, logHash, history)
             box  == [to |-> {d}, msgs |-> <<snap>>]
  <2>1. /\ UNCHANGED <<history, toClient, replica, online>>
        /\ accepting = d /\ link[d] = "accepting"
        /\ outbox' = [outbox EXCEPT ![AcceptLoop] = box]
    BY <1>3 DEF OnConnect, hostVars, clientVars
  <2>2. outbox[AcceptLoop].msgs = <<>>
    BY <1>1, <2>1 DEF OneGreeting
  <2>3. /\ outbox'[AcceptLoop].msgs = <<snap>> /\ snap.seq = seq
        /\ seq' = seq /\ seq \in Nat
    BY <1>1, <2>1 DEF TypeOK, SnapshotMsg, seq
  <2> HIDE DEF box, snap
  <2>4. \A n : Underway(c, n) => Underway(c, n)'
    BY <1>1, <2>1, <2>2, BoxKept
  <2>5. \A m : Greets(c, m)' => Greets(c, m) \/ m = snap
    BY <2>1, <2>3 DEF Greets
  <2>6. \A n : Buffered(c, n)' <=> Buffered(c, n)
    BY <2>1 DEF Buffered
  <2>7. SUFFICES ASSUME c \in online, ~replica[c].refused
                 PROVE  /\ \A m \in HostMessage : Greets(c, m)' =>
                             \A n \in m.seq + 1 .. seq : Underway(c, n)' \/ Buffered(c, n)'
                        /\ replica[c].synced => \A n \in replica[c].applied + 1 .. seq :
                             Underway(c, n)' \/ (n > replica[c].applied + 1 /\ Buffered(c, n)')
    BY <2>1, <2>3 DEF Whole
  <2>8. ASSUME NEW m \in HostMessage, Greets(c, m)', NEW n \in m.seq + 1 .. seq
        PROVE  Underway(c, n)' \/ Buffered(c, n)'
    <3>1. m # snap
      BY <2>3, <2>8
    <3> QED BY <2>4, <2>5, <2>6, <2>7, <2>8, <3>1 DEF Whole
  <2>9. ASSUME replica[c].synced, NEW n \in replica[c].applied + 1 .. seq
        PROVE  Underway(c, n)' \/ (n > replica[c].applied + 1 /\ Buffered(c, n)')
    BY <2>4, <2>6, <2>7, <2>9 DEF Whole
  <2> QED BY <2>8, <2>9
<1>4. ASSUME NEW d \in Client, Read(d) PROVE Whole(c)'
  <2> DEFINE msg == Head(toHost[d])
  <2>1. msg \in ClientMessage /\ UNCHANGED <<toClient, replica, online>>
        /\ outbox[d].msgs = <<>>
    BY <1>1, <1>4 DEF Read, TypeOK, Idle, clientVars
  <2>2. ASSUME NEW reply, Reply(d, reply), history' = history PROVE Whole(c)'
    BY <1>1, <2>1, <2>2, ReplyWhole DEF Reply
  <2>3. CASE OnRefused(d) \/ OnBadIntent(d, msg.event)
    BY <2>2, <2>3 DEF OnRefused, OnBadIntent, hostVars
  <2>4. CASE OnHello(d)
    BY <2>1, <2>2, <2>4, IdleKept DEF OnHello
  <2>5. CASE msg.kind = "Intent" /\ OnIntent(d, msg.event)
    <3>1. <<msg.event>> \in Seq(Event)
      BY <2>1, <2>5 DEF ClientMessage
    <3> QED BY <1>1, <2>1, <2>5, <3>1, CommitWhole DEF OnIntent
  <2> QED BY <1>4, <2>3, <2>4, <2>5 DEF Read
<1>5. ASSUME NEW d \in Client, Close(d) PROVE Whole(c)'
  BY <1>5, IdleKept DEF Close, hostVars, clientVars
<1>6. ASSUME NEW d \in Client, Join(d) PROVE Whole(c)'
  <2>1. UNCHANGED <<history, outbox, toClient, online>>
    BY <1>6 DEF Join, hostVars
  <2>2. /\ replica'[c].synced = replica[c].synced /\ replica'[c].applied = replica[c].applied
        /\ replica'[c].pending = replica[c].pending /\ replica'[c].refused = replica[c].refused
    <3>1. CASE c = d
      <4>1. replica[c] \in Replica /\ replica'[c] = [replica[c] EXCEPT !.joined = TRUE]
        BY <1>1, <1>6, <3>1 DEF Join, TypeOK
      <4> QED BY <4>1 DEF Replica
    <3>2. CASE c # d
      BY <1>1, <1>6, <3>2 DEF Join, TypeOK
    <3> QED BY <3>1, <3>2
  <2> QED BY <2>1, <2>2, WholeKept DEF Underway, Greets
<1>7. ASSUME NEW d \in Client, Deliver(d) PROVE Whole(c)'
  <2>1. CASE d = c
    BY <1>7, <2>1, DeliverWhole
  <2>2. CASE d # c
    <3>1. /\ UNCHANGED <<history, outbox, online>>
          /\ replica'[c] = replica[c] /\ toClient'[c] = toClient[c]
      BY <1>1, <1>7, <2>2, DeliverShape DEF Deliver, TypeOK, hostVars
    <3> QED BY <3>1, WholeKept DEF Underway, Greets
  <2> QED BY <2>1, <2>2
<1>8. ASSUME NEW d \in Client, Disconnect(d) PROVE Whole(c)'
  <2>1. CASE d = c
    BY <1>8, <2>1 DEF Disconnect, Whole
  <2>2. CASE d # c
    <3>1. /\ UNCHANGED <<history, outbox, replica>> /\ toClient'[c] = toClient[c]
          /\ c \in online' => c \in online
      BY <1>1, <1>8, <2>2 DEF Disconnect, TypeOK, hostVars
    <3> QED BY <3>1, WholeKept DEF Underway, Greets
  <2> QED BY <2>1, <2>2
<1>9. ASSUME NEW t \in Task, Dispatch(t) PROVE Whole(c)'
  BY <1>1, <1>9, DispatchWhole
<1>10. ASSUME NEW d \in Client, NEW e \in Asks[d], AskIntent(d, e) PROVE Whole(c)'
  BY <1>10, IdleKept DEF AskIntent, hostVars, clientVars
<1>11. ASSUME NEW events \in LocalBatch, LocalCommit(events) PROVE Whole(c)'
  <2>1. events \in Seq(Event) /\ outbox[Bridge].msgs = <<>>
    BY <1>11, BatchAssumption DEF LocalCommit, Idle
  <2> QED BY <1>1, <1>11, <2>1, CommitWhole DEF LocalCommit, clientVars
<1>12. ASSUME NEW name \in Name, Whisper(name) PROVE Whole(c)'
  BY <1>1, <1>12, ReplyWhole DEF Whisper, Idle, hostVars, clientVars
<1>13. CASE UNCHANGED vars
  BY <1>13, IdleKept DEF vars, hostVars, netVars, clientVars
<1> QED
  BY <1>2, <1>3, <1>4, <1>5, <1>6, <1>7, <1>8, <1>9, <1>10, <1>11, <1>12, <1>13 DEF Next

\* No event falls between the snapshot a joiner is greeted with and the events
\* dispatched around it, whichever task dispatches first (spawn_accept registers
\* before on_connect; drain_pending never discards an event it cannot apply): all
\* that a connected client has not is in its buffer or on its way, and the next
\* one is on its way.
THEOREM Delivered == Spec => []NothingLost
<1>1. Init => Delivery
  BY DEF Init, Delivery, HistoryFits, Serving, Whole
<1>2. Truth /\ Truth' /\ Once /\ Once' /\ Delivery /\ [Next]_vars => Delivery'
  BY StepFits, StepServing, StepWhole DEF Delivery, Truth
<1>3. Truth /\ Delivery => NothingLost
  BY DEF Delivery, Whole, NothingLost, Buffered, Truth, TypeOK
<1> QED BY <1>1, <1>2, <1>3, TruthHolds, OnceHolds, PTL DEF Spec
=============================================================================
