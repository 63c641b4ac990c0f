-------------------------- MODULE CheckpointProofs --------------------------
(***************************************************************************)
(* Theorems about Checkpoint, for any drafts and any number of starts and  *)
(* events: a checkpoint is only ever replaced by one of the same past, and *)
(* no copy publishes what it has no secret or record of.                   *)
(***************************************************************************)
EXTENDS Checkpoint, SequenceTheorems, FiniteSetTheorems, TLAPS

LogEvent == {Move} \cup {Commits(d) : d \in Draft} \cup {Verdict(r) : r \in Nat}
Log  == Seq(LogEvent)
Pub  == [moves : Nat, hurt : Nat, drafts : SUBSET Draft, taken : SUBSET Nat]
Copy == [pub : Pub, priv : SUBSET Draft, log : Log]

\* The shapes the steps rely on.  Without a session there is nothing reported.
Shape ==
  /\ mode \in {"down", "solo", "host"}
  /\ step \in {"off", "snapshot", "campaign", "history", "count", "loop"}
  /\ app \in Copy /\ host \in Copy /\ got \in Copy
  /\ commands \in Seq(LogEvent) /\ updates \in Seq(Copy) /\ requests \in Nat
  /\ net = None \/ \E c \in Copy : net = <<c>>
  /\ disk = None \/ \E c \in Copy : disk = <<[copy |-> c, origin |-> disk[1].origin]>>
  /\ step # "off" => mode = "host"
  /\ mode # "host" => updates = <<>> /\ net = None

\* What the Save button would put on disk.
Candidate == IF net = None THEN app ELSE net[1]

\* The checkpoint on disk comes before what may be saved next, and that comes
\* before every report under way and before the session.
Descent ==
  /\ mode # "down" /\ disk # None =>
       origin = disk[1].origin /\ IsPrefix(disk[1].copy.log, Candidate.log)
  /\ mode = "host" =>
       /\ IsPrefix(Candidate.log, host.log)
       /\ \A i \in 1..Len(updates) : /\ IsPrefix(Candidate.log, updates[i].log)
                                     /\ IsPrefix(updates[i].log, host.log)

-----------------------------------------------------------------------------
(* Prefixes *)

LEMMA PrefixIs ==
  ASSUME NEW S, NEW s \in Seq(S), NEW t \in Seq(S)
  PROVE  IsPrefix(s, t) <=> Len(s) <= Len(t) /\ \A i \in 1..Len(s) : s[i] = t[i]
<1>1. Len(s) \in Nat /\ Len(t) \in Nat /\ SubSeq(s, 1, Len(s)) = s
  BY SubSeqFull
<1>2. CASE ~(Len(s) <= Len(t))
  BY <1>2 DEF IsPrefix
<1>3. CASE Len(s) <= Len(t)
  <2>1. /\ SubSeq(t, 1, Len(s)) \in Seq(S) /\ Len(SubSeq(t, 1, Len(s))) = Len(s)
        /\ \A i \in 1..Len(s) : SubSeq(t, 1, Len(s))[i] = t[i]
    BY <1>1, <1>3
  <2>2. s = SubSeq(t, 1, Len(s)) <=> \A i \in 1..Len(s) : s[i] = t[i]
    BY <2>1, SeqEqual
  <2> QED BY <1>1, <1>3, <2>2 DEF IsPrefix
<1> QED BY <1>2, <1>3

LEMMA PrefixRefl ==
  ASSUME NEW s \in Log
  PROVE  IsPrefix(s, s)
<1>1. Len(s) \in Nat
  BY DEF Log
<1> QED BY <1>1, PrefixIs DEF Log

LEMMA PrefixTrans ==
  ASSUME NEW s \in Log, NEW t \in Log, NEW u \in Log, IsPrefix(s, t), IsPrefix(t, u)
  PROVE  IsPrefix(s, u)
<1>1. Len(s) \in Nat /\ Len(t) \in Nat /\ Len(u) \in Nat
  BY DEF Log
<1>2. /\ Len(s) <= Len(t) /\ \A i \in 1..Len(s) : s[i] = t[i]
      /\ Len(t) <= Len(u) /\ \A i \in 1..Len(t) : t[i] = u[i]
  BY PrefixIs DEF Log
<1>3. Len(s) <= Len(u) /\ \A i \in 1..Len(s) : s[i] = u[i]
  BY <1>1, <1>2
<1> QED BY <1>3, PrefixIs DEF Log

LEMMA PrefixAppend ==
  ASSUME NEW s \in Log, NEW t \in Log, NEW e \in LogEvent, IsPrefix(s, t)
  PROVE  Append(t, e) \in Log /\ IsPrefix(s, Append(t, e))
<1>1. /\ Len(s) \in Nat /\ Len(t) \in Nat /\ Append(t, e) \in Seq(LogEvent)
      /\ Len(Append(t, e)) = Len(t) + 1 /\ \A i \in 1..Len(t) : Append(t, e)[i] = t[i]
  BY DEF Log
<1>2. Len(s) <= Len(t) /\ \A i \in 1..Len(s) : s[i] = t[i]
  BY PrefixIs DEF Log
<1>3. Len(s) <= Len(Append(t, e)) /\ \A i \in 1..Len(s) : s[i] = Append(t, e)[i]
  BY <1>1, <1>2
<1> QED BY <1>1, <1>3, PrefixIs DEF Log

-----------------------------------------------------------------------------
(* Copies *)

LEMMA BlankIs == Blank \in Copy /\ Fresh \in Pub /\ Blank.log = <<>>
  BY DEF Blank, Fresh, Copy, Pub, Log

LEMMA UnaskedIs ==
  ASSUME NEW c \in Copy
  PROVE  /\ [c EXCEPT !.pub = Unasked(@)] \in Copy
         /\ [c EXCEPT !.pub = Unasked(@)].log = c.log
<1>1. Unasked(c.pub) \in Pub
  BY DEF Copy, Pub, Unasked
<1> HIDE DEF Pub
<1> QED BY <1>1 DEF Copy

LEMMA ApplyIs ==
  ASSUME NEW b \in Pub, NEW e \in LogEvent
  PROVE  Apply(b, e) \in Pub
<1>1. CASE e = Move
  BY <1>1 DEF Apply, Move, Pub
<1>2. ASSUME NEW d \in Draft, e = Commits(d) PROVE Apply(b, e) \in Pub
  <2>1. Apply(b, e) = [b EXCEPT !.drafts = @ \cup {d}]
    BY <1>2 DEF Apply, Commits
  <2> QED BY <2>1 DEF Pub
<1>3. ASSUME NEW r \in Nat, e = Verdict(r) PROVE Apply(b, e) \in Pub
  <2>1. Apply(b, e) = IF r \in b.taken THEN b
                      ELSE [b EXCEPT !.hurt = @ + 1, !.taken = @ \cup {r}]
    BY <1>3 DEF Apply, Verdict
  <2>2. /\ b.hurt + 1 \in Nat /\ b.taken \cup {r} \in SUBSET Nat
        /\ b.moves \in Nat /\ b.drafts \in SUBSET Draft
    BY DEF Pub
  <2>3. [b EXCEPT !.hurt = @ + 1, !.taken = @ \cup {r}] \in Pub
    BY <2>2 DEF Pub
  <2> QED BY <2>1, <2>3
<1> QED BY <1>1, <1>2, <1>3 DEF LogEvent

LEMMA CommittedIs ==
  ASSUME NEW c \in Copy, NEW e \in LogEvent
  PROVE  Committed(c, e) \in Copy /\ Committed(c, e).log = Append(c.log, e)
<1>1. c.pub \in Pub /\ c.priv \in SUBSET Draft /\ c.log \in Log
  BY DEF Copy
<1>2. Apply(c.pub, e) \in Pub
  BY <1>1, ApplyIs
<1>3. (IF e.kind = "Campaign" THEN c.priv \cup {e.draft} ELSE c.priv) \in SUBSET Draft
  BY <1>1 DEF LogEvent, Move, Commits, Verdict
<1>4. Append(c.log, e) \in Log
  BY <1>1 DEF Log
<1> HIDE DEF Pub, Log, LogEvent, Apply
<1> QED BY <1>2, <1>3, <1>4 DEF Committed, Copy

\* The reading a step of the report takes.
LEMMA TakenIs ==
  ASSUME got \in Copy, host \in Copy, step \in {"snapshot", "campaign", "history"}
  PROVE  /\ Taken \in Copy
         /\ step = "history" => Taken.log = host.log
<1>1. CASE step = "snapshot"
  BY <1>1 DEF Taken, Reading, Copy
<1>2. CASE step = "campaign"
  BY <1>2 DEF Taken, Reading, Copy
<1>3. CASE step = "history"
  BY <1>3 DEF Taken, Reading, Copy
<1> QED BY <1>1, <1>2, <1>3

LEMMA LastIs ==
  ASSUME NEW S, NEW s \in Seq(S), s # <<>>
  PROVE  Len(s) \in 1..Len(s) /\ Last(s) = s[Len(s)] /\ Last(s) \in S
  BY DEF Last

LEMMA OpenedIs ==
  ASSUME Shape
  PROVE  /\ Opened \in Copy
         /\ disk # None => Opened = disk[1].copy
<1>1. CASE disk = None
  BY <1>1, BlankIs DEF Opened
<1>2. CASE disk # None
  <2>1. PICK c \in Copy : disk = <<[copy |-> c, origin |-> disk[1].origin]>>
    BY <1>2 DEF Shape
  <2>2. disk[1].copy = c
    BY <2>1
  <2> QED BY <1>2, <2>1, <2>2 DEF Opened
<1> QED BY <1>1, <1>2

LEMMA CandidateIs ==
  ASSUME Shape
  PROVE  Candidate \in Copy
<1>1. CASE net = None
  BY <1>1 DEF Shape, Candidate
<1>2. CASE net # None
  <2>1. PICK c \in Copy : net = <<c>>
    BY <1>2 DEF Shape
  <2>2. net[1] = c
    BY <2>1
  <2> QED BY <1>2, <2>1, <2>2 DEF Candidate
<1> QED BY <1>1, <1>2

-----------------------------------------------------------------------------
(* The steps *)

LEMMA StepShape ==
  ASSUME Shape, [Next]_vars
  PROVE  Shape'
<1> USE DEF ui, session, bridge
<1>1. /\ app \in Copy /\ host \in Copy /\ got \in Copy /\ requests \in Nat
      /\ commands \in Seq(LogEvent) /\ updates \in Seq(Copy)
      /\ net = None \/ \E c \in Copy : net = <<c>>
      /\ disk = None \/ \E c \in Copy : disk = <<[copy |-> c, origin |-> disk[1].origin]>>
  BY DEF Shape
<1>2. ASSUME NEW m \in {"solo", "host"}, Start(m) PROVE Shape'
  <2>1. app' \in Copy
    BY <1>2, OpenedIs, UnaskedIs DEF Start
  <2> QED BY <1>1, <1>2, <2>1, BlankIs DEF Start, Shape
<1>3. CASE Stop
  BY <1>1, <1>3, BlankIs DEF Stop, Shape
<1>4. CASE Join
  BY <1>4 DEF Join, Shape
<1>5. CASE Walk
  <2>1. Move \in LogEvent
    BY DEF LogEvent
  <2>2. host' \in Copy
    BY <1>1, <1>5, <2>1, CommittedIs DEF Walk
  <2> QED BY <1>5, <2>2 DEF Walk, Shape
<1>6. CASE Commit
  <2>1. Head(commands) \in LogEvent /\ Tail(commands) \in Seq(LogEvent)
    BY <1>1, <1>6 DEF Commit
  <2>2. host' \in Copy
    BY <1>1, <1>6, <2>1, CommittedIs DEF Commit
  <2> QED BY <1>6, <2>1, <2>2 DEF Commit, Shape
<1>7. CASE Notice
  BY <1>7 DEF Notice, Shape
<1>8. CASE Read
  BY <1>1, <1>8, TakenIs DEF Read, Shape
<1>9. CASE Report
  <2>1. Append(updates, Taken) \in Seq(Copy)
    BY <1>1, <1>9, TakenIs DEF Report
  <2> QED BY <1>9, <2>1, BlankIs DEF Report, Shape
<1>10. CASE Count
  BY <1>10 DEF Count, Shape
<1>11. CASE Pump
  <2>1. Last(updates) \in Copy
    BY <1>1, <1>11, LastIs DEF Pump
  <2>2. app' \in Copy /\ net' = <<Last(updates)>> /\ mode = "host"
    BY <1>11, <2>1, UnaskedIs DEF Pump, Shape
  <2> QED BY <1>11, <2>1, <2>2 DEF Pump, Shape
<1>12. ASSUME NEW e \in LogEvent, Send(e), requests' \in Nat PROVE Shape'
  <2>1. Append(commands, e) \in Seq(LogEvent)
    BY <1>1
  <2> QED BY <1>12, <2>1 DEF Send, Shape
<1>13. CASE Swing
  <2>1. Verdict(requests + 1) \in LogEvent /\ requests + 1 \in Nat
    BY <1>1 DEF LogEvent
  <2> QED BY <1>12, <1>13, <2>1 DEF Swing
<1>14. ASSUME NEW d \in Draft, Publish(d) PROVE Shape'
  <2>1. Commits(d) \in LogEvent
    BY DEF LogEvent
  <2> QED BY <1>1, <1>12, <1>14, <2>1 DEF Publish
<1>15. CASE SoloEdit
  <2>1. [app EXCEPT !.pub.moves = @ + 1] \in Copy
    <3>1. app.pub \in Pub
      BY <1>1 DEF Copy
    <3>2. [app.pub EXCEPT !.moves = @ + 1] \in Pub
      BY <3>1 DEF Pub
    <3>3. [app EXCEPT !.pub = [app.pub EXCEPT !.moves = @ + 1]] \in Copy
      BY <1>1, <3>2 DEF Copy
    <3>4. [app EXCEPT !.pub.moves = @ + 1]
            = [app EXCEPT !.pub = [app.pub EXCEPT !.moves = @ + 1]]
      BY <1>1 DEF Copy
    <3> QED BY <3>3, <3>4
  <2> QED BY <1>15, <2>1 DEF SoloEdit, Shape
<1>16. ASSUME NEW d \in Draft, SoloPublish(d) PROVE Shape'
  <2>1. Commits(d) \in LogEvent
    BY DEF LogEvent
  <2>2. app' \in Copy
    BY <1>1, <1>16, <2>1, CommittedIs DEF SoloPublish
  <2> QED BY <1>16, <2>2 DEF SoloPublish, Shape
<1>17. CASE Save
  <2>1. disk' = <<[copy |-> Candidate, origin |-> origin]>>
    BY <1>17 DEF Save, Candidate
  <2>2. Candidate \in Copy /\ disk'[1].origin = origin
    BY <2>1, CandidateIs
  <2> QED BY <1>17, <2>1, <2>2 DEF Save, Shape
<1>18. CASE Load
  <2>1. app' \in Copy
    <3>1. PICK c \in Copy : disk = <<[copy |-> c, origin |-> disk[1].origin]>>
      BY <1>1, <1>18 DEF Load
    <3>2. disk[1].copy = c
      BY <3>1
    <3> QED BY <1>18, <3>2, UnaskedIs DEF Load
  <2> QED BY <1>18, <2>1 DEF Load, Shape
<1>19. CASE UNCHANGED vars
  BY <1>19 DEF vars, Shape
<1> QED
  BY <1>2, <1>3, <1>4, <1>5, <1>6, <1>7, <1>8, <1>9, <1>10, <1>11, <1>13, <1>14, <1>15, <1>16,
     <1>17, <1>18, <1>19 DEF Next, BridgeStep

\* The logs Descent compares.
LEMMA Logs ==
  ASSUME Shape
  PROVE  /\ Candidate.log \in Log /\ host.log \in Log /\ app.log \in Log
         /\ \A i \in 1..Len(updates) : updates[i].log \in Log
         /\ disk # None => disk[1].copy \in Copy /\ disk[1].copy.log \in Log
<1>1. \A c \in Copy : c.log \in Log
  BY DEF Copy
<1>2. disk # None => disk[1].copy \in Copy
  <2>1. SUFFICES ASSUME disk # None PROVE disk[1].copy \in Copy
    OBVIOUS
  <2>2. PICK c \in Copy : disk = <<[copy |-> c, origin |-> disk[1].origin]>>
    BY <2>1 DEF Shape
  <2>3. disk[1].copy = c
    BY <2>2
  <2> QED BY <2>3
<1>3. \A i \in 1..Len(updates) : updates[i] \in Copy
  BY DEF Shape
<1> QED BY <1>1, <1>2, <1>3, CandidateIs DEF Shape

\* The session and its reports only move on.
LEMMA HostMovesOn ==
  ASSUME Shape, Descent, NEW e \in LogEvent, host' = Committed(host, e),
         UNCHANGED <<mode, app, origin, net, updates, disk>>
  PROVE  Descent'
<1>1. host'.log = Append(host.log, e)
  BY CommittedIs DEF Shape
<1>2. mode = "host" =>
        /\ IsPrefix(Candidate.log, host'.log)
        /\ \A i \in 1..Len(updates) : IsPrefix(updates[i].log, host'.log)
  BY <1>1, Logs, PrefixAppend DEF Descent
<1> QED BY <1>2 DEF Descent, Candidate

LEMMA StepDescent ==
  ASSUME Shape, Shape', Descent, [Next]_vars
  PROVE  Descent'
<1> USE DEF ui, session, bridge
<1>1. CASE UNCHANGED <<mode, app, origin, net, host, updates, disk>>
  BY <1>1 DEF Descent, Candidate
<1>2. ASSUME NEW m \in {"solo", "host"}, Start(m) PROVE Descent'
  <2>1. /\ Candidate' = app' /\ app'.log = Opened.log /\ updates' = <<>>
        /\ mode' = "host" => host' = app'
        /\ disk' = disk /\ (disk # None => origin' = disk[1].origin)
    BY <1>2, OpenedIs, UnaskedIs DEF Start, Candidate, Shape
  <2>2. Opened.log \in Log /\ IsPrefix(Opened.log, Opened.log)
    BY OpenedIs, PrefixRefl DEF Copy
  <2>3. disk # None => IsPrefix(disk[1].copy.log, Candidate'.log)
    BY <2>1, <2>2, OpenedIs
  <2>4. mode' = "host" => IsPrefix(Candidate'.log, host'.log)
    BY <2>1, <2>2
  <2>5. 1..Len(updates') = {}
    BY <2>1
  <2> QED BY <2>1, <2>3, <2>4, <2>5 DEF Descent
<1>3. CASE Stop
  BY <1>3 DEF Stop, Descent
<1>4. CASE Walk
  <2>1. Move \in LogEvent
    BY DEF LogEvent
  <2> QED BY <1>4, <2>1, HostMovesOn DEF Walk
<1>5. CASE Commit
  <2>1. Head(commands) \in LogEvent
    BY <1>5 DEF Commit, Shape
  <2> QED BY <1>5, <2>1, HostMovesOn DEF Commit
<1>6. CASE Report
  <2>1. /\ updates' = Append(updates, Taken) /\ Taken.log = host.log
        /\ mode = "host" /\ updates \in Seq(Copy) /\ Taken \in Copy
        /\ UNCHANGED <<mode, app, origin, net, host, disk>>
    BY <1>6, TakenIs DEF Report, Shape
  <2>2. IsPrefix(Candidate.log, host.log) /\ IsPrefix(host.log, host.log)
    BY <2>1, Logs, PrefixRefl DEF Descent
  <2>3. ASSUME NEW i \in 1..Len(updates')
        PROVE  IsPrefix(Candidate.log, updates'[i].log) /\ IsPrefix(updates'[i].log, host.log)
    <3>1. CASE i \in 1..Len(updates)
      <4>1. updates'[i] = updates[i]
        BY <2>1, <3>1
      <4> QED BY <2>1, <3>1, <4>1 DEF Descent
    <3>2. CASE i \notin 1..Len(updates)
      <4>1. updates'[i] = Taken
        BY <2>1, <2>3, <3>2
      <4> QED BY <2>1, <2>2, <4>1
    <3> QED BY <3>1, <3>2
  <2> QED BY <2>1, <2>2, <2>3 DEF Descent, Candidate
<1>7. CASE Pump
  <2> DEFINE u == updates[Len(updates)]
  <2>1. /\ Len(updates) \in 1..Len(updates) /\ net' = <<u>> /\ updates' = <<>>
        /\ mode = "host" /\ UNCHANGED <<mode, origin, host, disk>>
    BY <1>7, LastIs DEF Pump, Shape
  <2>2. Candidate' = u /\ 1..Len(updates') = {}
    BY <2>1 DEF Candidate, None
  <2>3. IsPrefix(Candidate.log, u.log) /\ IsPrefix(u.log, host.log)
    BY <2>1 DEF Descent
  <2>4. disk # None => IsPrefix(disk[1].copy.log, u.log)
    BY <2>1, <2>3, Logs, PrefixTrans DEF Descent
  <2> HIDE DEF u
  <2> QED BY <2>1, <2>2, <2>3, <2>4 DEF Descent
<1>8. CASE SoloEdit
  <2>1. mode = "solo" /\ app'.log = app.log /\ UNCHANGED <<mode, origin, net, disk>>
    BY <1>8 DEF SoloEdit, Shape, Copy
  <2>2. Candidate'.log = Candidate.log
    BY <2>1 DEF Candidate
  <2> QED BY <2>1, <2>2 DEF Descent
<1>9. ASSUME NEW d \in Draft, SoloPublish(d) PROVE Descent'
  <2>1. Commits(d) \in LogEvent /\ app \in Copy
    BY DEF LogEvent, Shape
  <2>2. /\ mode = "solo" /\ app'.log = Append(app.log, Commits(d))
        /\ net = None /\ UNCHANGED <<mode, origin, net, disk>>
    BY <1>9, <2>1, CommittedIs DEF SoloPublish, Shape
  <2>3. Candidate = app /\ Candidate' = app'
    BY <2>2 DEF Candidate
  <2>4. disk # None => IsPrefix(disk[1].copy.log, app'.log)
    BY <2>1, <2>2, <2>3, Logs, PrefixAppend DEF Descent
  <2> QED BY <2>2, <2>3, <2>4 DEF Descent
<1>10. CASE Save
  <2>1. /\ disk' = <<[copy |-> Candidate, origin |-> origin]>>
        /\ Candidate' = Candidate /\ UNCHANGED <<mode, origin, host, updates>>
    BY <1>10 DEF Save, Candidate
  <2>2. disk'[1].copy = Candidate /\ disk'[1].origin = origin
    BY <2>1
  <2>3. IsPrefix(Candidate.log, Candidate.log)
    BY Logs, PrefixRefl
  <2> QED BY <2>1, <2>2, <2>3 DEF Descent
<1>11. CASE Load
  <2>1. /\ disk # None /\ mode # "down" /\ origin' = disk[1].origin
        /\ app'.log = disk[1].copy.log
        /\ UNCHANGED <<mode, net, host, updates, disk>>
    BY <1>11, Logs, UnaskedIs DEF Load
  <2>2. CASE net # None
    <3>1. Candidate' = Candidate
      BY <2>1, <2>2 DEF Candidate
    <3> QED BY <2>1, <3>1 DEF Descent
  <2>3. CASE net = None
    <3>1. Candidate'.log = disk[1].copy.log
      BY <2>1, <2>3 DEF Candidate
    <3>2. IsPrefix(disk[1].copy.log, disk[1].copy.log)
      BY <2>1, Logs, PrefixRefl
    <3>3. IsPrefix(disk[1].copy.log, Candidate.log)
      BY <2>1 DEF Descent
    <3>4. mode = "host" =>
            /\ IsPrefix(disk[1].copy.log, host.log)
            /\ \A i \in 1..Len(updates) : IsPrefix(disk[1].copy.log, updates[i].log)
      BY <2>1, <3>3, Logs, PrefixTrans DEF Descent
    <3> QED BY <2>1, <3>1, <3>2, <3>4 DEF Descent
  <2> QED BY <2>2, <2>3
<1>12. CASE Join \/ Notice \/ Read \/ Count
  BY <1>1, <1>12 DEF Join, Notice, Read, Count
<1>13. ASSUME NEW e, Send(e) PROVE Descent'
  BY <1>1, <1>13 DEF Send
<1>14. CASE UNCHANGED vars
  BY <1>1, <1>14 DEF vars
<1> QED
  BY <1>2, <1>3, <1>4, <1>5, <1>6, <1>7, <1>8, <1>9, <1>10, <1>11, <1>12, <1>13, <1>14
  DEF Next, BridgeStep, Swing, Publish

\* Whatever the program's starts, crashes, saves and loads, and however the
\* bridge's three readings fall between the session's commits, a save extends
\* the saved history and keeps the state it began in (dispatch.rs:93-109,
\* net.rs:388).
THEOREM Lineage == Spec => LineageKept
<1>1. Init => Shape /\ Descent
  BY BlankIs DEF Init, Shape, Descent
<1>2. Shape /\ Descent /\ [Next]_vars => Shape' /\ Descent'
  BY StepShape, StepDescent
<1>3. ASSUME Shape, Descent, [Next]_vars, disk # None
      PROVE  disk'[1].origin = disk[1].origin /\ IsPrefix(disk[1].copy.log, disk'[1].copy.log)
  <2>1. CASE Save
    <3>1. disk' = <<[copy |-> Candidate, origin |-> origin]>> /\ mode # "down"
      BY <2>1 DEF Save, Candidate
    <3>2. disk'[1].copy = Candidate /\ disk'[1].origin = origin
      BY <3>1
    <3> QED BY <1>3, <3>1, <3>2 DEF Descent
  <2>2. CASE disk' = disk
    BY <1>3, <2>2, Logs, PrefixRefl
  <2>3. Save \/ disk' = disk
    BY <1>3 DEF Next, Start, Stop, Join, Walk, BridgeStep, Commit, Notice, Read, Report, Count,
                Pump, Swing, Send, Load, SoloEdit, Publish, SoloPublish, vars
  <2> QED BY <2>1, <2>2, <2>3
<1>4. Shape /\ Descent /\ [Next]_vars =>
        [disk # None => /\ disk'[1].origin = disk[1].origin
                        /\ IsPrefix(disk[1].copy.log, disk'[1].copy.log)]_vars
  BY <1>3
<1>5. Spec => [][disk # None => /\ disk'[1].origin = disk[1].origin
                                /\ IsPrefix(disk[1].copy.log, disk'[1].copy.log)]_vars
  BY <1>1, <1>2, <1>4, PTL DEF Spec
<1> QED BY <1>5 DEF LineageKept

-----------------------------------------------------------------------------
(* Copies are nested *)

\* How many events of a kind a log holds.
Number(log, kind) == Cardinality(Of(log, kind))

\* What the report under way has read is behind the session it still reads.
Behind ==
  /\ step \in {"campaign", "history"} =>
       /\ got.pub.drafts \subseteq host.priv
       /\ got.pub.hurt <= Number(host.log, "Verdict")
       /\ got.pub.moves <= host.pub.moves
  /\ step = "history" => got.pub.drafts \subseteq got.priv /\ got.priv \subseteq Published(host.log)

\* The reports that left are nested and no newer than the session.
Good(c) == Nested(c) /\ Unlogged(c) <= Unlogged(host)

InHand ==
  /\ Nested(app) /\ Nested(host)
  /\ disk # None => Nested(disk[1].copy)
  /\ \A i \in 1..Len(updates) : Good(updates[i])
  /\ net # None => Good(net[1])
  /\ Behind

LEMMA NumberIs ==
  ASSUME NEW log \in Log, NEW kind
  PROVE  IsFiniteSet(Of(log, kind)) /\ Number(log, kind) \in Nat
<1>1. Of(log, kind) \subseteq 1..Len(log) /\ Len(log) \in Nat
  BY DEF Of, Log
<1>2. IsFiniteSet(1..Len(log))
  BY <1>1, FS_Interval
<1>3. IsFiniteSet(Of(log, kind))
  BY <1>1, <1>2, FS_Subset
<1> QED BY <1>3, FS_CardinalityType DEF Number

LEMMA NumberGrows ==
  ASSUME NEW log \in Log, NEW e \in LogEvent, NEW kind
  PROVE  Number(Append(log, e), kind) = Number(log, kind) + (IF e.kind = kind THEN 1 ELSE 0)
<1> DEFINE n == Len(log) + 1
           l == Append(log, e)
<1>1. /\ DOMAIN l = 1..n /\ DOMAIN log = 1..Len(log) /\ Len(log) \in Nat
      /\ l[n] = e /\ \A i \in 1..Len(log) : l[i] = log[i]
  BY DEF Log
<1> HIDE DEF l
<1>2. \A i : i \in DOMAIN l <=> i \in DOMAIN log \/ i = n
  BY <1>1
<1>3. IsFiniteSet(Of(log, kind)) /\ n \notin Of(log, kind) /\ Number(log, kind) \in Nat
  <2>1. n \notin DOMAIN log
    BY <1>1
  <2> QED BY <2>1, NumberIs DEF Of
<1>4. CASE e.kind = kind
  <2>1. Of(l, kind) = Of(log, kind) \cup {n}
    BY <1>1, <1>2, <1>4 DEF Of
  <2>2. Cardinality(Of(l, kind)) = Cardinality(Of(log, kind)) + 1
    BY <1>3, <2>1, FS_AddElement
  <2> QED BY <1>4, <2>2 DEF Number, l
<1>5. CASE e.kind # kind
  <2>1. Of(l, kind) = Of(log, kind)
    BY <1>1, <1>2, <1>5 DEF Of
  <2> QED BY <1>3, <1>5, <2>1 DEF Number, l
<1> QED BY <1>4, <1>5

LEMMA PublishedGrows ==
  ASSUME NEW log \in Log, NEW e \in LogEvent
  PROVE  /\ Published(log) \subseteq Published(Append(log, e))
         /\ e.kind = "Campaign" => e.draft \in Published(Append(log, e))
<1> DEFINE n == Len(log) + 1
           l == Append(log, e)
<1>1. /\ DOMAIN l = 1..n /\ DOMAIN log = 1..Len(log) /\ Len(log) \in Nat
      /\ l[n] = e /\ \A i \in 1..Len(log) : l[i] = log[i]
  BY DEF Log
<1> HIDE DEF l
<1>2. \A i \in Of(log, "Campaign") : i \in Of(l, "Campaign") /\ l[i] = log[i]
  BY <1>1 DEF Of
<1>3. e.kind = "Campaign" => n \in Of(l, "Campaign") /\ l[n] = e
  BY <1>1 DEF Of
<1> QED BY <1>2, <1>3 DEF Published, l

\* What a commit does to the parts that Nested and Unlogged read.
LEMMA CommittedParts ==
  ASSUME NEW c \in Copy, NEW e \in LogEvent
  PROVE  /\ Committed(c, e).pub.drafts
              = IF e.kind = "Campaign" THEN c.pub.drafts \cup {e.draft} ELSE c.pub.drafts
         /\ Committed(c, e).priv
              = IF e.kind = "Campaign" THEN c.priv \cup {e.draft} ELSE c.priv
         /\ Committed(c, e).pub.hurt \in {c.pub.hurt, c.pub.hurt + (IF e.kind = "Verdict" THEN 1 ELSE 0)}
         /\ Committed(c, e).pub.moves = c.pub.moves + (IF e.kind = "Move" THEN 1 ELSE 0)
         /\ Committed(c, e).log = Append(c.log, e)
<1>1. c.pub \in Pub
  BY DEF Copy
<1>2. Committed(c, e).pub = Apply(c.pub, e) /\ Committed(c, e).log = Append(c.log, e)
      /\ Committed(c, e).priv = IF e.kind = "Campaign" THEN c.priv \cup {e.draft} ELSE c.priv
  BY DEF Committed
<1>3. CASE e = Move
  <2>1. Apply(c.pub, e) = [c.pub EXCEPT !.moves = @ + 1] /\ e.kind = "Move"
    BY <1>3 DEF Apply, Move
  <2> QED BY <1>1, <1>2, <2>1 DEF Pub
<1>4. ASSUME NEW d \in Draft, e = Commits(d)
      PROVE  /\ Apply(c.pub, e) = [c.pub EXCEPT !.drafts = @ \cup {e.draft}] /\ e.kind = "Campaign"
  BY <1>4 DEF Apply, Commits
<1>5. ASSUME NEW r \in Nat, e = Verdict(r)
      PROVE  /\ e.kind = "Verdict"
             /\ \/ Apply(c.pub, e) = c.pub
                \/ Apply(c.pub, e) = [c.pub EXCEPT !.hurt = @ + 1, !.taken = @ \cup {r}]
  BY <1>5 DEF Apply, Verdict
<1>6. CASE \E d \in Draft : e = Commits(d)
  <2>1. Apply(c.pub, e) = [c.pub EXCEPT !.drafts = @ \cup {e.draft}] /\ e.kind = "Campaign"
    BY <1>4, <1>6
  <2> QED BY <1>1, <1>2, <2>1 DEF Pub
<1>7. CASE \E r \in Nat : e = Verdict(r)
  <2>1. PICK r \in Nat : e = Verdict(r)
    BY <1>7
  <2>2. e.kind = "Verdict"
    BY <1>5, <2>1
  <2>3. CASE Apply(c.pub, e) = c.pub
    BY <1>1, <1>2, <2>2, <2>3 DEF Pub
  <2>4. CASE Apply(c.pub, e) = [c.pub EXCEPT !.hurt = @ + 1, !.taken = @ \cup {r}]
    BY <1>1, <1>2, <2>2, <2>4 DEF Pub
  <2> QED BY <1>5, <2>1, <2>3, <2>4
<1> QED BY <1>3, <1>6, <1>7 DEF LogEvent

\* A commit keeps a copy nested, and shows no move its log has not.
LEMMA CommittedNested ==
  ASSUME NEW c \in Copy, NEW e \in LogEvent
  PROVE  /\ Nested(c) => Nested(Committed(c, e))
         /\ Unlogged(Committed(c, e)) = Unlogged(c)
<1> DEFINE k == Committed(c, e)
<1>1. c.log \in Log /\ c.pub.hurt \in Nat /\ c.pub.moves \in Nat
  BY DEF Copy, Pub
<1>2. /\ Number(c.log, "Verdict") \in Nat /\ Number(c.log, "Move") \in Nat
      /\ Number(k.log, "Verdict") = Number(c.log, "Verdict") + (IF e.kind = "Verdict" THEN 1 ELSE 0)
      /\ Number(k.log, "Move") = Number(c.log, "Move") + (IF e.kind = "Move" THEN 1 ELSE 0)
  <2>1. Number(c.log, "Verdict") \in Nat /\ Number(c.log, "Move") \in Nat
    BY <1>1, NumberIs
  <2>2. k.log = Append(c.log, e)
    BY CommittedParts
  <2> HIDE DEF k
  <2>3. Number(k.log, "Verdict") = Number(c.log, "Verdict") + (IF e.kind = "Verdict" THEN 1 ELSE 0)
    BY <1>1, <2>2, NumberGrows
  <2>4. Number(k.log, "Move") = Number(c.log, "Move") + (IF e.kind = "Move" THEN 1 ELSE 0)
    BY <1>1, <2>2, NumberGrows
  <2> QED BY <2>1, <2>3, <2>4
<1>3. /\ Published(c.log) \subseteq Published(k.log)
      /\ e.kind = "Campaign" => e.draft \in Published(k.log)
  BY <1>1, PublishedGrows, CommittedParts
<1>4. ASSUME Nested(c) PROVE k.pub.drafts \subseteq k.priv /\ k.priv \subseteq Published(k.log)
  BY <1>3, <1>4, CommittedParts DEF Nested
<1>5. ASSUME Nested(c) PROVE k.pub.hurt <= Number(k.log, "Verdict")
  <2>1. c.pub.hurt <= Number(c.log, "Verdict")
    BY <1>5 DEF Nested, Number
  <2>2. k.pub.hurt \in {c.pub.hurt, c.pub.hurt + (IF e.kind = "Verdict" THEN 1 ELSE 0)}
    BY CommittedParts
  <2> HIDE DEF k
  <2> QED BY <1>1, <1>2, <2>1, <2>2
<1>6. Unlogged(k) = Unlogged(c)
  <2>1. k.pub.moves = c.pub.moves + (IF e.kind = "Move" THEN 1 ELSE 0)
    BY CommittedParts
  <2> HIDE DEF k
  <2> QED BY <1>1, <1>2, <2>1 DEF Unlogged, Number
<1> QED BY <1>4, <1>5, <1>6 DEF Nested, Number

\* Nobody counts the requests a board took.
LEMMA UnaskedNested ==
  ASSUME NEW c \in Copy, Nested(c)
  PROVE  Nested([c EXCEPT !.pub = Unasked(@)])
<1> DEFINE k == [c EXCEPT !.pub = Unasked(@)]
<1>1. k.priv = c.priv /\ k.log = c.log /\ k.pub = Unasked(c.pub)
  BY DEF Copy
<1>2. k.pub.drafts = c.pub.drafts /\ k.pub.hurt = c.pub.hurt
  BY <1>1 DEF Unasked, Copy, Pub
<1> HIDE DEF k
<1>3. Nested(k)
  BY <1>1, <1>2 DEF Nested
<1> QED BY <1>3 DEF k

LEMMA BlankNested == Nested(Blank)
<1>1. Blank.log \in Log /\ Blank.pub.drafts = {} /\ Blank.priv = {} /\ Blank.pub.hurt = 0
  BY DEF Blank, Fresh, Log
<1>2. Number(Blank.log, "Verdict") >= 0
  BY <1>1, NumberIs
<1> QED BY <1>1, <1>2 DEF Nested, Number

\* The copies the program keeps.
LEMMA Copies ==
  ASSUME Shape
  PROVE  /\ app \in Copy /\ host \in Copy /\ got \in Copy
         /\ \A i \in 1..Len(updates) : updates[i] \in Copy
         /\ net # None => net[1] \in Copy
         /\ disk # None => disk[1].copy \in Copy
<1>1. \A i \in 1..Len(updates) : updates[i] \in Copy
  BY DEF Shape
<1>2. net # None => net[1] \in Copy
  BY CandidateIs DEF Candidate
<1> QED BY <1>1, <1>2, Logs DEF Shape

\* The session commits; its copy and what is behind it stay so.
LEMMA HostInHand ==
  ASSUME Shape, InHand, NEW e \in LogEvent, host' = Committed(host, e),
         UNCHANGED <<app, net, updates, disk, step, got>>
  PROVE  InHand'
<1>1. /\ host \in Copy /\ host.log \in Log /\ host.pub.hurt \in Nat /\ host.pub.moves \in Nat
      /\ got.pub.hurt \in Nat /\ got.pub.moves \in Nat
  BY Copies DEF Copy, Pub
<1>2. Nested(host') /\ Unlogged(host') = Unlogged(host)
  BY <1>1, CommittedNested DEF InHand
<1>3. \A c : Good(c) => Nested(c) /\ Unlogged(c) <= Unlogged(host')
  BY <1>2 DEF Good
<1>4. /\ host.priv \subseteq host'.priv /\ Published(host.log) \subseteq Published(host'.log)
      /\ host'.log = Append(host.log, e)
      /\ host'.pub.moves = host.pub.moves + (IF e.kind = "Move" THEN 1 ELSE 0)
  BY <1>1, CommittedParts, PublishedGrows
<1>5. /\ Number(host.log, "Verdict") \in Nat
      /\ Number(host'.log, "Verdict")
           = Number(host.log, "Verdict") + (IF e.kind = "Verdict" THEN 1 ELSE 0)
  BY <1>1, <1>4, NumberIs, NumberGrows
<1>6. ASSUME got.pub.hurt <= Number(host.log, "Verdict"), got.pub.moves <= host.pub.moves
      PROVE  got.pub.hurt <= Number(host'.log, "Verdict") /\ got.pub.moves <= host'.pub.moves
  BY <1>1, <1>4, <1>5, <1>6
<1>7. Behind'
  <2>1. Number(host.log, "Verdict")' = Number(host'.log, "Verdict")
    BY DEF Number, Of
  <2>2. Published(host.log)' = Published(host'.log)
    BY DEF Published, Of
  <2>3. ASSUME step \in {"campaign", "history"}
        PROVE  /\ got.pub.drafts \subseteq host'.priv
               /\ got.pub.hurt <= Number(host'.log, "Verdict")
               /\ got.pub.moves <= host'.pub.moves
    BY <1>4, <1>6, <2>3 DEF InHand, Behind
  <2>4. ASSUME step = "history"
        PROVE  got.pub.drafts \subseteq got.priv /\ got.priv \subseteq Published(host'.log)
    BY <1>4, <2>4 DEF InHand, Behind
  <2> QED BY <2>1, <2>2, <2>3, <2>4 DEF Behind
<1>8. \A i \in 1..Len(updates) : Good(updates[i])'
  BY <1>3 DEF InHand, Good, Nested, Unlogged
<1>9. net # None => Good(net[1])'
  BY <1>3 DEF InHand, Good, Nested, Unlogged
<1> QED BY <1>2, <1>7, <1>8, <1>9 DEF InHand, Nested

\* The app and the disk take other copies; nothing else changes.
LEMMA AppInHand ==
  ASSUME InHand, Nested(app'), disk' # None => Nested(disk'[1].copy),
         UNCHANGED <<host, net, updates, step, got>>
  PROVE  InHand'
<1>1. Behind'
  BY DEF InHand, Behind, Number, Of, Published
<1>2. (\A i \in 1..Len(updates) : Good(updates[i]))'
  BY DEF InHand, Good, Nested, Unlogged
<1>3. (net # None => Good(net[1]))'
  BY DEF InHand, Good, Nested, Unlogged
<1>4. Nested(host)'
  BY DEF InHand, Nested
<1>5. Nested(app)' /\ (disk # None => Nested(disk[1].copy))'
  BY DEF Nested
<1> QED BY <1>1, <1>2, <1>3, <1>4, <1>5 DEF InHand

\* The report that goes out is nested: what was read first is in what was read
\* after it.
LEMMA TakenGood ==
  ASSUME Shape, InHand, step = "history"
  PROVE  Good(Taken)
<1>1. host \in Copy /\ got \in Copy /\ got.pub.moves \in Nat /\ host.pub.moves \in Nat
      /\ host.log \in Log
  BY Copies DEF Copy, Pub
<1>2. Taken.pub = got.pub /\ Taken.priv = got.priv /\ Taken.log = host.log
  BY <1>1 DEF Taken, Reading, Copy
<1>3. Number(host.log, "Move") \in Nat
  BY <1>1, NumberIs
<1>4. Nested(Taken)
  BY <1>2 DEF InHand, Behind, Nested, Number
<1>5. got.pub.moves <= host.pub.moves
  BY DEF InHand, Behind
<1>6. Unlogged(Taken) <= Unlogged(host)
  BY <1>1, <1>2, <1>3, <1>5 DEF Unlogged, Number
<1> QED BY <1>4, <1>6 DEF Good

LEMMA StepInHand ==
  ASSUME Shape, InHand, [Next]_vars
  PROVE  InHand'
<1> USE DEF ui, session, bridge
<1>1. /\ Nested(app) /\ Nested(host) /\ (disk # None => Nested(disk[1].copy))
      /\ \A i \in 1..Len(updates) : Nested(updates[i])
      /\ net # None => Nested(net[1])
  BY DEF InHand, Good
<1>2. /\ app \in Copy /\ host \in Copy /\ got \in Copy
      /\ \A i \in 1..Len(updates) : updates[i] \in Copy
      /\ net # None => net[1] \in Copy
      /\ disk # None => disk[1].copy \in Copy
  BY Copies
<1>3. CASE UNCHANGED <<app, host, net, updates, disk, step, got>>
  BY <1>1, <1>3, AppInHand
<1>4. ASSUME NEW m \in {"solo", "host"}, Start(m) PROVE InHand'
  <2>1. Nested(Opened) /\ Opened \in Copy
    BY <1>1, BlankNested, OpenedIs DEF Opened
  <2>2. app' = [Opened EXCEPT !.pub = Unasked(@)]
    BY <1>4 DEF Start
  <2>3. Nested(app')
    BY <2>1, <2>2, UnaskedNested
  <2>4. Nested(host')
    BY <1>4, <2>3, BlankNested DEF Start
  <2>5. 1..Len(updates') = {} /\ net' = None /\ disk' = disk /\ step' \notin {"campaign", "history"}
    BY <1>4 DEF Start, Shape
  <2>6. Behind'
    BY <2>5 DEF Behind
  <2>7. disk' # None => Nested(disk'[1].copy)
    BY <1>1, <2>5
  <2> QED BY <2>3, <2>4, <2>5, <2>6, <2>7 DEF InHand, Nested
<1>5. CASE Stop
  <2>1. /\ app' = Blank /\ host' = Blank /\ 1..Len(updates') = {} /\ net' = None /\ disk' = disk
        /\ step' = "off"
    BY <1>5 DEF Stop
  <2>2. Behind'
    BY <2>1 DEF Behind
  <2>3. disk' # None => Nested(disk'[1].copy)
    BY <1>1, <2>1
  <2>4. Nested(app') /\ Nested(host')
    BY <2>1, BlankNested
  <2> QED BY <2>1, <2>2, <2>3, <2>4 DEF InHand, Nested
<1>6. CASE Walk
  <2>1. Move \in LogEvent
    BY DEF LogEvent
  <2> QED BY <1>6, <2>1, HostInHand DEF Walk
<1>7. CASE Commit
  <2>1. Head(commands) \in LogEvent
    BY <1>7 DEF Commit, Shape
  <2> QED BY <1>7, <2>1, HostInHand DEF Commit
<1>8. CASE Notice
  <2>1. step' = "snapshot" /\ UNCHANGED <<app, host, net, updates, disk, got>>
    BY <1>8 DEF Notice
  <2>2. Behind'
    BY <2>1 DEF Behind
  <2> QED BY <2>1, <2>2 DEF InHand, Good, Nested, Unlogged
<1>9. CASE Read
  <2>1. UNCHANGED <<app, host, net, updates, disk>> /\ got' = Taken
    BY <1>9 DEF Read
  <2>2. CASE step = "snapshot"
    <3>1. step' = "campaign" /\ got'.pub = host.pub
      BY <1>2, <1>9, <2>2 DEF Read, Taken, Reading, Copy
    <3>2. host.pub.moves \in Nat
      BY <1>2 DEF Copy, Pub
    <3>3. Behind'
      BY <1>1, <2>1, <3>1, <3>2 DEF Behind, Nested, Number, Of
    <3> QED BY <1>1, <2>1, <3>3 DEF InHand, Good, Nested, Unlogged
  <2>3. CASE step = "campaign"
    <3>1. step' = "history" /\ got'.priv = host.priv /\ got'.pub = got.pub
      BY <1>2, <1>9, <2>3 DEF Read, Taken, Reading, Copy
    <3>2. Behind'
      BY <1>1, <2>1, <2>3, <3>1 DEF InHand, Behind, Nested, Number, Of, Published
    <3> QED BY <1>1, <2>1, <3>2 DEF InHand, Good, Nested, Unlogged
  <2> QED BY <1>9, <2>2, <2>3 DEF Read
<1>10. CASE Report
  <2>1. /\ updates' = Append(updates, Taken) /\ updates \in Seq(Copy) /\ Taken \in Copy
        /\ UNCHANGED <<app, host, net, disk>> /\ step' \notin {"campaign", "history"}
    BY <1>10, TakenIs DEF Report, Shape
  <2>2. Good(Taken)
    BY <1>10, TakenGood DEF Report
  <2>3. ASSUME NEW i \in 1..Len(updates') PROVE Good(updates'[i])
    <3>1. CASE i \in 1..Len(updates)
      <4>1. updates'[i] = updates[i]
        BY <2>1, <3>1
      <4> QED BY <3>1, <4>1 DEF InHand
    <3>2. CASE i \notin 1..Len(updates)
      <4>1. updates'[i] = Taken
        BY <2>1, <2>3, <3>2
      <4> QED BY <2>2, <4>1
    <3> QED BY <3>1, <3>2
  <2>4. \A c : Good(c) => Nested(c) /\ Unlogged(c) <= Unlogged(host')
    BY <2>1 DEF Good
  <2>5. \A i \in 1..Len(updates') : Nested(updates'[i]) /\ Unlogged(updates'[i]) <= Unlogged(host')
    BY <2>3, <2>4
  <2>6. Behind'
    BY <2>1 DEF Behind
  <2> QED BY <1>1, <2>1, <2>4, <2>5, <2>6 DEF InHand, Good, Nested, Unlogged
<1>11. CASE Pump
  <2> DEFINE u == updates[Len(updates)]
  <2>1. /\ Len(updates) \in 1..Len(updates) /\ net' = <<u>> /\ updates' = <<>>
        /\ app' = [u EXCEPT !.pub = Unasked(@)] /\ UNCHANGED <<host, disk, step, got>>
    BY <1>11, LastIs DEF Pump, Shape
  <2>2. u \in Copy /\ Good(u) /\ net'[1] = u /\ 1..Len(updates') = {}
    BY <1>2, <2>1 DEF InHand
  <2> HIDE DEF u
  <2>3. Nested(app')
    BY <2>1, <2>2, UnaskedNested DEF Good
  <2>4. Nested(net'[1]) /\ Unlogged(net'[1]) <= Unlogged(host')
    BY <2>1, <2>2 DEF Good
  <2>5. Behind'
    BY <2>1 DEF InHand, Behind, Number, Of, Published
  <2> QED BY <1>1, <2>1, <2>2, <2>3, <2>4, <2>5 DEF InHand, Good, Nested, Unlogged
<1>12. CASE SoloEdit
  <2>1. app' = [app EXCEPT !.pub.moves = @ + 1] /\ UNCHANGED <<host, net, updates, disk, step, got>>
    BY <1>12 DEF SoloEdit
  <2>2. /\ app'.pub.drafts = app.pub.drafts /\ app'.pub.hurt = app.pub.hurt
        /\ app'.priv = app.priv /\ app'.log = app.log
    BY <1>2, <2>1 DEF Copy, Pub
  <2>3. Nested(app')
    BY <1>1, <2>2 DEF Nested
  <2> QED BY <1>1, <2>1, <2>3, AppInHand
<1>13. ASSUME NEW d \in Draft, SoloPublish(d) PROVE InHand'
  <2>1. Commits(d) \in LogEvent
    BY DEF LogEvent
  <2>2. app' = Committed(app, Commits(d)) /\ UNCHANGED <<host, net, updates, disk, step, got>>
    BY <1>13 DEF SoloPublish
  <2>3. Nested(app')
    BY <1>1, <1>2, <2>1, <2>2, CommittedNested
  <2> QED BY <1>1, <2>2, <2>3, AppInHand
<1>14. CASE Save
  <2>1. /\ disk' = <<[copy |-> Candidate, origin |-> origin]>>
        /\ UNCHANGED <<app, host, net, updates, step, got>>
    BY <1>14 DEF Save, Candidate
  <2>2. Nested(Candidate) /\ disk'[1].copy = Candidate
    BY <1>1, <2>1 DEF Candidate
  <2>3. Nested(disk'[1].copy)
    BY <2>2
  <2> QED BY <1>1, <2>1, <2>3, AppInHand
<1>15. CASE Load
  <2>1. app' = [disk[1].copy EXCEPT !.pub = Unasked(@)] /\ disk # None
        /\ UNCHANGED <<host, net, updates, disk, step, got>>
    BY <1>15 DEF Load
  <2>2. Nested(app')
    BY <1>1, <1>2, <2>1, UnaskedNested
  <2> QED BY <1>1, <2>1, <2>2, AppInHand
<1>16. CASE Count
  <2>1. step' = "loop" /\ UNCHANGED <<app, host, net, updates, disk, got>>
    BY <1>16 DEF Count
  <2>2. Behind'
    BY <2>1 DEF Behind
  <2> QED BY <2>1, <2>2 DEF InHand, Good, Nested, Unlogged
<1>17. CASE Join
  BY <1>3, <1>17 DEF Join
<1>18. ASSUME NEW e, Send(e) PROVE InHand'
  BY <1>3, <1>18 DEF Send
<1>19. CASE UNCHANGED vars
  BY <1>3, <1>19 DEF vars
<1> QED
  BY <1>4, <1>5, <1>6, <1>7, <1>8, <1>9, <1>10, <1>11, <1>12, <1>13, <1>14, <1>15, <1>16, <1>17,
     <1>18, <1>19 DEF Next, BridgeStep, Swing, Publish

\* However the session is committed to while the bridge reads it (net.rs:388),
\* whichever copy is saved and however often the program stops, no copy
\* publishes what it has no secret or record of, and a report's history covers
\* the board it goes out with.
THEOREM Nesting == Spec => []CopiesNested
<1>1. Init => Shape /\ InHand
  <2> SUFFICES ASSUME Init PROVE Shape /\ InHand
    OBVIOUS
  <2>1. Shape
    BY BlankIs DEF Init, Shape
  <2>2. Behind /\ 1..Len(updates) = {}
    BY DEF Init, Behind
  <2>3. Nested(app) /\ Nested(host) /\ net = None /\ disk = None
    BY BlankNested DEF Init
  <2> QED BY <2>1, <2>2, <2>3 DEF InHand
<1>2. Shape /\ InHand /\ [Next]_vars => Shape' /\ InHand'
  BY StepShape, StepInHand
<1>3. Shape /\ InHand => CopiesNested
  <2> SUFFICES ASSUME Shape, InHand PROVE CopiesNested
    OBVIOUS
  <2>1. ASSUME NEW c \in ToSet(updates) PROVE Good(c)
    <3>1. PICK i \in DOMAIN updates : c = updates[i]
      BY DEF ToSet
    <3>2. i \in 1..Len(updates)
      BY <3>1 DEF Shape
    <3> QED BY <3>1, <3>2 DEF InHand
  <2>2. ASSUME NEW c \in ToSet(net) PROVE Good(c)
    <3>1. PICK i \in DOMAIN net : c = net[i]
      BY DEF ToSet
    <3>2. CASE net = None
      BY <3>1, <3>2 DEF None
    <3>3. CASE net # None
      <4>1. PICK d \in Copy : net = <<d>>
        BY <3>3 DEF Shape
      <4>2. i = 1 /\ c = net[1]
        BY <3>1, <4>1
      <4> QED BY <3>3, <4>2 DEF InHand
    <3> QED BY <3>2, <3>3
  <2> QED BY <2>1, <2>2 DEF CopiesNested, InHand, Good
<1> QED BY <1>1, <1>2, <1>3, PTL DEF Spec
=============================================================================
