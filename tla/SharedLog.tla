----------------------------- MODULE SharedLog -----------------------------
(***************************************************************************)
(* What the session promises ("clients send Intent, the host validates and *)
(* rebroadcasts Applied with a sequence number, and every peer applies the *)
(* same ordered log", protocol.rs): one log that only grows, by entries    *)
(* that fit it, and readers that each hold a prefix of it which only grows.*)
(***************************************************************************)
EXTENDS Integers, Sequences

CONSTANTS Reader, Entry, Fits(_, _)

VARIABLES
  log,      \* the ordered log
  view,     \* the prefix each reader holds
  reading   \* readers that hold one

vars == <<log, view, reading>>

Init == log = <<>> /\ view = [r \in Reader |-> <<>>] /\ reading = {}

\* Entries are added at the end, each fitting the log it lands on.
Extend ==
  /\ log' \in Seq(Entry)
  /\ Len(log) <= Len(log') /\ SubSeq(log', 1, Len(log)) = log
  /\ \A i \in Len(log) + 1 .. Len(log') : Fits(SubSeq(log', 1, i - 1), log'[i])
  /\ UNCHANGED <<view, reading>>

\* A reader adopts some prefix, once.
Adopt(r) ==
  /\ r \notin reading
  /\ reading' = reading \cup {r}
  /\ \E n \in 0..Len(log) : view' = [view EXCEPT ![r] = SubSeq(log, 1, n)]
  /\ UNCHANGED log

\* From then on it only moves forward.
Follow(r) ==
  /\ r \in reading
  /\ \E n \in Len(view[r])..Len(log) : view' = [view EXCEPT ![r] = SubSeq(log, 1, n)]
  /\ UNCHANGED <<log, reading>>

Next == Extend \/ \E r \in Reader : Adopt(r) \/ Follow(r)

Spec == Init /\ [][Next]_vars
=============================================================================
