------------------------------- MODULE Board -------------------------------
(***************************************************************************)
(* As much of the board as the replication model needs to tell accepted    *)
(* from rejected events: the map events of apply_game (apply.rs) and the   *)
(* arms of intent_refusal (messages.rs) for them, read off the sequence of *)
(* events materialised in a snapshot.                                      *)
(***************************************************************************)
EXTENDS Integers, Sequences

CONSTANTS
  Token,     \* the tokens placed on the board the session starts with
  OwnerOf    \* the player or faction that owns each of them, or Nobodys
CONSTANT Nobodys

Moved(t)    == [kind |-> "TokenMoved", token |-> t]
Removed(t)  == [kind |-> "TokenRemoved", token |-> t]
Rolled(who) == [kind |-> "Rolled", by |-> who]

\* FactionControlSet: the player who may now act for an owner that is a faction.
Granted(faction, name) == [kind |-> "FactionControlSet", faction |-> faction, player |-> name]

BoardEvent(Roller) == {Moved(t) : t \in Token} \cup {Removed(t) : t \in Token}
                        \cup {Rolled(r) : r \in Roller}

Placed(state, t) ==
  \A i \in 1..Len(state) : ~(state[i].kind = "TokenRemoved" /\ state[i].token = t)

\* faction_controller: who holds the faction's channel is whom it was granted last.
Controls(name, state, faction) ==
  \E i \in 1..Len(state) :
    /\ state[i] = Granted(faction, name)
    /\ \A j \in (i + 1)..Len(state) :
         ~(state[j].kind = "FactionControlSet" /\ state[j].faction = faction)

\* apply_game: a map event about a token that is not there is an error, a
\* dice record and a grant always apply.
BoardAccepts(state, e) ==
  e.kind \in {"TokenMoved", "TokenRemoved"} => Placed(state, e.token)

\* peer_owns: a token on the board whose owner is the peer's announced name, or a
\* faction granted to it.
Owns(name, state, t) ==
  /\ Placed(state, t) /\ OwnerOf[t] # Nobodys
  /\ OwnerOf[t] = name \/ Controls(name, state, OwnerOf[t])

\* intent_refusal: moving takes ownership, removing and granting are the DM's,
\* dice are free.
BoardPermits(name, state, e) ==
  CASE e.kind = "TokenMoved" -> Owns(name, state, e.token)
    [] e.kind = "Rolled"     -> TRUE
    [] OTHER                 -> FALSE
=============================================================================
