--------------------------- MODULE MCReplication ---------------------------
(***************************************************************************)
(* Small instances of Replication over the board of Board.tla: one knight, *)
(* which ann owns, or the wolves, whom the DM may grant to ann.            *)
(***************************************************************************)
EXTENDS Replication, Board, TLC

CONSTANTS ann, bob, wolves, knight

MCNameOf == [c \in Client |-> ann]

\* A player, and another one under a second name.
CONSTANT Guest
TwoNames == [c \in Client |-> IF c \in Guest THEN bob ELSE ann]
MCOwnerOf == [t \in Token |-> ann]
FactionOwned == [t \in Token |-> wolves]
MCEvent == BoardEvent(Client) \cup {Granted(wolves, ann)}

\* Each player moves the knight or rolls a die.
MCAsks == [c \in Client |-> {Moved(knight), Rolled(c)}]

\* One proposal each: ann moves her knight, anybody else rolls.
OneAskEach == [c \in Client |-> IF c \in Stranger \cup Guest THEN {Rolled(c)} ELSE {Moved(knight)}]

\* The DM removes the knight, or commits a batch: two moves, or one whose
\* second half no longer applies, which must be refused whole.
MCLocalBatch == {<<Removed(knight)>>, <<Moved(knight), Moved(knight)>>,
                 <<Removed(knight), Moved(knight)>>}

\* The DM moves the knight or grants its faction.
MCOneEvent == {<<Moved(knight)>>, <<Granted(wolves, ann)>>}

Symmetric == Permutations(Client)
=============================================================================
