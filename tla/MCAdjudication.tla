--------------------------- MODULE MCAdjudication ---------------------------
(***************************************************************************)
(* A table of two players and two neutral creatures: "a" and "b" are the   *)
(* players' heroes, "n" and "o" the DM's, and anybody can be won over.     *)
(***************************************************************************)
EXTENDS Adjudication

MCToken  == {"a", "b", "n", "o"}
MCPlayer == {"ann", "bob"}
MCOwner  == [t \in MCToken |-> CASE t = "a" -> "ann" [] t = "b" -> "bob" [] OTHER -> "dm"]
MCOrder  == <<"a", "b", "n">>
MCFreePlay == <<>>

\* Ann courts both creatures, Bob strikes one and courts Ann's hero, the DM
\* strikes Bob.
MCWants == {<<"ann", "a", "n", "Recruit">>, <<"ann", "a", "o", "Recruit">>,
            <<"bob", "b", "n", "Strike">>, <<"bob", "b", "a", "Recruit">>,
            <<"dm", "n", "b", "Strike">>}
\* Ann alone courts both creatures.
MCCourting == {<<"ann", "a", "n", "Recruit">>, <<"ann", "a", "o", "Recruit">>}
=============================================================================
