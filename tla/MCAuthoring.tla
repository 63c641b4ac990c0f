----------------------------- MODULE MCAuthoring -----------------------------
EXTENDS Authoring

\* Identifiers: one segment each, in the order of their names.
bran == <<1>>  mira == <<2>>  tide == <<5>>
feast == <<1>> rumor == <<2>> duel == <<3>>
iron == <<1>>  eel == <<1>>   crypt == <<2>>
barrow == <<9>>

Item(template) == [kind |-> "item", template |-> template, charts |-> {}]
Fact(id, text) == [kind |-> "fact", fact |-> [id |-> id, text |-> text]]

Story(needs, hidden, roles, effects) ==
  [needs |-> needs, hidden |-> hidden, laws |-> {}, roles |-> roles, effects |-> effects]
Role(key, tags) == [key |-> key, tags |-> tags]

Harbor ==
  [EmptyWorld EXCEPT
     !.factions   = tide :> [tags |-> <<"sea", "old">>],
     !.characters = (bran :> [tags |-> <<"sea">>]) @@ (mira :> [tags |-> <<"sea", "old">>]),
     !.laws       = iron :> [text |-> "cold"],
     !.sheets     = tide :> (("banked_time" :> 10) @@ ("want_grain" :> 2)),
     !.history    = <<[id |-> <<7>>, time |-> 1, text |-> "founded"]>>,
     !.storylets  =
       (feast :> Story({"sea"}, {}, <<Role("host", {"sea"})>>, <<Item("cup"), Item("ring")>>)) @@
       (rumor :> Story({}, {eel}, <<>>, <<Fact(eel, "denied"),
                   [kind |-> "history", event |-> [id |-> <<8>>, time |-> 0, text |-> "whispered"]]>>)) @@
       (duel  :> Story({"splinter"}, {}, <<Role("first", {"sea"}), Role("second", {"old"})>>,
                       <<Item("blade"), [kind |-> "map", id |-> <<4>>, sound |-> TRUE]>>))]

MCGames == {[world |-> Harbor, journal |-> <<>>, inventories |-> <<>>, generations |-> <<>>,
             maps |-> <<>>, active |-> NoId, board |-> {1, 2}, sheets |-> <<>>]}

MCStores == {[EmptyStore EXCEPT
               !.secrets = eel :> [id |-> eel, text |-> "a cult"],
               !.mods    = (1 :> [item |-> <<"minted", 1, 0>>, mod |-> [id |-> 1, text |-> "cursed"]])
                        @@ (2 :> [item |-> <<"minted", 1, 0>>, mod |-> [id |-> 1, text |-> "blessed"]])]}

\* A draft that lands, and one whose faction is another under a known id.
Draft(id, faction) ==
  [kind |-> "draft",
   draft |-> [id |-> id, maps |-> <<[id |-> barrow, sound |-> TRUE]>>, start |-> barrow,
              secrets |-> crypt :> [id |-> crypt, text |-> "sealed"], rewards |-> <<"crown">>,
              final |-> <<6>>,
              world |-> [EmptyWorld EXCEPT
                           !.factions  = tide :> faction,
                           !.places    = (<<1>> :> [map |-> barrow]) @@ (<<2>> :> [map |-> NoId]),
                           !.routes    = <<1>> :> [from |-> <<1>>, to |-> <<2>>, weight |-> 0],
                           !.storylets = <<6>> :> Story({}, {crypt}, <<>>, <<>>)]]]

MCProposals == {Draft(<<1>>, [tags |-> <<"sea", "old">>]), Draft(<<2>>, [tags |-> <<"ash">>]),
                [kind |-> "npc", key |-> "goblin"], [kind |-> "item", template |-> "torch"],
                [kind |-> "fact", fact |-> [id |-> NoId, text |-> "rain"]],
                [kind |-> "map", key |-> "cellar"]}

MCErrands == {{"refresh", "play", "reveal", "roll", "commit"},
              {"time", "roll", "strike", "commit", "quests"},
              {"generate", "accept", "refresh", "play"},
              {"add", "equip", "unequip", "transfer", "revealMod"}}
=============================================================================
