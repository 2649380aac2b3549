------------------------- MODULE MCCommandArguments -------------------------
(* The arguments of the model-checking runs of CommandArguments. *)
EXTENDS CommandArguments

TextsUpTo(n, symbols) == UNION {[1 .. k -> symbols] : k \in 0 .. n}

OneSet == {<<"1">>}

(* Sets: every text of up to five of these symbols, MaxU32 being 12. *)
AllSets == TextsUpTo(5, {"0", "1", "2", ":", ",", "*"})

(* FETCH items: up to five symbols. *)
AllItems == TextsUpTo(5, {"(", ")", "[", "]", "x", "{"})
            \cup TextsUpTo(2, {"SP", "CTL", "CR", "EIGHT", "DQ", "BODY"})

(* Strings: up to three symbols, for one argument and for two. *)
AllArgs == TextsUpTo(2, {"x", "DQ", "BS", "SP", "CR", "LF", "NUL", "CTL", "EIGHT", "{", "}", ")"})

System == {[custom |-> FALSE, text |-> <<"Seen">>]}
Custom == {[custom |-> TRUE, text |-> t] :
             t \in TextsUpTo(2, {"x", "BS", "SP", ")", "(", "*", "CR", "EIGHT"})}
AllFlagLists == {<<>>} \cup {<<f>> : f \in System \cup Custom}
                \cup {<<f, g>> : f, g \in System \cup Custom}

(* Search keys: two levels of And, Or and Not over three conditions. *)
Leaves == {[op |-> "SEEN"], [op |-> "DRAFT"]}
          \cup {[op |-> "FROM", text |-> t] : t \in {<<"DQ", ")">>, <<"BS">>}}
Ands(ks) == {[op |-> "And", keys |-> <<a, b>>] : a, b \in ks}
            \cup {[op |-> "And", keys |-> <<a>>] : a \in ks}
Compound(ks) == Ands(ks) \cup {[op |-> "Or", left |-> a, right |-> b] : a, b \in ks}
                \cup {[op |-> "Not", key |-> a] : a \in ks}
Depth1 == Leaves \cup Compound(Leaves)
BadText == {[op |-> "TEXT", text |-> t] : t \in AllArgs}
AllKeys == Depth1 \cup Compound(Depth1) \cup BadText

(* Each call that takes a set: all sets with one other argument, and the     *)
(* other way round.                                                          *)
FetchPairs == AllSets \X {<<"x">>} \cup OneSet \X AllItems
StorePairs == AllSets \X {<<>>} \cup OneSet \X AllFlagLists
MovePairs == AllSets \X {<<"x">>} \cup OneSet \X AllArgs

EmptyAnd == [op |-> "And", keys |-> <<>>]
KeysWithEmpty == Depth1 \cup {EmptyAnd, [op |-> "Not", key |-> EmptyAnd]}
=============================================================================
