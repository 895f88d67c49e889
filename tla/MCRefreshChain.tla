--------------------------- MODULE MCRefreshChain ---------------------------
(* RefreshChain on a day of six ticks, with sheets of up to two schedules. *)
EXTENDS RefreshChain

MCSpecs == {Empty, Every(0), Every(4), Pattern({1, 4}), Pattern({}), Malformed}

MCSheets == {<<>>} \cup {<<s>> : s \in MCSpecs} \cup {<<s, t>> : s, t \in MCSpecs}

MCFewSheets == {<<>>, <<Empty>>, <<Pattern({}), Pattern({1, 4}), Every(4)>>}

MCFlags == {Empty, Every(0), Pattern({2}), Malformed}
MCNoFlag == {Empty}
=============================================================================
