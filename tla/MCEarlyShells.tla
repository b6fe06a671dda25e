---------------------------- MODULE MCEarlyShells -----------------------------
(* Two lines typed, of up to three commands; one read of lab4 takes five      *)
(* tokens, so that some lines are cut.                                         *)
EXTENDS EarlyShells

MCLines == {
    <<"nl">>, <<"quit", "nl">>, <<"jobs", "nl">>, <<"fg", "nl">>,
    <<"reader", "nl">>, <<"reader", "&", "nl">>,
    <<"writer", "|", "reader", "nl">>, <<"writer", "|", "head", "nl">>,
    <<"reader", "|", "reader", "&", "nl">>,
    <<"short", "|", "writer", "|", "reader", "nl">>, <<"missing", "|", "|", "reader", "nl">>,
    <<"short", "&", "|", "|", "|", "jobs", "nl">>, <<"short", "&", "|", "|", "|", "fg", "nl">>}
===============================================================================
