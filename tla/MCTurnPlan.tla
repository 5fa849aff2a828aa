------------------------------ MODULE MCTurnPlan ------------------------------
EXTENDS TurnPlan, TLC

MCCalled == "o" :> <<"orkio", FALSE>> @@ "c" :> <<"chris", FALSE>>
    @@ "v" :> <<"chris", TRUE>> @@ "n" :> <<"orion", TRUE>> @@ "a" :> <<"aurora", FALSE>>

Says(mentions, words, board) == [mentions |-> mentions, words |-> words, board |-> board]

\* Nobody; everybody by "@time" and by a word; one; two in the other order; one
\* that only a mention can name, alone and beside a core agent.
MCMessage == {
    Says(<<>>, {}, FALSE), Says(<<"time">>, {}, FALSE), Says(<<>>, {}, TRUE),
    Says(<<>>, {"chris"}, FALSE), Says(<<"orion", "chris">>, {}, FALSE),
    Says(<<"aurora">>, {}, FALSE), Says(<<"aurora", "orion">>, {"orkio"}, FALSE)}
===============================================================================
