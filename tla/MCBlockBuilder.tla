--------------------------- MODULE MCBlockBuilder ---------------------------
(* Instances of BlockBuilder.tla: calls a, b, c with labels of their own and *)
(* shared symbols, and d with the labels of b. The block's time is 2 to 8,   *)
(* two samples make a chunk. The first sample of a is too early; d's samples *)
(* are good, fall outside, are not in order, begin at 0, or are good with    *)
(* labels that are not sorted. Or no sample at all is in the block's time.   *)
EXTENDS BlockBuilder, TLC

MCRank    == "a" :> 3 @@ "b" :> 1 @@ "c" :> 2 @@ "d" :> 1
MCSymbols == "a" :> <<1, 4, 2, 5>> @@ "b" :> <<1, 3>> @@ "c" :> <<1, 3, 2, 4>>
             @@ "d" :> <<1, 3>>
Good(s)   == [samples |-> s, sorted |-> TRUE]
MCInputs  ==
    {"a" :> Good(<<1, 2, 4, 7>>) @@ "b" :> Good(<<3>>) @@ "c" :> Good(<<2, 5, 6>>) @@ "d" :> d :
        d \in {Good(<<7, 8>>), Good(<<1, 8, 9>>), Good(<<4, 4>>), Good(<<0, 3>>),
               [samples |-> <<6>>, sorted |-> FALSE]}}
    \cup {[c \in Calls |-> Good(<<1, 8>>)]}
==============================================================================
