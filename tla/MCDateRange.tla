---------------------------- MODULE MCDateRange ----------------------------
(* An instance of DateRange.tla: days of 4, timestamps modulo 16. File a has *)
(* two archives with any two slots each, of retentions that reach back to    *)
(* some points, to all, or before the first day; b has three archives or is  *)
(* empty; c cannot be read; n does not match the filter.                     *)
EXTENDS DateRange, TLC

Archive(r, s) == [retention |-> r, slots |-> s]
Ring(T) == {s \in [1..2 -> T] : s[1] # s[2] \/ s[1] = 0}

AnyOfA ==
    {<<Archive(r[1], s), Archive(r[2], u)>> :
        r \in {<<2, 6>>, <<5, 14>>}, s \in Ring({0, 6, 7, 13}), u \in Ring({0, 1, 6, 8, 12})}
SomeOfA == {<<Archive(2, <<7, 6>>), Archive(6, <<6, 1>>)>>,
            <<Archive(5, <<0, 13>>), Archive(14, <<8, 1>>)>>}
OfB == {<<>>, <<Archive(2, <<0>>), Archive(4, <<0>>), Archive(8, <<6, 3, 5, 8>>)>>}

ContentOf(a, b) ==
    "a" :> a @@ "b" :> b @@ "c" :> <<>> @@ "n" :> <<Archive(8, <<15, 0>>)>>
Input(a, b, from, lines) ==
    [content |-> ContentOf(a, b), source |-> from, list |-> lines]

MCInputs ==
    {Input(a, <<>>, "own", {"a"}) : a \in AnyOfA}
    \cup {Input(a, b, s, {}) : a \in SomeOfA, b \in OfB, s \in {"walk", "file-list"}}
    \cup {Input(a, b, "own", l) :
            a \in SomeOfA, b \in OfB, l \in {{"a", "n"}, {"b", ""}, {"a", "b", "n"}, {}}}
==============================================================================
