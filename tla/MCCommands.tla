----------------------------- MODULE MCCommands -----------------------------
(* Instances of Commands for TLC.                                           *)
EXTENDS Commands, TLC

MCNumber ==
    "0" :> 0 @@ "1" :> 1 @@ "2" :> 2 @@ "3" :> 3 @@ "4" :> 4 @@ "5" :> 5 @@ "6" :> 6
    @@ "7" :> 7 @@ "8" :> 8 @@ "9" :> 9 @@ "10" :> 10 @@ "11" :> 11 @@ "60" :> 60 @@ "720" :>
    720 @@ "-721" :> -721 @@ "66256" :> 66256 @@ "1742487032" :> 1742487032 @@
    "1742487033" :> 1742487033 @@ "-1" :> -1 @@ "100" :> 100 @@ "101" :> 101

Ask(op, group, command, value) == FrameOf(0, op, group, command, value, <<>>)
NoParam == <<>>

Gets == {Ask("GET", k[1], k[2], NoParam) : k \in Known \cup {<<7, 3>>, <<11, 0>>}}

Sets ==
    {Ask("SET", 1, 8, <<w>>) : w \in {"0", "5", "USB"}}
    \cup {Ask("SET", 1, 9, p) : p \in {<<"USB">>, NoParam}}
    \cup {Ask("SET", 3, 0, p) : p \in {<<"1742487032">>, <<"1742487033">>, NoParam, <<"USB">>}}
    \cup {Ask("SET", 3, 1, p) : p \in {<<"66256">>, <<"-721">>, NoParam, <<"USB">>}}
    \cup {Ask("SET", 7, 1, p) : p \in {<<"0">>, <<"2">>, NoParam}}
    \cup {Ask("SET", 7, 2, p) : p \in {<<"10">>, NoParam, <<"USB">>}}
    \cup {Ask("SET", 8, 3, p) : p \in {<<"1">>, NoParam}}
    \cup {Ask("SET", 5, 1, NoParam)}

\* Reading commands with a parameter, an unknown operation, replies that come back.
Odd ==
    {Ask("GET", k[1], k[2], <<"1">>) : k \in {<<1, 8>>, <<3, 1>>, <<7, 1>>, <<5, 1>>, <<3, 0>>}}
    \cup {Ask("GET", 5, 1, <<w>>) : w \in {"USB", "0", "100", "101", "-1"}}
    \cup {Ask("GET", 5, 2, <<"1">>), Ask("SET", 5, 2, NoParam), Ask("PUT", 7, 1, <<"0">>)}
    \cup {Build(op, 1, 8, <<"0">>, <<>>) : op \in {"RES", "VAL", "ERR", "SEQ"}}
    \cup {Build(op, 7, 1, <<"0">>, <<>>) : op \in {"RES", "VAL"}}
    \cup {Build(op, 3, k, <<"60">>, <<"C">>) : op \in {"RES", "VAL"}, k \in {0, 1}}

MCRequests == Gets \cup Sets \cup Odd
MCCuts == {Ask("SET", 7, 1, <<"0">>)}
MCRadioed == {Ask("SET", 1, 9, <<"USB">>), Ask("SET", 7, 1, <<"0">>)}
MCSeconds == {Ask("SET", 1, 8, <<"0">>), Ask("SET", 7, 1, <<"0">>)}
=============================================================================
