------------------------------ MODULE MCClient ------------------------------
(* Client for TLC: the lines, which a configuration cannot express.         *)
EXTENDS Client

Tokens == {"long", "pwd", "ls", "mkdir", "a"}

\* Too long for a name; nothing; a command that must not have an argument, one
\* without and one with an argument.
LongLine == <<"long">>
Lines == {LongLine, <<>>, <<"pwd">>, <<"ls">>, <<"mkdir", "a">>}

\* Where a read may cut a word: an argument stays an argument, and the end of a
\* word may be a command.
HalvesOf ==
    [word \in Tokens |->
        CASE word = "long" -> {<<"a", "ls">>}
          [] word = "mkdir" -> {<<"a", "a">>}
          [] OTHER -> {}]
=============================================================================
