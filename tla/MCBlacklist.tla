---------------------------- MODULE MCBlacklist ----------------------------
(* All patterns of up to four characters, chosen longer ones, and pairs,   *)
(* on a small tree.                                                          *)
EXTENDS Blacklist

\* The characters of patterns and names, in the order of their codes.
Alphabet == <<"!", "*", "-", ".", "/", "?", "[", "\\", "]", "a", "b", "c">>
MCCode == [c \in Range(Alphabet) |-> CHOOSE i \in DOMAIN Alphabet : Alphabet[i] = c]

MCTree == << <<".">>, <<"a">>, <<"a", "/", "b">>, <<"a", "a", "b">>, <<"a", "b">>,
             <<"b">>, <<"b", "-">> >>
MCDirs == {<<".">>, <<"a">>}

\* ab leads to a/b, which is visited and removed before it; b- leads nowhere;
\* aab leads to a file that is never removed before it.
MCLinks == (<<"a", "b">> :> {<<"a">>, <<"a", "/", "b">>})
           @@ (<<"b", "-">> :> {<<"c">>}) @@ (<<"a", "a", "b">> :> {<<"b">>})

Symbols == {"*", "?", "[", "]", "!", "-", "\\", "a", "b"}

Longer == { <<"*", "a", "b", "*">>, <<"*", "b", "*", "b">>, <<"*", "a", "*", "b">>,
            <<"[", "a", "-", "c", "]", "*">>, <<"[", "!", "a", "]", "*">>,
            <<"[", "!", "b", "-", "c", "]", "*", "b">>, <<"*", "[", "-", "]">>,
            <<"b", "[", "\\", "-", "]">>, <<"[", "c", "-", "a", "]">>,
            <<"[", "*", "]", "*", "b">>, <<"a", "[", "*", "/", "]", "b">>,
            <<"*", "[", "\\", "]", "b", "]">>, <<"a", "?", "b", "[", "a">>,
            <<"a", "/", "*">>, <<".", "*">>, <<"*", "a", "?", "*", "?">> }

Pairs == { <<p, q>> : p \in {<<"a", "?">>, <<"b", "[">>, <<"*", "b">>},
                      q \in {<<"a">>, <<"[", "a">>, <<"\\", "b">>, <<"*", "-">>} }

MCBlacklists == {<<>>} \union Pairs
                \union { <<p>> : p \in Longer \union UNION {[1..n -> Symbols] : n \in 0..4} }

=============================================================================
