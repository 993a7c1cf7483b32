---------------------------- MODULE MCTransports ----------------------------
(* Instance of Transports for TLC: a device with commands that share a       *)
(* prefix, abbreviations of them, and words with a slash and a plus sign.    *)
EXTENDS Transports

MCWords == {"show", "sh", "version", "vlan", "v", "ver", "gi0/1", "gi0", "1", "a+b", "a", "b", "+"}
MCTable == {<<"show", "version">>, <<"show", "vlan">>, <<"show", "gi0/1">>, <<"show", "v">>}
MCHasPrefix ==
    {<<w, w>> : w \in MCWords}
    \cup {<<"show", "sh">>, <<"version", "ver">>, <<"version", "v">>, <<"vlan", "v">>,
          <<"ver", "v">>, <<"gi0/1", "gi0">>, <<"a+b", "a">>}
MCSlashParts == [w \in MCWords |-> IF w = "gi0/1" THEN <<"gi0", "1">> ELSE <<w>>]
MCPlusParts == [w \in MCWords |-> IF w = "a+b" THEN <<"a", "b">> ELSE IF w = "+" THEN <<>> ELSE <<w>>]

Plain == {Tidy(<<"show", "version">>), Tidy(<<"sh", "v">>), Tidy(<<"show", "v">>), Tidy(<<"b">>)}
Odd == {Tidy(<<>>), Tidy(<<"show", "gi0/1">>), Tidy(<<"show", "a+b">>), [words |-> <<"show", "v">>, tidy |-> FALSE]}

\* Lines of separators alone.
Bare == {Tidy(<<"+">>), [words |-> <<>>, tidy |-> FALSE]}

MCPayloads ==
    {<<>>} \cup {<<l>> : l \in Plain \cup Odd} \cup {<<l, m>> : l \in Plain, m \in Plain}
    \cup {<<l, m>> : l \in Plain, m \in Odd} \cup {<<l>> : l \in Bare} \cup {<<Tidy(<<>>), Tidy(<<>>)>>}
=============================================================================
