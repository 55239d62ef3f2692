-------------------------- MODULE MCHttpRequestStream --------------------------
EXTENDS HttpRequestStream

\* Three requests without a body.
Plain3 == << <<"rl", "nl", "h", "nl", "m", "nl", "nl">>,
               <<"rl", "nl", "nl">>,
               <<"rl", "nl", "m", "nl", "nl">> >>

\* A request with a body between two without.
WithBody == << <<"rl", "nl", "nl">>, <<"rl", "nl", "h", "nl", "nl", "b", "b">>, <<"rl", "nl", "nl">> >>

\* Bodies, a folded header and a stray empty line.
Mixed == << <<"rl", "nl", "m", "nl", "nl", "b">>,
            <<"nl", "rl", "nl", "nl">>,
            <<"rl", "nl", "ws", "h", "nl", "nl">> >>

Polite(script) == [script |-> script, pipelined |-> FALSE]
Hasty(script) == [script |-> script, pipelined |-> TRUE]

AllClients == {Polite(Plain3), Hasty(Mixed), Polite(WithBody)}
BodyClient == {Polite(WithBody)}
================================================================================
