----------------------------- MODULE MCDeriverHook -----------------------------
EXTENDS DeriverHook

Line(n, v) == [phase |-> "Header", name |-> n, value |-> v]

\* Two spellings of a token, equal and different lengths, malformed and empty
\* values, lists of tokens, and headers no matcher looks at.
Headers ==
  {Line("Content-Length", v) : v \in {<<"0">>, <<"2">>, <<"x">>, <<"">>}} \cup
  {Line("Transfer-Encoding", v) : v \in {<<"chunked">>, <<"Chunked">>, <<"gzip">>, <<"gzip", "chunked">>}} \cup
  {Line("Connection", v) : v \in {<<"close">>, <<"keep-alive">>, <<"upgrade", "Keep-Alive">>, <<"upgrade">>, <<"keep-alive", "close">>}} \cup
  {Line("Host", <<"a">>), Line("TE", <<"chunked">>)}

\* replace_header("Host", "b")
ReplacedNames == {"Host"}
ReplacedBy == <<"b">>
================================================================================
