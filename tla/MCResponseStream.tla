---------------------------- MODULE MCResponseStream ----------------------------
EXTENDS ResponseStream, SequencesExt

Text(t, name, value) == [t |-> t, name |-> name, value |-> value]
Nl == Text("nl", "", <<>>)
Byte == Text("d", "", <<>>)
Field(name, value) == <<Text("header", name, value), Nl>>
Data(n) == [i \in 1..n |-> Byte]
Number == <<"0", "1", "2">>

Head1(version, fields) == <<Text("status", "", <<version>>), Nl>> \o FlattenSeq(fields) \o <<Nl>>
Chunk(n) == <<Text("size", "", <<Number[n + 1]>>), Nl>> \o Data(n) \o <<Nl>>
LastChunk(trailers) == <<Text("size", "", <<"0">>), Nl>> \o FlattenSeq(trailers) \o <<Nl>>

Plain(atoms) == [atoms |-> atoms, len |-> Len(atoms), malformed |-> FALSE, untilClose |-> FALSE]

Chunked == Field("Transfer-Encoding", <<"chunked">>)
Length(n) == Field("Content-Length", <<Number[n + 1]>>)
Other == Field("Host", <<"a">>)

WellFormed ==
  {Plain(Head1("HTTP/1.1", <<Length(n)>>) \o Data(n)) : n \in 0..2} \cup
  {Plain(Head1("HTTP/1.1", <<Other, Length(1), Length(1)>>) \o Data(1)),
   Plain(Head1("HTTP/1.1", <<Chunked>>) \o Chunk(2) \o Chunk(1) \o LastChunk(<<>>)),
   Plain(Head1("HTTP/1.1", <<Chunked>>) \o LastChunk(<<Other>>)),
   Plain(Head1("HTTP/1.1", <<Other>>)),
   Plain(Head1("HTTP/1.0", <<Length(2)>>) \o Data(2))}

\* The server sends more than the response, or ends it by closing.
Surplus == {[r EXCEPT !.atoms = @ \o <<Text("status", "", <<"HTTP/1.1">>), Nl>>] : r \in WellFormed}
UntilClosed ==
  {[Plain(Head1("HTTP/1.0", <<>>) \o Data(2)) EXCEPT !.untilClose = TRUE],
   [Plain(Head1("HTTP/1.1", <<Field("Content-Length", <<"x">>)>>) \o Data(2)) EXCEPT !.untilClose = TRUE]}
Malformed ==
  {[Plain(Head1("HTTP/1.1", <<Other, <<Text("ws", "", <<>>), Text("header", "Host", <<"b">>), Nl>>, Length(1)>>))
      EXCEPT !.malformed = TRUE],
   [Plain(Head1("HTTP/1.1", <<Chunked>>) \o <<Text("size", "", <<"x">>), Nl>>) EXCEPT !.malformed = TRUE]}

AllResponses == WellFormed \cup Surplus \cup UntilClosed \cup Malformed
=================================================================================
