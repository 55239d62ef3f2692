------------------------------ MODULE HttpDerive ------------------------------
(***************************************************************************)
(* The derive system: DeriverSession (train_track/src/atom/derive.rs) with *)
(* the matchers and formulas of carriage/src/http/derive.rs.               *)
(*                                                                         *)
(* A line of a message is what the matchers tell apart: its phase, the     *)
(* name of the header (names are compared without case) and its value, the *)
(* trimmed, comma-separated tokens as they are spelled. Option<Bytes> is a *)
(* set with at most one value.                                             *)
(***************************************************************************)
EXTENDS Naturals, Sequences

Matcher == {"Content-Length", "Transfer-Encoding", "Connection", "RequestLineVersion"}

\* MatchAtom::phase
MatcherPhase(m) == IF m = "RequestLineVersion" THEN "RequestLine" ELSE "Header"

\* MatchAtom::try_match
TryMatch(m, line) ==
  IF m = "RequestLineVersion" \/ line.name = m THEN {line.value} ELSE {}

\* DeriverSession::new; duplicate matchers were removed.
NewSession == [results |-> [m \in Matcher |-> {}], conflicts |-> {}]

\* A variant that keeps only the conflicts of the last line.
FeedForgets(session, line) ==
  LET hit(m) == IF MatcherPhase(m) = line.phase THEN TryMatch(m, line) ELSE {}
  IN [results   |-> [m \in Matcher |-> IF session.results[m] = {} THEN hit(m) ELSE session.results[m]],
      conflicts |-> {m \in Matcher : session.results[m] # {} /\ ~(hit(m) \subseteq session.results[m])}]

\* DeriverSession::feed: the first match is kept, a later one that differs is
\* a conflict.
Feed(session, line) ==
  LET hit(m) == IF MatcherPhase(m) = line.phase THEN TryMatch(m, line) ELSE {}
  IN [results   |-> [m \in Matcher |-> IF session.results[m] = {} THEN hit(m) ELSE session.results[m]],
      conflicts |-> session.conflicts \cup
                      {m \in Matcher : session.results[m] # {} /\ ~(hit(m) \subseteq session.results[m])}]

-----------------------------------------------------------------------------
(* Formulas. Tokens are compared without case. *)

Spellings == [chunked |-> {"chunked", "Chunked"}, close |-> {"close", "Close"},
              keep_alive |-> {"keep-alive", "Keep-Alive"}]

HasToken(value, token) == \E i \in 1..Len(value) : value[i] \in Spellings[token]

\* The Content-Length values that parse as usize; the others are malformed.
ContentLengths == { << <<"0">>, 0 >>, << <<"1">>, 1 >>, << <<"2">>, 2 >> }
Parses(value) == \E p \in ContentLengths : p[1] = value
ParsedLength(value) == (CHOOSE p \in ContentLengths : p[1] = value)[2]

IsHttp10(version) == version = {<<"HTTP/1.0">>}

Framing(mode, len) == [mode |-> mode, len |-> len]

\* BodyFramingFormula::resolve
BodyFraming(session) ==
  LET cl == session.results["Content-Length"]
      te == session.results["Transfer-Encoding"]
  IN IF \E v \in te : HasToken(v, "chunked") THEN Framing("Chunked", 0)
     ELSE IF \E v \in cl : Parses(v) THEN Framing("Fixed", ParsedLength(CHOOSE v \in cl : TRUE))
     ELSE IF cl # {} THEN Framing("Invalid", 0)
     ELSE IF IsHttp10(session.results["RequestLineVersion"]) THEN Framing("UntilClose", 0)
     ELSE Framing("None", 0)

\* ConnectionFormula::resolve
ConnectionMode(session) ==
  LET connection == session.results["Connection"]
  IN IF \E v \in connection : HasToken(v, "close") THEN "Close"
     ELSE IF \E v \in connection : HasToken(v, "keep_alive") THEN "KeepAlive"
     ELSE IF IsHttp10(session.results["RequestLineVersion"]) THEN "Close"
     ELSE "KeepAlive"

\* HttpDerivationInput::resolve_all
HasConflicts(session) == session.conflicts # {}
ClTeConflict(session) ==
  session.results["Content-Length"] # {} /\ session.results["Transfer-Encoding"] # {}
===============================================================================
