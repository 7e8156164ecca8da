----------------------------- MODULE MCResponse -----------------------------
(***************************************************************************)
(* Response for TLC: every header over CR, LF and text that fits MaxBytes, *)
(* and every chunked body made of at most MaxTokens common tokens, or of  *)
(* at most MaxTokens - 1 when others are among them.                       *)
(***************************************************************************)
EXTENDS Response

CONSTANTS MaxBytes, MaxTokens

Plain == [valid |-> TRUE, chunked |-> FALSE, length |-> NoLength]
Tokens == {<<"1">> \o CRLF, <<"2">> \o CRLF, <<"0">> \o CRLF, <<"x">> \o CRLF, CRLF, <<"x">>}
\* Parts of a line end, an extension, and what else makes a size line unusual: a sign, a size
\* that is too large, no text.
AllTokens ==
  Tokens \cup {<<"CR">>, <<"LF">>, <<";", "x">>, <<"+">>, <<"1", "0">> \o CRLF, <<"bad">>}
Joined(ts) ==
  LET upTo[i \in 0..Len(ts)] == IF i = 0 THEN <<>> ELSE upTo[i - 1] \o ts[i]
  IN  upTo[Len(ts)]
UpTo(S, n) == UNION {[1..k -> S] : k \in 0..n}

\* Any bytes, read as a response with two bytes of body, with none, or with no valid head.
HeaderCases ==
  {[bytes |-> b, head |-> x[1], no_body |-> x[2]] :
     b \in UpTo({"x", "CR", "LF"}, MaxBytes),
     x \in ({[Plain EXCEPT !.length = 2]} \X BOOLEAN)
             \cup {<<[Plain EXCEPT !.valid = FALSE], FALSE>>}}

BodyCases ==
  {[bytes |-> <<"x">> \o EmptyLine \o Joined(ts), head |-> [Plain EXCEPT !.chunked = TRUE],
    no_body |-> FALSE] :
     ts \in UpTo(Tokens, MaxTokens) \cup UpTo(AllTokens, MaxTokens - 1)}

CloseCases ==
  {[bytes |-> <<"x">> \o EmptyLine \o b, head |-> Plain, no_body |-> FALSE] : b \in UpTo({"x"}, 2)}

SomeResponses == HeaderCases \cup BodyCases \cup CloseCases
=============================================================================
