------------------------------ MODULE Response ------------------------------
(***************************************************************************)
(* The incremental response decoder, src/protocol/response.rs, fed by      *)
(* Connection::read_response with whatever pieces the socket returns: the  *)
(* bytes of a response arrive in any segmentation, empty pieces included   *)
(* (the feed after WouldBlock), and the stream may end anywhere.           *)
(*                                                                         *)
(* A byte is "CR", "LF", a hexadecimal digit "0" to "2", "+", ";", "bad",  *)
(* one that no UTF-8 text has, or "x", which stands for any other.  What   *)
(* the text of a header says is a field of the response: only its end and  *)
(* its length depend on the bytes.                                         *)
(***************************************************************************)
EXTENDS Integers, Sequences, FiniteSetsExt

CONSTANTS
  Responses,   \* what servers send: [bytes, head, no_body]
  NoLength,    \* a head without a usable Content-Length
  MaxHeader,   \* MAX_HEADER_BYTES
  MaxSize      \* usize::MAX, the greatest size of a chunk

Bytes == {"CR", "LF", "0", "1", "2", "+", ";", "bad", "x"}
Heads == [valid : BOOLEAN, chunked : BOOLEAN, length : Nat \cup {NoLength}]

ASSUME ResponsesAssumption ==
  \A r \in Responses : r.bytes \in Seq(Bytes) /\ r.head \in Heads /\ r.no_body \in BOOLEAN
ASSUME NoLengthAssumption == NoLength \notin Nat
ASSUME MaxHeaderAssumption == MaxHeader \in Nat \ {0}
ASSUME MaxSizeAssumption == MaxSize \in Nat

VARIABLES
  response,   \* the response on its way
  sent,       \* bytes of it that were read
  ended,      \* the read returned 0
  header,     \* ResponseDecoder::header
  body,       \* BodyDecoder: [kind, remaining, total, phase, buffer]
  pc,         \* "ready", or "chunks" inside the loop of ChunkedDecoder::feed
  outcome     \* of the last feed: "waiting", "complete", "invalid", "too long" or
              \* "incomplete" (an unexpected end)

vars == <<response, sent, ended, header, body, pc, outcome>>

(***************************************************************************)
(* find_bytes, and what a size line says.                                  *)
(***************************************************************************)
CRLF == <<"CR", "LF">>
EmptyLine == CRLF \o CRLF

Positions(s, needle) ==
  {i \in 1..(Len(s) - Len(needle) + 1) : SubSeq(s, i, i + Len(needle) - 1) = needle}

\* The number of bytes before the needle.
find_bytes(s, needle) == Min(Positions(s, needle)) - 1

Drop(s, n) == SubSeq(s, n + 1, Len(s))

Digit == [d \in {"0", "1", "2"} |-> IF d = "0" THEN 0 ELSE IF d = "1" THEN 1 ELSE 2]

\* The text before the extensions, empty when the line is no UTF-8 text.
SizeText(line) ==
  IF \E i \in 1..Len(line) : line[i] = "bad" THEN <<>>
  ELSE IF Positions(line, <<";">>) = {} THEN line
  ELSE SubSeq(line, 1, find_bytes(line, <<";">>))

\* usize::from_str_radix: a sign may come before the digits.
Digits(text) == IF Len(text) > 1 /\ text[1] = "+" THEN Drop(text, 1) ELSE text

NumberOf(digits) ==
  LET value[i \in 0..Len(digits)] == IF i = 0 THEN 0 ELSE 16 * value[i - 1] + Digit[digits[i]]
  IN  value[Len(digits)]

SizeOf(text) == NumberOf(Digits(text))

AreDigits(digits) == digits # <<>> /\ \A i \in 1..Len(digits) : digits[i] \in DOMAIN Digit

IsSize(text) == AreDigits(Digits(text)) /\ SizeOf(text) <= MaxSize

(***************************************************************************)
(* parse_response_head.                                                    *)
(***************************************************************************)
IsHead(text) == response.head.valid /\ text # <<>> /\ text[1] = "x"

Framing(head) ==
  IF head.chunked THEN "chunked"
  ELSE IF head.length # NoLength THEN "length" ELSE "close"

Waiting == [kind |-> "waiting", remaining |-> 0, total |-> 0, phase |-> "size", buffer |-> <<>>]

NewBody ==
  IF response.no_body THEN [Waiting EXCEPT !.kind = "length"]
  ELSE IF Framing(response.head) = "length"
  THEN [Waiting EXCEPT !.kind = "length", !.remaining = response.head.length]
  ELSE [Waiting EXCEPT !.kind = Framing(response.head)]

Init ==
  /\ response \in Responses
  /\ sent = 0
  /\ ended = FALSE
  /\ header = <<>>
  /\ body = Waiting
  /\ pc = "ready"
  /\ outcome = "waiting"

(***************************************************************************)
(* BodyDecoder::consume.  A chunked body goes on to the loop of its        *)
(* decoder, one action per iteration.                                      *)
(***************************************************************************)
Unfinished(eof) == IF eof THEN "incomplete" ELSE "waiting"

Less(a, b) == IF a <= b THEN a ELSE b

ConsumeLength(b, data, eof) ==
  /\ b.kind = "length"
  /\ LET consumed == Less(Len(data), b.remaining)
     IN  body' = [b EXCEPT !.remaining = @ - consumed, !.total = @ + consumed]
  /\ outcome' = IF body'.remaining = 0 THEN "complete" ELSE Unfinished(eof)
  /\ pc' = "ready"

ConsumeToClose(b, data, eof) ==
  /\ b.kind = "close"
  /\ body' = [b EXCEPT !.total = @ + Len(data)]
  /\ outcome' = IF eof THEN "complete" ELSE "waiting"
  /\ pc' = "ready"

ConsumeChunks(b, data) ==
  /\ b.kind = "chunked"
  /\ body' = [b EXCEPT !.buffer = @ \o data]
  /\ pc' = "chunks"
  /\ UNCHANGED outcome

consume(b, data, eof) ==
  ConsumeLength(b, data, eof) \/ ConsumeToClose(b, data, eof) \/ ConsumeChunks(b, data)

(***************************************************************************)
(* ResponseDecoder::feed.                                                  *)
(***************************************************************************)
Refuse(how) == outcome' = how /\ pc' = "ready" /\ UNCHANGED body

FeedHead(data, eof) ==
  LET all == header \o data
      end == find_bytes(all, EmptyLine)
  IN  \/ /\ Positions(all, EmptyLine) = {}
         /\ header' = all
         /\ Refuse(IF Len(all) > MaxHeader THEN "too long" ELSE Unfinished(eof))
      \/ /\ Positions(all, EmptyLine) # {}
         /\ end > MaxHeader
         /\ header' = all
         /\ Refuse("too long")
      \/ /\ Positions(all, EmptyLine) # {}
         /\ end <= MaxHeader
         /\ header' = SubSeq(all, 1, end)
         /\ IF IsHead(header') THEN consume(NewBody, Drop(all, end + 4), eof)
            ELSE Refuse("invalid")

feed(data, eof) ==
  IF body.kind = "waiting" THEN FeedHead(data, eof)
  ELSE consume(body, data, eof) /\ UNCHANGED header

\* read_response: the next n bytes, none at all after WouldBlock, ...
Read(n) ==
  /\ pc = "ready" /\ outcome = "waiting" /\ ~ended
  /\ feed(SubSeq(response.bytes, sent + 1, sent + n), FALSE)
  /\ sent' = sent + n
  /\ UNCHANGED <<response, ended>>

\* ... or the end of the stream.
ReadEnd ==
  /\ pc = "ready" /\ outcome = "waiting" /\ ~ended
  /\ ended' = TRUE
  /\ feed(<<>>, TRUE)
  /\ UNCHANGED <<response, sent>>

(***************************************************************************)
(* ChunkedDecoder::feed: one iteration of its loop.                        *)
(***************************************************************************)
Continue == pc' = pc /\ UNCHANGED outcome
Break == pc' = "ready" /\ outcome' = Unfinished(ended)
Return(how) == pc' = "ready" /\ outcome' = how

\* Mutant of CheckControlSize: no limit while the line is incomplete.
CheckControlSize_Never == UNCHANGED body /\ Break

CheckControlSize ==
  UNCHANGED body /\ IF Len(body.buffer) > MaxHeader THEN Return("too long") ELSE Break

Size ==
  /\ body.phase = "size"
  /\ IF Positions(body.buffer, CRLF) = {} THEN CheckControlSize
     ELSE LET end == find_bytes(body.buffer, CRLF)
              text == SizeText(SubSeq(body.buffer, 1, end))
          IN  IF end > MaxHeader THEN UNCHANGED body /\ Return("too long")
              ELSE IF ~IsSize(text) THEN UNCHANGED body /\ Return("invalid")
              ELSE /\ body' = [body EXCEPT
                                 !.buffer = Drop(@, end + 2),
                                 !.remaining = SizeOf(text),
                                 !.phase = IF SizeOf(text) = 0 THEN "trailers" ELSE "data"]
                   /\ Continue

\* Mutant of Data: the loop goes on when there was nothing to consume.
Data_NoBreak ==
  /\ body.phase = "data"
  /\ LET consumed == Less(Len(body.buffer), body.remaining)
     IN  body' = [body EXCEPT !.buffer = Drop(@, consumed),
                              !.total = @ + consumed,
                              !.remaining = @ - consumed,
                              !.phase = IF consumed = body.remaining THEN "ending" ELSE "data"]
  /\ Continue

Data ==
  /\ body.phase = "data"
  /\ LET consumed == Less(Len(body.buffer), body.remaining)
     IN  /\ body' = [body EXCEPT !.buffer = Drop(@, consumed),
                                 !.total = @ + consumed,
                                 !.remaining = @ - consumed,
                                 !.phase = IF consumed = body.remaining THEN "ending" ELSE "data"]
         /\ IF consumed = 0 THEN Break ELSE Continue

\* Mutant of DataEnding: a lone CR is taken for the whole line end.
DataEnding_LoneCR ==
  /\ body.phase = "ending"
  /\ IF body.buffer = <<>> THEN UNCHANGED body /\ Break
     ELSE IF body.buffer[1] # "CR" THEN UNCHANGED body /\ Return("invalid")
     ELSE body' = [body EXCEPT !.buffer = Drop(@, 2), !.phase = "size"] /\ Continue

DataEnding ==
  /\ body.phase = "ending"
  /\ IF Len(body.buffer) < 2 THEN UNCHANGED body /\ Break
     ELSE IF SubSeq(body.buffer, 1, 2) # CRLF THEN UNCHANGED body /\ Return("invalid")
     ELSE body' = [body EXCEPT !.buffer = Drop(@, 2), !.phase = "size"] /\ Continue

Trailers ==
  /\ body.phase = "trailers"
  /\ IF 1 \in Positions(body.buffer, CRLF) THEN UNCHANGED body /\ Return("complete")
     ELSE IF Positions(body.buffer, EmptyLine) # {}
     THEN /\ UNCHANGED body
          /\ Return(IF find_bytes(body.buffer, EmptyLine) > MaxHeader
                    THEN "too long" ELSE "complete")
     ELSE CheckControlSize

Chunks ==
  /\ pc = "chunks"
  /\ Size \/ Data \/ DataEnding \/ Trailers
  /\ UNCHANGED <<response, sent, ended, header>>

Next ==
  \/ \E n \in 0..(Len(response.bytes) - sent) : Read(n)
  \/ ReadEnd
  \/ Chunks

\* The loop is sequential code: it runs on once it is entered.
Spec == Init /\ [][Next]_vars /\ WF_vars(Chunks)

(***************************************************************************)
(* The reference: what the first bytes of a response amount to when they   *)
(* are looked at as a whole.                                               *)
(***************************************************************************)
Received == SubSeq(response.bytes, 1, sent)

Verdict(state, total) == [state |-> state, total |-> total]

\* A size line, or trailers, that start at `from` and have not ended yet.
More(q, from) == IF Len(q) - from + 1 > MaxHeader THEN "too long" ELSE "waiting"

PositionsFrom(q, needle, from) == {k \in Positions(q, needle) : k >= from}

\* The trailers that start at `from`.
WholeTrailers(q, from) ==
  LET ends == PositionsFrom(q, EmptyLine, from)
  IN  IF from \in Positions(q, CRLF) THEN "complete"
      ELSE IF ends = {} THEN More(q, from)
      ELSE IF Min(ends) - from > MaxHeader THEN "too long" ELSE "complete"

\* The `size` bytes of data at `from` and what follows them; chunk[i] is the verdict on
\* what starts with the size line at i.
WholeData(q, chunk, from, size) ==
  LET after == from + size
  IN  IF after + 1 > Len(q) THEN Verdict("waiting", Less(size, Len(q) - from + 1))
      ELSE IF after \notin Positions(q, CRLF) THEN Verdict("invalid", size)
      ELSE Verdict(chunk[after + 2].state, size + chunk[after + 2].total)

WholeSize(q, chunk, from) ==
  LET ends == PositionsFrom(q, CRLF, from)
      text == SizeText(SubSeq(q, from, Min(ends) - 1))
  IN  IF ends = {} THEN Verdict(More(q, from), 0)
      ELSE IF Min(ends) - from > MaxHeader THEN Verdict("too long", 0)
      ELSE IF ~IsSize(text) THEN Verdict("invalid", 0)
      ELSE IF SizeOf(text) = 0 THEN Verdict(WholeTrailers(q, Min(ends) + 2), 0)
      ELSE WholeData(q, chunk, Min(ends) + 2, SizeOf(text))

WholeChunks(q) ==
  LET chunk[i \in 1..(Len(q) + 1)] == WholeSize(q, chunk, i)
  IN  chunk

Whole(p) ==
  LET end == find_bytes(p, EmptyLine)
      q == Drop(p, end + 4)
      length == IF response.no_body THEN 0 ELSE response.head.length
  IN  IF Positions(p, EmptyLine) = {}
      THEN Verdict(IF Len(p) > MaxHeader THEN "too long" ELSE "waiting", 0)
      ELSE IF end > MaxHeader THEN Verdict("too long", 0)
      ELSE IF ~IsHead(SubSeq(p, 1, end)) THEN Verdict("invalid", 0)
      ELSE IF ~response.no_body /\ Framing(response.head) = "chunked" THEN WholeChunks(q)[1]
      ELSE IF ~response.no_body /\ Framing(response.head) = "close"
      THEN Verdict(IF ended THEN "complete" ELSE "waiting", Len(q))
      ELSE Verdict(IF Len(q) >= length THEN "complete" ELSE "waiting", Less(Len(q), length))

(***************************************************************************)
(* Properties.                                                             *)
(***************************************************************************)
\* However the bytes were cut into pieces, the decoder says of them, and counts, what they
\* amount to as a whole: complete with the last byte, not before, and with the same length.
AgreesWithWhole ==
  pc = "ready" =>
    LET whole == Whole(Received)
    IN  /\ outcome = IF ended /\ whole.state = "waiting" THEN "incomplete" ELSE whole.state
        /\ body.total = whole.total

\* Between two reads a decoder that goes on holds at most MaxHeader bytes.
BufferIsBounded ==
  pc = "ready" /\ outcome = "waiting" =>
    Len(header) <= MaxHeader /\ Len(body.buffer) <= MaxHeader

\* Every feed returns: no piece makes the chunk loop go round without consuming.
FeedReturns == pc = "chunks" ~> pc = "ready"
=============================================================================
