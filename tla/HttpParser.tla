----------------------------- MODULE HttpParser -----------------------------
(***************************************************************************)
(* The HTTP request parser of http_parser.hpp, fed by a connection that    *)
(* may cut the request anywhere: parse() is called with one chunk after    *)
(* another.                                                                *)
(*                                                                         *)
(* A request is a sequence of tokens,                                      *)
(*    method target version cr lf                                          *)
(*    name part part cr lf   (one such line per header)                    *)
(*    cr lf  body                                                          *)
(* and a chunk is any run of tokens: a header can be cut before, inside    *)
(* and after its value and inside its CRLF.  The characters of a token and *)
(* the checks on them are left out: requests are well formed.  Memory      *)
(* after a chunk holds no CR, since the receive buffer starts out zeroed   *)
(* and only the first chunk is read past its end.                          *)
(***************************************************************************)
EXTENDS Integers, Sequences, SequencesExt, FiniteSetsExt

CONSTANT
  Requests     \* the requests to be sent: records of RequestShape

Names == {"Length", "Type", "Other"}

Tokens ==
  Names \cup {"method", "target", "version", "cr", "lf", "part", "delim", "close", "data"}

StartLine == <<"method", "target", "version", "cr", "lf">>

Line(name) == <<name, "part", "part", "cr", "lf">>

EmptyLine == <<"cr", "lf">>

\* The lines of a sequence of headers, without the empty line.
Lines(names) ==
  [i \in 1..5 * Len(names) |-> Line(names[((i - 1) \div 5) + 1])[((i - 1) % 5) + 1]]

\* The data of an upload is anything without the boundary value.
DataTokens == Tokens \ {"delim", "close"}

\* The body of a form with one upload: the headers of the part and its data.
FormBody(names, data) ==
  <<"delim", "cr", "lf">> \o Lines(names) \o EmptyLine
    \o data \o <<"cr", "lf", "close", "cr", "lf">>

\* A request: its header names in order, the value of its Content-Type, the
\* value of its Content-Length (two digits, one per part) and its body, of
\* which no token is shorter than a byte.
RequestShape(r) ==
  /\ r.names \in Seq(Names) \ {<<>>}
  /\ r.type \in {"none", "json", "multipart", "unknown"}
  /\ r.length \in 0..99
  /\ r.type = "none" <=> "Type" \notin ToSet(r.names)
  /\ r.length > 0 => "Length" \in ToSet(r.names)
  /\ r.body \in Seq(Tokens) /\ Len(r.body) <= r.length
  /\ r.length > 0 <=> r.body # <<>>
  /\ r.type = "multipart" =>
       /\ r.part \in Seq(Names) /\ "Type" \in ToSet(r.part)
       /\ r.data \in Seq(DataTokens) \ {<<>>}
       /\ r.body = FormBody(r.part, r.data)

ASSUME RequestsAssumption == \A r \in Requests : RequestShape(r)

Bytes(r) == StartLine \o Lines(r.names) \o EmptyLine \o r.body

\* The tokens up to the end of the empty line, and in a form the tokens of its
\* body up to the end of the part's.
HeaderEnd(r) == Len(StartLine) + 5 * Len(r.names) + 2
PartEnd(r) == 3 + 5 * Len(r.part) + 2

VARIABLES
  request,    \* the request this connection sends
  sent,       \* tokens of it that were delivered
  first,      \* the size of the first chunk, 0 before
  verdict,    \* of the last call: "more", "error", "throws" or "finished"
  phase,      \* parse_phase_
  headers,    \* headers_: what is known of each header
  body,       \* body_ of the request returned
  upload,     \* multipart_buffer_
  readed,     \* buffer_size_readed_
  boundary    \* boundary_value_length_ is set

parserVars == <<verdict, phase, headers, body, upload, readed, boundary>>
vars == <<request, sent, first, parserVars>>

Phases == {"not_started", "parse_start_line", "parse_content_type_finished",
           "parse_body_pending", "parse_media_type", "parse_media_type_need_more",
           "finished"}

NoHeaders == [name \in Names |-> "absent"]

TypeOK ==
  /\ request \in Requests
  /\ sent \in 0..Len(Bytes(request)) /\ first \in 0..sent
  /\ verdict \in {"more", "error", "throws", "finished"}
  /\ phase \in Phases
  /\ headers \in [Names -> {"absent", "empty", "cut", "whole"}]
  /\ readed \in Nat
  /\ boundary \in BOOLEAN

Init ==
  /\ request \in Requests
  /\ sent = 0 /\ first = 0
  /\ verdict = "more"
  /\ phase = "not_started"
  /\ headers = NoHeaders
  /\ body = <<>> /\ upload = <<>> /\ readed = 0 /\ boundary = FALSE

-----------------------------------------------------------------------------
(* Where the parser stands in a chunk: its position, which can lie past the  *)
(* end Len(c) + 1 of chunk c, whether it has set ec, and the headers it read *)
(* on the way.  It does not stop at every error.                             *)
Stop(at, hs, error) == [at |-> at, headers |-> hs, error |-> error]

\* One header, and what is known of it.
Only(name, how) == [NoHeaders EXCEPT ![name] = how]

\* Mutant: the empty line is not seen when the chunk ends with it.
EmptyLineShort(c, q) == q + 1 < Len(c) /\ c[q] = "cr" /\ c[q + 1] = "lf"

EmptyLineAt(c, q) == q + 1 <= Len(c) /\ c[q] = "cr" /\ c[q + 1] = "lf"

\* The tokens from position q on.
Left(c, q) == Len(c) + 1 - q

\* What is known of a header of which so many tokens are there.
CutLine == <<"empty", "cut", "whole", "empty">>

(* The last line that is read begins at q.  A chunk that ends between two    *)
(* lines leaves the loop at the end without an error; cut anywhere else it   *)
(* steps over the end, with an error unless it is in or right after a value. *)
LastLine(c, q) ==
  IF Left(c, q) = 0 THEN Stop(Len(c) + 1, NoHeaders, FALSE)
  ELSE IF c[q] \notin Names THEN Stop(Len(c) + 2, NoHeaders, TRUE)
  ELSE IF Left(c, q) > 4 THEN Stop(q + 3, Only(c[q], "whole"), FALSE)
  ELSE Stop(Len(c) + 2, Only(c[q], CutLine[Left(c, q)]), Left(c, q) \in {1, 4})

\* Reading stops with the line at q.
EndsAt(c, q) == Left(c, q) < 5 \/ c[q] \notin Names \/ EmptyLineAt(c, q + 5)

(* parse_message_header from position p on, line by line up to the empty     *)
(* line.  headers.insert keeps the value that is there.                      *)
MessageHeader(c, p) ==
  LET lines == p..(Len(c) + 1) \cap {p + 5 * j : j \in 0..Len(c)}
      last  == Min({q \in lines : EndsAt(c, q)})
      stop  == LastLine(c, last)
      before == {c[q] : q \in {l \in lines : l < last}}
  IN IF p >= Len(c) + 1 THEN Stop(p, NoHeaders, TRUE)
     ELSE Stop(stop.at,
               [name \in Names |-> IF name \in before THEN "whole" ELSE stop.headers[name]],
               stop.error)

(* parse_content_type: a cut type is not recognised, but a multipart type is *)
(* complete without its boundary parameter.                                  *)
ContentType(hs) ==
  CASE hs["Type"] = "absent" -> "not_specified"
    [] hs["Type"] = "empty"  -> "unknown"
    [] hs["Type"] = "cut"    -> IF request.type = "multipart" THEN "multipart"
                                                             ELSE "unknown"
    [] hs["Type"] = "whole"  -> request.type

\* std::atoi of what was read of the header.
ContentLength(hs) ==
  CASE hs["Length"] = "whole" -> request.length
    [] hs["Length"] = "cut"   -> request.length \div 10
    [] OTHER                  -> 0

HasLength(hs) == hs["Length"] # "absent"

-----------------------------------------------------------------------------
(* What a call to parse() leaves: an exception goes past ec, an error past   *)
(* the result.                                                               *)
Outcome(v, ph, stop, bd, up, rd, bn) ==
  /\ verdict' = IF stop.error /\ v # "throws" THEN "error" ELSE v
  /\ phase' = ph /\ headers' = stop.headers
  /\ body' = bd /\ upload' = up /\ readed' = rd /\ boundary' = bn

Ends(v, ph, stop) == Outcome(v, ph, stop, body, upload, readed, boundary)

\* Mutant: the phase is not set to finished.
ParseBodyUnfinished(c, stop) ==
  IF stop.at > Len(c) + 1
  THEN Ends("throws", "parse_content_type_finished", stop)
  ELSE Outcome("more", phase, stop, SubSeq(c, stop.at, Len(c)), upload, readed, boundary)

(* parse_body: past the end of the chunk the body has a negative length, and *)
(* its copy throws.                                                          *)
ParseBody(c, stop) ==
  IF stop.at > Len(c) + 1
  THEN Ends("throws", "parse_content_type_finished", stop)
  ELSE Outcome("finished", "finished", stop, SubSeq(c, stop.at, Len(c)), upload,
               readed, boundary)

(* The first position from p on where the boundary value starts, or the end. *)
\* Its length is zero until it was read from the header, and found at once.
BoundaryAt(c, p, known) ==
  LET at == {q \in p..Len(c) : ~known \/ c[q] \in {"delim", "close"}}
  IN IF at = {} THEN Len(c) + 1 ELSE Min(at)

\* Mutant: the CRLF after the closing boundary is left in the chunk.
UploadEndShort(c, crlfs) == IF crlfs = {} THEN Len(c) + 1 ELSE Min(crlfs)

\* Mutant: the end of the chunk is not told from the end of the form.
UploadEndUnchecked(c, crlfs) == IF crlfs = {} THEN 0 ELSE Min(crlfs) + 2

UploadEnd(c, crlfs) == IF crlfs = {} THEN Len(c) + 1 ELSE Min(crlfs) + 2

\* Where the CRLFs after the boundary value are, and where the upload ends.
Crlfs(c, p, known) == {q \in BoundaryAt(c, p, known)..Len(c) : EmptyLineAt(c, q)}
EndFrom(c, p, known) == UploadEnd(c, Crlfs(c, p, known))

\* Neither the end of the form nor as much as Content-Length says was there.
FormOpen(c, stop, known) ==
  /\ Crlfs(c, stop.at, known) = {}
  /\ readed + (EndFrom(c, stop.at, known) - stop.at) < ContentLength(stop.headers)

TakeUpload(v, ph, c, stop, known) ==
  Outcome(v, ph, stop, body,
          upload \o SubSeq(c, stop.at, EndFrom(c, stop.at, known) - 1),
          readed + (EndFrom(c, stop.at, known) - stop.at), known)

(* parse_media_type_more.  From a position past the end of the chunk the     *)
(* negative difference makes buffer_size_readed_ wrap around, and reserve()  *)
(* throws.                                                                   *)
MediaMore(c, stop, known) ==
  LET Leave(v, ph) == Outcome(v, ph, stop, body, upload, readed, known)
  IN \/ ~HasLength(stop.headers) /\ Leave("more", "parse_media_type")
     \/ /\ HasLength(stop.headers)
        /\ \/ stop.at = Len(c) + 1 /\ Leave("more", "parse_media_type_need_more")
           \/ stop.at > Len(c) + 1 /\ Leave("throws", "parse_media_type")
           \/ /\ stop.at <= Len(c)
              /\ IF FormOpen(c, stop, known)
                 THEN TakeUpload("more", "parse_media_type_need_more", c, stop, known)
                 ELSE TakeUpload("finished", "finished", c, stop, known)

\* Mutant: one character more is consumed.
PartStartFar(at) == at + 5

\* "Consume Two CRLF": from the end of the part's last line to the part.
PartStart(at) == at + 4

\* The boundary before the first part, and what is read of its headers.
DelimAt(c, stop) == BoundaryAt(c, stop.at + 4, TRUE)
PartHeader(c, stop) == MessageHeader(c, DelimAt(c, stop) + 3)

(* parse_media_type_begin, up to the end of the headers of the first part:   *)
(* where it stops, still with the headers of the request.  Whichever way it  *)
(* returns, parse_media_type_more goes on from there.                        *)
MediaBegin(c, stop) ==
  IF stop.headers["Type"] = "cut" THEN Stop(stop.at, stop.headers, TRUE)
  ELSE IF stop.at + 4 > Len(c) + 1 THEN stop
  ELSE IF DelimAt(c, stop) \in {Len(c) - 1, Len(c) + 1}
  THEN Stop(Len(c) + 1, stop.headers, stop.error)
  ELSE Stop(IF PartHeader(c, stop).headers["Type"] = "absent"
            THEN PartHeader(c, stop).at ELSE PartStart(PartHeader(c, stop).at),
            stop.headers, stop.error \/ PartHeader(c, stop).error)

\* boundary_value_length_ is set once the empty line of the request was there.
BoundaryKnown(c, stop) ==
  stop.headers["Type"] = "whole" /\ stop.at + 4 <= Len(c) + 1

\* Mutant: an empty rest of the chunk waits, whatever Content-Length says.
PendingAlways(c, stop) == stop.at + 4 >= Len(c) + 1

\* Mutant: an off-by-one in the test for an empty rest.
PendingEager(c, stop) ==
  ContentLength(stop.headers) > 0 /\ stop.at + 4 > Len(c) + 1

\* The body is expected, and not in this chunk.
Pending(c, stop) ==
  ContentLength(stop.headers) > 0 /\ stop.at + 4 >= Len(c) + 1

(* parse() on the first chunk.  It must hold the start line.                 *)
ParseFirst(c) ==
  LET stop == MessageHeader(c, Len(StartLine) + 1)
      type == ContentType(stop.headers)
  IN IF Len(c) < Len(StartLine)
     THEN Ends("more", "parse_start_line", Stop(1, NoHeaders, TRUE))
     ELSE IF type = "unknown"
     THEN Ends("more", "parse_content_type_finished", [stop EXCEPT !.error = TRUE])
     ELSE IF Pending(c, stop) THEN Ends("more", "parse_body_pending", stop)
     ELSE IF type = "multipart" THEN MediaMore(c, MediaBegin(c, stop), BoundaryKnown(c, stop))
     ELSE ParseBody(c, stop)

(* parse() on a later one.  A multipart body that comes alone meets no case. *)
ParseNext(c) ==
  \/ /\ phase = "parse_body_pending"
     /\ IF ContentType(headers) = "multipart" THEN UNCHANGED parserVars
                                              ELSE ParseBody(c, Stop(1, headers, FALSE))
  \/ phase = "parse_media_type_need_more" /\ MediaMore(c, Stop(1, headers, FALSE), boundary)
  \/ phase = "parse_media_type" /\ UNCHANGED parserVars

(* The session stops reading once a call returned anything but "more".       *)
Receive(size) ==
  LET chunk == SubSeq(Bytes(request), sent + 1, sent + size)
  IN /\ verdict = "more"
     /\ sent + size <= Len(Bytes(request))
     /\ sent' = sent + size
     /\ IF phase = "not_started" THEN ParseFirst(chunk) /\ first' = size
                                 ELSE ParseNext(chunk) /\ UNCHANGED first
     /\ UNCHANGED request

Next == \E size \in 1..Len(Bytes(request)) : Receive(size)

Spec == Init /\ [][Next]_vars

-----------------------------------------------------------------------------
(* Properties *)

Simple == request.type \in {"none", "json"}
AllSent == sent = Len(Bytes(request))

(* No request with an ordinary body leaves the session waiting for ever:     *)
(* when all of it arrived, however it was cut, a call returned or threw.      *)
Decided == Simple /\ AllSent => verdict # "more"

(* A request without Content-Length is decided by the first chunk.           *)
DecidedAtOnce ==
  Simple /\ "Length" \notin ToSet(request.names) /\ first > 0 => verdict # "more"

(* If the first chunk holds the headers with their empty line, a supported   *)
(* request is not rejected and every header is known in full, wherever the   *)
(* rest is cut.                                                              *)
CutAfterHeaders ==
  Simple /\ first >= HeaderEnd(request) =>
    /\ verdict \in {"more", "finished"}
    /\ \A name \in ToSet(request.names) : headers[name] = "whole"

(* If the first chunk ends with the headers, a request with a body waits and *)
(* takes the next chunk as its body, all of it and nothing else.             *)
BodyOnItsOwn ==
  Simple /\ request.body # <<>> /\ first = HeaderEnd(request) =>
    IF sent = first
    THEN verdict = "more"
    ELSE verdict = "finished" /\ body = SubSeq(request.body, 1, sent - first)

(* A form whose part headers came with the first chunk is finished only with *)
(* all bytes of the part, up to the end of the closing boundary line, each   *)
(* of them once and in order, wherever the rest is cut.                      *)
UploadExact ==
  request.type = "multipart" /\ verdict = "finished"
    /\ first >= HeaderEnd(request) + PartEnd(request) =>
      upload = SubSeq(request.body, PartEnd(request) + 1, Len(request.body))

(* Such a form is neither rejected nor does the parser throw on it, and the  *)
(* upload holds at any time what arrived of the part, no byte lost or twice: *)
(* even if a cut in the closing line keeps the form waiting for ever.        *)
FormKept ==
  request.type = "multipart" /\ first >= HeaderEnd(request) + PartEnd(request) =>
    /\ verdict \in {"more", "finished"}
    /\ upload = SubSeq(Bytes(request), HeaderEnd(request) + PartEnd(request) + 1, sent)

(* Line 157, "We assume that the initial buffer always has the complete http *)
(* start line": that is all that is asked of the first chunk, so a finished  *)
(* request has all its headers.                                              *)
HeadersComplete ==
  verdict = "finished" => \A name \in ToSet(request.names) : headers[name] = "whole"
=============================================================================
