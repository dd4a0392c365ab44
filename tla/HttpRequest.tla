---------------------------- MODULE HttpRequest ----------------------------
(***************************************************************************)
(* What the web server makes of the bytes of a request: parseRequest(),    *)
(* decodePath() and parseChunked() of src/apps/webserv/src/Http.cpp, and   *)
(* the choice of a location in Router.cpp.  All are functions of the       *)
(* whole input, and readClient() calls them again on a longer input after  *)
(* every recv().                                                           *)
(*                                                                         *)
(* Text is a sequence of symbols.  "N" stands for CR LF and takes one      *)
(* place; a line of the header is one symbol, named for what it says.      *)
(***************************************************************************)
EXTENDS Integers, Sequences, FiniteSets, SequencesExt

\* The pieces between the separators, empty ones included.
Grown(pieces, symbol, separator) ==
  IF symbol = separator THEN Append(pieces, <<>>)
  ELSE [pieces EXCEPT ![Len(pieces)] = Append(@, symbol)]
Split(text, separator) ==
  LET pieces[j \in 0..Len(text)] ==
        IF j = 0 THEN <<<<>>>> ELSE Grown(pieces[j - 1], text[j], separator)
  IN pieces[Len(text)]

\* Positions of a symbol from one on.
At(text, from, symbol) == {j \in from..Len(text) : text[j] = symbol}
Symbols(text) == {text[j] : j \in DOMAIN text}
First(S) == CHOOSE j \in S : \A other \in S : j <= other

(***************************************************************************)
(* decodePath()                                                            *)
(***************************************************************************)

\* "%" and two symbols, read as std::hex reads an unsigned number: none, or
\* the symbol of that value.  A sign is read too, and -n wraps to a byte above
\* 0x7f; "o" is any byte that means nothing here.
HexByte(a, b) ==
  CASE a = "2" /\ b = "e" -> {"."}
    [] a = "2" /\ b = "f" -> {"/"}
    [] OTHER -> IF a \in {"2", "e", "f", "-"} /\ b \in {"2", "e", "f"} THEN {"o"} ELSE {}

\* The text with its percent escapes replaced, as a set that is empty when
\* one of them is broken.
Before(symbols, texts) == UNION {{<<c>> \o t : t \in texts} : c \in symbols}
Unescaped(input) ==
  LET rest[j \in 1..Len(input) + 1] ==
        IF j > Len(input) THEN {<<>>}
        ELSE IF input[j] # "%" THEN Before({input[j]}, rest[j + 1])
        ELSE IF j + 2 > Len(input) THEN {}
        ELSE Before(HexByte(input[j + 1], input[j + 2]), rest[j + 3])
  IN rest[1]

Slash(text) == IF Last(text) = "/" THEN text ELSE Append(text, "/")

\* The path of the segments that count, each after a slash.
Below(path, segment) ==
  IF segment \in {<<>>, <<".">>} THEN path ELSE Slash(path) \o segment
Joined(segments) ==
  LET path[j \in 0..Len(segments)] ==
        IF j = 0 THEN <<"/">> ELSE Below(path[j - 1], segments[j])
  IN path[Len(segments)]

\* A decoded path in its shortest form, with a slash at the end when there was
\* one; none when a segment climbs.
\* Mutant: only the first segment is looked at for "..".
NormalisedFirst(decoded) ==
  LET segments == Split(Tail(decoded), "/")
      path == Joined(segments)
  IN IF segments[1] = <<".", ".">> THEN {}
     ELSE {IF Last(decoded) = "/" THEN Slash(path) ELSE path}
Normalised(decoded) ==
  LET segments == Split(Tail(decoded), "/")
      path == Joined(segments)
  IN IF \E j \in DOMAIN segments : segments[j] = <<".", ".">> THEN {}
     ELSE {IF Last(decoded) = "/" THEN Slash(path) ELSE path}

DecodePath(input) == UNION {Normalised(decoded) : decoded \in Unescaped(input)}

\* What is served has no empty, "." or ".." segment left, however the target
\* spelt them, and normalising it once more changes nothing.
PathIsCanonical(input) ==
  \A path \in DecodePath(input) :
    LET segments == Split(Tail(path), "/")
    IN /\ path[1] = "/"
       /\ \A j \in DOMAIN segments : segments[j] \notin {<<".">>, <<".", ".">>}
       /\ \A j \in 1..Len(segments) - 1 : segments[j] # <<>>
       /\ Normalised(path) = {path}

(***************************************************************************)
(* parseChunked()                                                          *)
(***************************************************************************)

\* size_t counts modulo Width, and numbers are written in base 2.  "F" stands
\* for the digits (or the "-2") of Width - 1, the size whose end wraps around
\* to where the chunk begins.
Width == 64
Digit == [d \in {"0", "1", "F"} |-> IF d = "0" THEN 0 ELSE IF d = "1" THEN 1 ELSE Width - 1]

\* The chunk size of a line without its extension: none when there is no
\* number, something after it, or more than a size_t.
Overflow == Width
ChunkSize(line) ==
  LET number == Split(line, ";")[1]
      value == FoldLeft(LAMBDA v, d : IF v >= Overflow \/ 2 * v + Digit[d] >= Width
                                      THEN Overflow ELSE 2 * v + Digit[d],
                        0, number)
  IN IF number = <<>> \/ \E j \in DOMAIN number : number[j] \notin DOMAIN Digit THEN {}
     ELSE {value} \ {Overflow}

Verdict(v, body) == [verdict |-> v, body |-> body]

\* Behind the last chunk: nothing more, or lines that all have a colon.
Trailers(input, from) ==
  LET blanks == {j \in At(input, from, "N") : j + 1 \in At(input, from, "N")}
      lines == Split(SubSeq(input, from, First(blanks) - 1), "N")
  IN IF from \in At(input, from, "N") THEN "done"
     ELSE IF blanks = {} THEN "more"
     ELSE IF \A j \in DOMAIN lines : At(lines[j], 1, ":") # {} THEN "done" ELSE "bad"

\* What the input must hold before a chunk is taken.
\* Mutant: the line end behind the chunk is not waited for.
NeedEarly(pos, size) == (pos + size) % Width
Need(pos, size) == (pos + size + 1) % Width

\* A chunk of the given size behind the size line that ends at "end"; after[j]
\* is what the input says from j on.
Chunk(input, end, size, after) ==
  LET next == ((end + size) % Width) + 1
      data == SubSeq(input, end + 1, IF end + size < Len(input) THEN end + size ELSE Len(input))
  IN IF size = 0 THEN Verdict(Trailers(input, end + 1), <<>>)
     ELSE IF Len(input) < Need(end, size) THEN Verdict("more", <<>>)
     ELSE IF next > Len(input) \/ input[next] # "N" THEN Verdict("bad", data)
     ELSE [after[next + 1] EXCEPT !.body = data \o @]

\* The loop of parseChunked(): a size line, the chunk and a line end, again.
\* "from" is the place of the next size line; the data begin at end + 1, which
\* is offset "end" for a reader that counts from 0.
Chunked(input) ==
  LET loop[from \in 1..Len(input) + 1] ==
        IF At(input, from, "N") = {} THEN Verdict("more", <<>>)
        ELSE LET end == First(At(input, from, "N"))
                 sizes == ChunkSize(SubSeq(input, from, end - 1))
             IN IF sizes = {} THEN Verdict("bad", <<>>)
                ELSE Chunk(input, end, CHOOSE n \in sizes : TRUE, loop)
  IN loop[1]

\* How a sender writes a list of one-symbol chunks.
Encoded(chunks) ==
  FoldLeft(LAMBDA out, c : out \o <<"1", "N", c, "N">>, <<>>, chunks) \o <<"0", "N", "N">>

\* Whatever is sent in chunks is received, also with other bytes behind it, and
\* not before its end.
ChunkedRoundTrip(chunks, behind) ==
  LET sent == Encoded(chunks)
  IN /\ Chunked(sent \o behind) = Verdict("done", chunks)
     /\ \A n \in 0..Len(sent) - 1 : Chunked(SubSeq(sent, 1, n)).verdict = "more"

(***************************************************************************)
(* parseRequest()                                                          *)
(***************************************************************************)

\* The symbols of a header: the request line and the header lines.
RequestLines == {"get", "post", "garbled", "old"}
HeaderLines == {"host", "len0", "len1", "len2", "len-", "chunked", "gzip", "nocolon"}
Length == [h \in {"len0", "len1", "len2"} |-> IF h = "len0" THEN 0 ELSE IF h = "len1" THEN 1 ELSE 2]

\* The name of a header line, which must not come twice.
Name(h) ==
  IF h \in {"chunked", "gzip"} THEN "transfer-encoding"
  ELSE IF h = "host" THEN "host" ELSE "content-length"

\* What parseRequest() says of the header alone: "" when it is acceptable.
HeaderVerdict(line, headers) ==
  LET names == {Name(headers[j]) : j \in DOMAIN headers}
  IN IF line = "garbled" THEN "bad"
     ELSE IF line = "old" THEN "version"
     ELSE IF \/ "nocolon" \in Symbols(headers)
             \/ Cardinality(names) # Len(headers)
             \/ "host" \notin names
             \/ {"transfer-encoding", "content-length"} \subseteq names
             \/ {"gzip", "len-"} \cap Symbols(headers) # {}
             \/ line = "post" /\ names = {"host"}
          THEN "bad" ELSE ""

\* The verdict on a body of a given length, as Content-Length announces it.
\* Mutant: what has arrived is taken for the body.
OfLengthAnyway(length, payload, maxBody) ==
  IF length > maxBody THEN Verdict("large", <<>>) ELSE Verdict("done", payload)
OfLength(length, payload, maxBody) ==
  IF length > maxBody THEN Verdict("large", <<>>)
  ELSE IF Len(payload) < length THEN Verdict("more", <<>>)
  ELSE Verdict("done", SubSeq(payload, 1, length))

\* And in chunks: a body that is too large is noticed before its end.
Limited(parsed, maxBody) ==
  IF parsed.verdict = "bad" THEN Verdict("bad", <<>>)
  ELSE IF Len(parsed.body) > maxBody THEN Verdict("large", <<>>)
  ELSE parsed
OfChunks(payload, maxBody) == Limited(Chunked(payload), maxBody)

\* A request whose header is complete.
WithHeader(line, headers, payload, maxBody) ==
  LET lengths == Symbols(headers) \cap DOMAIN Length
  IN IF HeaderVerdict(line, headers) # "" THEN Verdict(HeaderVerdict(line, headers), <<>>)
     ELSE IF "chunked" \in Symbols(headers) THEN OfChunks(payload, maxBody)
     ELSE OfLength(IF lengths = {} THEN 0 ELSE Length[CHOOSE h \in lengths : TRUE],
                   payload, maxBody)

ParseRequest(raw, maxBody, headerLimit) ==
  IF At(raw, 1, "end") = {}
  THEN Verdict(IF Len(raw) > headerLimit THEN "bad" ELSE "more", <<>>)
  ELSE LET end == First(At(raw, 1, "end"))
       IN IF end = 1 THEN Verdict("bad", <<>>)
          ELSE WithHeader(raw[1], SubSeq(raw, 2, end - 1), SubSeq(raw, end + 1, Len(raw)), maxBody)

\* readClient() acts on the first verdict that is not "more", and the kernel
\* decides after how many bytes that is.  It is undone when one symbol more
\* turns an accepted request into a refused one or the other way round, makes
\* a malformed one anything else, or changes the body of an accepted one.
Undone(before, now) ==
  /\ before.verdict # "more"
  /\ \/ (before.verdict = "done") # (now.verdict = "done")
     \/ before.verdict = "done" /\ before.body # now.body
     \/ before.verdict = "bad" /\ now.verdict # "bad"
SegmentationMatters(raw, maxBody, headerLimit) ==
  Undone(ParseRequest(Front(raw), maxBody, headerLimit),
         ParseRequest(raw, maxBody, headerLimit))

\* Http.cpp:193: a header longer than the limit is refused as long as its end
\* has not arrived, and taken when it arrives with its end.
HeaderTooLong(raw, headerLimit) ==
  At(raw, 1, "end") # {} /\ First(At(raw, 1, "end")) - 1 > headerLimit

\* Http.cpp:163: a line of a chunked body is a size whose end wraps around, so
\* that the chunk takes all that has arrived, and the next one begins again
\* behind the size line.
WrapsAround(raw) ==
  /\ "chunked" \in Symbols(raw)
  /\ LET lines == Split(SubSeq(raw, First(At(raw, 1, "end")) + 1, Len(raw)), "N")
     IN \E j \in DOMAIN lines : ChunkSize(lines[j]) = {Width - 1}

(***************************************************************************)
(* Router.cpp: matchLocation() and resolve()                               *)
(***************************************************************************)

\* A location's path must end where a segment of the request's path ends.
\* Mutant: any prefix of the path will do.
AtBoundaryAnywhere(prefix, path) == TRUE
AtBoundary(prefix, path) ==
  \/ prefix # <<>> /\ Last(prefix) = "/"
  \/ Len(path) = Len(prefix)
  \/ Len(path) > Len(prefix) /\ path[Len(prefix) + 1] = "/"

\* The longest location that matches, of equals the first.
Matches(location, path) == IsPrefix(location, path) /\ AtBoundary(location, path)
Better(best, location, path) ==
  IF Matches(location, path) /\ \A b \in best : Len(location) > Len(b)
  THEN {location} ELSE best
MatchLocation(locations, path) ==
  LET best[j \in 0..Len(locations)] ==
        IF j = 0 THEN {} ELSE Better(best[j - 1], locations[j], path)
  IN best[Len(locations)]

\* resolve(): the path below the location, with a slash in front.
Relative(location, path) ==
  LET rest == SubSeq(path, Len(location) + 1, Len(path))
  IN IF rest = <<>> \/ rest[1] # "/" THEN <<"/">> \o rest ELSE rest

\* The location found does not depend on the order of the configuration, its
\* segments are the first segments of the path, and appending what is relative
\* to it gives the path again, up to a slash between the two.
RoutingIsExact(locations, path) ==
  /\ MatchLocation(locations, path)
       = MatchLocation([j \in DOMAIN locations |-> locations[Len(locations) + 1 - j]], path)
  /\ \A location \in MatchLocation(locations, path) :
       LET whole == Split(path, "/")
           part == Split(location, "/")
           segments == IF Last(part) = <<>> THEN Front(part) ELSE part
       IN /\ segments = SubSeq(whole, 1, Len(segments))
          /\ LET below == Relative(location, path)
             IN \/ path = location \o below \/ path = location \o Tail(below)

=============================================================================
