----------------------------- MODULE MCWebserv -----------------------------
(***************************************************************************)
(* A small instance of the web server for TLC, and the texts its request   *)
(* functions are checked on.                                               *)
(***************************************************************************)
EXTENDS Webserv, HttpRequest

\* Targets "/..." with up to six symbols behind the slash.
MCTargets == {<<"/">> \o t : t \in BoundedSeq({"/", ".", "%", "2", "e", "f"}, 5)
                             \cup SeqOf({".", "%", "2", "e", "-"}, 6)}

MCBodies == BoundedSeq({"0", "1", "N", ":"}, 3)

\* parseChunked(): see ChunkedRoundTrip.
ChunksArriveWhole ==
  \A chunks \in MCBodies, behind \in BoundedSeq({"0", "1", "N"}, 2) :
    ChunkedRoundTrip(chunks, behind)

MCHeaders ==
  {<<line>> \o headers \o <<"end">> :
     line \in RequestLines, headers \in BoundedSeq(HeaderLines, 3)}
MCPayloads == BoundedSeq({"0", "1", "N", ":"}, 6) \cup BoundedSeq({"0", "1", "F", "N"}, 6)
MCRequests ==
  MCHeaders \cup {<<"post", "host", h, "end">> \o payload :
                    h \in {"len1", "len2"}, payload \in BoundedSeq({"1"}, 3)}
  \cup {<<"post", "host", "chunked", "end">> \o payload : payload \in MCPayloads}
MCBodyLimits == 0..3
MCHeaderLimits == 2..4

\* Where a request is cut matters in two cases only, and in each of them it does.
Excused(raw, headerLimit) == HeaderTooLong(raw, headerLimit) \/ WrapsAround(raw)
EveryRequest ==
  /\ \A raw \in MCRequests, maxBody \in MCBodyLimits, headerLimit \in MCHeaderLimits :
       SegmentationMatters(raw, maxBody, headerLimit) => Excused(raw, headerLimit)
  /\ \E raw \in MCRequests : SegmentationMatters(raw, 1, 2) /\ ~WrapsAround(raw)
  /\ \E raw \in MCRequests : SegmentationMatters(raw, 3, 4) /\ ~HeaderTooLong(raw, 4)
  /\ ChunksArriveWhole

MCPaths == {<<"/">> \o t : t \in BoundedSeq({"/", "a", "b"}, 4)}
MCLocations == {<<"/">> \o t : t \in BoundedSeq({"/", "a"}, 2)}

EveryTarget ==
  /\ \A target \in MCTargets : PathIsCanonical(target)
  /\ \A a, b, c \in MCLocations :
       a # b /\ a # c /\ b # c =>
         \A path \in MCPaths : RoutingIsExact(<<a, b, c>>, path)

(***************************************************************************)
(* TLC evaluates the definitions without a parameter once; the invariants  *)
(* call for them where the text is used.                                   *)
(***************************************************************************)

\* What a request says does not depend on where recv() cuts it, whatever the
\* limits, unless its header is longer than the limit (Http.cpp:193) or a chunk
\* size wraps around (Http.cpp:163): there it does depend on it.  And a body
\* sent in chunks is the one received: see SegmentationMatters.
RequestsAreDecidedOnce == pc = "scan" => EveryRequest

\* A target resolves to a path without detours, and that to the location
\* whose segments it begins with: see PathIsCanonical and RoutingIsExact.
TargetsAreResolved == pc = "scan" => EveryTarget

=============================================================================
