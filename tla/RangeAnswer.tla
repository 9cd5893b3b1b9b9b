---------------------------- MODULE RangeAnswer ----------------------------
(***************************************************************************)
(* How BundleProtocol answers a request that carries a Range header        *)
(* (packages/core/src/protocol/bundle.rs).  An asset of `len` bytes is     *)
(* named by its offsets 0 .. len - 1.  A header is a sequence of range     *)
(* specifications, as the http_range crate distinguishes them:             *)
(*    "closed"  bytes=first-last      "open"  bytes=first-                 *)
(*    "suffix"  bytes=-count          "bad"   anything it cannot parse     *)
(* Lengths are u64: arithmetic is modulo WORD, as in a release build.      *)
(***************************************************************************)
EXTENDS Integers, Sequences

CONSTANTS MAX_LEN,   \* the most bytes one range may carry (1000 * 1024)
          WORD       \* 2^64

ASSUME RangeAssumption == MAX_LEN \in Nat \ {0} /\ WORD \in Nat \ {0}

Least(S) == CHOOSE x \in S : \A y \in S : x <= y

Closed(first, last) == [kind |-> "closed", first |-> first, last |-> last]
Open(first) == [kind |-> "open", first |-> first, last |-> 0]
Suffix(count) == [kind |-> "suffix", first |-> 0, last |-> count]
Malformed == [kind |-> "bad", first |-> 0, last |-> 0]

-----------------------------------------------------------------------------
(* http_range: what HttpRange::parse makes of one specification            *)

\* A specification that starts behind the asset, or asks for its last 0
\* bytes, selects nothing and is dropped.
Overlaps(spec, len) ==
    IF spec.kind = "suffix" THEN spec.last > 0 ELSE spec.first < len

\* Whether the first byte lies in the asset is looked at before the last one.
IsMalformed(spec, len) ==
    \/ spec.kind = "bad"
    \/ spec.kind = "closed" /\ spec.first < len /\ spec.last < spec.first

\* The start and the length of the selected bytes, clamped to the asset.  The
\* suffix of an empty asset is the empty range at 0.
Selected(spec, len) ==
    CASE spec.kind = "suffix" -> LET count == Least({spec.last, len})
                                 IN  [start |-> len - count, length |-> count]
      [] spec.kind = "open"   -> [start |-> spec.first, length |-> len - spec.first]
      [] OTHER -> [start |-> spec.first,
                   length |-> Least({spec.last, len - 1}) - spec.first + 1]

-----------------------------------------------------------------------------
(* handle_inner                                                            *)

\* Mutated form: the end is one past the last byte.
InclusiveOfLength(range) ==
    [start |-> range.start, end |-> (range.start + range.length) % WORD]

\* An inclusive range, from a start and a length: u64 arithmetic, so that
\* length 0 at 0 gives the largest u64 as the end.
Inclusive(range) ==
    [start |-> range.start, end |-> (range.start + range.length - 1) % WORD]

Unsatisfiable(part, len) ==
    part.start >= len \/ part.end >= len \/ part.end < part.start

\* Mutated form: one byte too many.
AdjustEndLong(start, end, len) ==
    start + Least({end - start, len - start, MAX_LEN})

AdjustEnd(start, end, len) == start + Least({end - start, len - start, MAX_LEN - 1})

Adjusted(part, len) == [part EXCEPT !.end = AdjustEnd(part.start, part.end, len)]

NotSatisfiable == [status |-> 416, parts |-> {}, multipart |-> FALSE, contentLength |-> 0]

PartialContent(parts, multipart, contentLength) ==
    [status |-> 206, parts |-> parts, multipart |-> multipart, contentLength |-> contentLength]

\* The answer to one range: its Content-Length is that of the part.
SinglePart(part, len) ==
    IF Unsatisfiable(part, len)
    THEN NotSatisfiable
    ELSE LET sent == Adjusted(part, len)
         IN  PartialContent({sent}, FALSE, sent.end + 1 - sent.start)

\* The answer to no range or to several: the unsatisfiable ones are left out
\* and the Content-Length stays the one of the whole asset.
MultiPart(parts, len) ==
    PartialContent({Adjusted(p, len) : p \in {q \in parts : ~ Unsatisfiable(q, len)}}, TRUE, len)

RangeAnswerTo(header, len) ==
    LET kept == {i \in DOMAIN header : Overlaps(header[i], len)}
        part(i) == Inclusive(Selected(header[i], len))
    IN  IF \/ \E i \in DOMAIN header : IsMalformed(header[i], len)
           \/ kept = {} /\ header # <<>>
        THEN NotSatisfiable
        ELSE IF \E i \in kept : kept = {i}
             THEN SinglePart(part(CHOOSE i \in kept : TRUE), len)
             ELSE MultiPart({part(i) : i \in kept}, len)

-----------------------------------------------------------------------------
\* Mutated form: the right number of bytes, from the top.
ExtractBufFromTop(data, start, end) ==
    IF start > end \/ end + 1 > Len(data) THEN <<>> ELSE SubSeq(data, 1, end + 1 - start)

\* What extract_buf compares: both bounds, clamped to the data.
IsEmptySlice(data, start, end) ==
    LET lastIndex == IF Len(data) = 0 THEN 0 ELSE Len(data) - 1
    IN  Least({start, Len(data)}) > Least({end, lastIndex})

\* The slice is taken with the bounds as they are: a panic where it exceeds the data.
ExtractBufPanics(data, start, end) == ~ IsEmptySlice(data, start, end) /\ end + 1 > Len(data)

\* extract_buf: the bytes from start to end of the data read from the bundle
\* (a sequence, indexed from 1).
ExtractBuf(data, start, end) ==
    IF IsEmptySlice(data, start, end) \/ ExtractBufPanics(data, start, end)
    THEN <<>> ELSE SubSeq(data, start + 1, end + 1)
=============================================================================
