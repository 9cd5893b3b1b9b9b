---------------------------- MODULE WebviewProofs ----------------------------
(***************************************************************************)
(* Theorems about what a window sees: an asset that it reads in pieces,    *)
(* for every size, limit and header, and the schemes of an Electron app,   *)
(* for every set of schemes and calls.                                     *)
(***************************************************************************)
EXTENDS AssetStream, ElectronApp, SequenceTheorems, WellFoundedInduction, TLAPS

-----------------------------------------------------------------------------
(* The least of some numbers                                               *)

(* Every set of natural numbers that is not empty has a least one. *)
LEMMA LeastInSet ==
    ASSUME NEW S \in SUBSET Nat, S # {}
    PROVE  Least(S) \in S /\ \A y \in S : Least(S) <= y
  <1>1. \E x \in S : \A y \in S : ~ (<<y, x>> \in OpToRel(<, Nat))
    BY WFMin, NatLessThanWellFounded
  <1>2. \E x \in S : \A y \in S : x <= y
    <2>1. PICK x \in S : \A y \in S : ~ (<<y, x>> \in OpToRel(<, Nat))  BY <1>1
    <2>2. ASSUME NEW y \in S PROVE x <= y
      <3>1. ~ (y < x)  BY <2>1, <2>2 DEF OpToRel
      <3>2. QED  BY <3>1
    <2>3. QED  BY <2>2
  <1>3. QED  BY <1>2 DEF Least

LEMMA LeastOfTwo ==
    ASSUME NEW a \in Int, NEW b \in Int
    PROVE  Least({a, b}) = IF a <= b THEN a ELSE b
  <1>1. \E x \in {a, b} : \A y \in {a, b} : x <= y  OBVIOUS
  <1>2. Least({a, b}) \in {a, b} /\ \A y \in {a, b} : Least({a, b}) <= y  BY <1>1 DEF Least
  <1>3. QED  BY <1>2

LEMMA LeastOfThree ==
    ASSUME NEW a \in Int, NEW b \in Int, NEW c \in Int
    PROVE  /\ Least({a, b, c}) \in {a, b, c}
           /\ Least({a, b, c}) <= a /\ Least({a, b, c}) <= b /\ Least({a, b, c}) <= c
  <1>1. \E x \in {a, b, c} : \A y \in {a, b, c} : x <= y
    <2>1. CASE a <= b /\ a <= c  BY <2>1
    <2>2. CASE b <= a /\ b <= c  BY <2>2
    <2>3. CASE c <= a /\ c <= b  BY <2>3
    <2>4. QED  BY <2>1, <2>2, <2>3
  <1>2. QED  BY <1>1 DEF Least

-----------------------------------------------------------------------------
(* The answer to a header, for every header and every size                 *)

(* What a header may ask for: numbers of any size. *)
Specification == [kind : {"closed", "open", "suffix", "bad"}, first : Nat, last : Nat]

(* A part that lies in an asset of len bytes, and is not too long. *)
PartFits(p, len) ==
    /\ p.start \in Nat /\ p.end \in Nat
    /\ p.start <= p.end /\ p.end < len
    /\ p.end + 1 - p.start \in 1..MAX_LEN

(* The bounds handle_inner computes are numbers, also when they wrap. *)
LEMMA InclusiveType ==
    ASSUME NEW len \in Nat, NEW spec \in Specification, Overlaps(spec, len), ~ IsMalformed(spec, len)
    PROVE  Inclusive(Selected(spec, len)) \in [start : Nat, end : Int]
  <1>1. Selected(spec, len) \in [start : Nat, length : Int]
    <2>1. CASE spec.kind = "suffix"
      <3>1. Least({spec.last, len}) \in 0..len  BY LeastOfTwo DEF Specification
      <3>2. QED  BY <2>1, <3>1 DEF Selected
    <2>2. CASE spec.kind = "open"
      BY <2>2 DEF Selected, Specification
    <2>3. CASE spec.kind = "closed"
      <3>1. Least({spec.last, len - 1}) \in Int  BY LeastOfTwo DEF Specification
      <3>2. QED  BY <2>3, <3>1 DEF Selected, Specification
    <2>4. QED  BY <2>1, <2>2, <2>3 DEF IsMalformed, Specification
  <1>2. ASSUME NEW x \in Int PROVE x % WORD \in Int
    BY <1>2, RangeAssumption
  <1>3. QED  BY <1>1, <1>2 DEF Inclusive

(* A satisfiable part is cut so that it fits: this is where a wrong bound would show. *)
LEMMA AdjustedFits ==
    ASSUME NEW len \in Nat, NEW part \in [start : Nat, end : Int], ~ Unsatisfiable(part, len)
    PROVE  PartFits(Adjusted(part, len), len)
  <1> DEFINE cut == Least({part.end - part.start, len - part.start, MAX_LEN - 1})
  <1>1. part.start < len /\ part.end < len /\ part.start <= part.end
    BY DEF Unsatisfiable
  <1>2. cut \in 0..(MAX_LEN - 1) /\ cut <= part.end - part.start
    <2> DEFINE x == part.end - part.start
               y == len - part.start
               z == MAX_LEN - 1
    <2>1. x \in Nat /\ y \in Nat /\ z \in Nat /\ x \in Int /\ y \in Int /\ z \in Int
      BY <1>1, RangeAssumption
    <2> HIDE DEF x, y, z
    <2>2. /\ Least({x, y, z}) \in {x, y, z}
          /\ Least({x, y, z}) <= x /\ Least({x, y, z}) <= z
      BY <2>1, LeastOfThree, Zenon
    <2>3. Least({x, y, z}) \in 0..z /\ Least({x, y, z}) <= x  BY <2>1, <2>2
    <2>4. QED  BY <2>3 DEF x, y, z
  <1>3. Adjusted(part, len) = [start |-> part.start, end |-> part.start + cut]
    BY DEF Adjusted, AdjustEnd
  <1> HIDE DEF cut
  <1>4. QED  BY <1>1, <1>2, <1>3, RangeAssumption DEF PartFits

LEMMA SinglePartFits ==
    ASSUME NEW len \in Nat, NEW part \in [start : Nat, end : Int]
    PROVE  \A p \in SinglePart(part, len).parts :
              PartFits(p, len) /\ SinglePart(part, len).contentLength = p.end + 1 - p.start
  BY AdjustedFits DEF SinglePart, NotSatisfiable, PartialContent

LEMMA MultiPartFits ==
    ASSUME NEW len \in Nat, NEW parts \in SUBSET [start : Nat, end : Int]
    PROVE  /\ \A p \in MultiPart(parts, len).parts : PartFits(p, len)
           /\ MultiPart(parts, len).multipart
  BY AdjustedFits DEF MultiPart, PartialContent

(* Every part of every answer fits, and a single one has its length announced. *)
LEMMA AnswerFits ==
    ASSUME NEW len \in Nat, NEW header, \A i \in DOMAIN header : header[i] \in Specification,
           NEW a, a = RangeAnswerTo(header, len)
    PROVE  /\ \A p \in a.parts : PartFits(p, len)
           /\ a.status = 206 /\ ~ a.multipart => \A p \in a.parts : a.contentLength = p.end + 1 - p.start
  <1> DEFINE kept == {i \in DOMAIN header : Overlaps(header[i], len)}
             part(i) == Inclusive(Selected(header[i], len))
  <1>1. CASE a = NotSatisfiable
    BY <1>1 DEF NotSatisfiable
  <1>2. CASE a # NotSatisfiable
    <2>1. \A i \in DOMAIN header : ~ IsMalformed(header[i], len)
      BY <1>2 DEF RangeAnswerTo
    <2>2. \A i \in kept : part(i) \in [start : Nat, end : Int]
      BY <2>1, InclusiveType
    <2>3. CASE \E i \in kept : kept = {i}
      <3>1. PICK i \in kept : kept = {i}  BY <2>3
      <3> DEFINE only == part(CHOOSE j \in kept : TRUE)
      <3>2. a = SinglePart(only, len)
        BY <1>2, <2>3 DEF RangeAnswerTo
      <3>3. (CHOOSE j \in kept : TRUE) \in kept  BY <3>1
      <3>4. only \in [start : Nat, end : Int]  BY <2>2, <3>3
      <3> HIDE DEF only
      <3>5. \A p \in SinglePart(only, len).parts :
               PartFits(p, len) /\ SinglePart(only, len).contentLength = p.end + 1 - p.start
        BY <3>4, SinglePartFits
      <3>6. QED  BY <3>2, <3>5
    <2>4. CASE ~ \E i \in kept : kept = {i}
      <3>1. a = MultiPart({part(i) : i \in kept}, len)
        BY <1>2, <2>4 DEF RangeAnswerTo
      <3>2. {part(i) : i \in kept} \in SUBSET [start : Nat, end : Int]  BY <2>2
      <3>3. QED  BY <3>1, <3>2, MultiPartFits
    <2>5. QED  BY <2>3, <2>4
  <1>3. QED  BY <1>1, <1>2

(* The slice of a part that fits holds the bytes of its offsets. *)
LEMMA SliceOfPart ==
    ASSUME size \in Nat, NEW p, PartFits(p, size)
    PROVE  LET bytes == ExtractBuf(AssetData, p.start, p.end)
           IN  /\ ~ ExtractBufPanics(AssetData, p.start, p.end)
               /\ Len(bytes) = p.end + 1 - p.start
               /\ \A i \in 1..Len(bytes) : bytes[i] = p.start + i - 1
  <1> DEFINE first == p.start
             final == p.end
             data == AssetData
  <1>1. data \in Seq(Int) /\ Len(data) = size /\ \A i \in 1..size : data[i] = i - 1
    BY DEF AssetData
  <1>2. first \in Nat /\ final \in Nat /\ first <= final /\ final < size
    BY DEF PartFits
  <1> HIDE DEF first, final, data
  <1>3. Least({first, size}) = first /\ Least({final, size - 1}) = final
    BY <1>2, LeastOfTwo
  <1>4. ~ IsEmptySlice(data, first, final)
    <2>1. (IF Len(data) = 0 THEN 0 ELSE Len(data) - 1) = size - 1
      BY <1>1, <1>2
    <2>2. ~ Least({first, size}) > Least({final, size - 1})
      BY <1>2, <1>3
    <2>3. QED  BY <1>1, <2>1, <2>2, Zenon DEF IsEmptySlice
  <1>5. ~ ExtractBufPanics(data, first, final)
    BY <1>1, <1>2 DEF ExtractBufPanics
  <1>6. ExtractBuf(data, first, final) = SubSeq(data, first + 1, final + 1)
    BY <1>4, <1>5 DEF ExtractBuf
  <1> DEFINE slice == SubSeq(data, first + 1, final + 1)
  <1>7. Len(slice) = final + 1 - first /\ \A i \in 1..(final + 1 - first) : slice[i] = data[first + i]
    <2>1. \A i \in (first + 1)..(final + 1) : data[i] \in Int  BY <1>1, <1>2
    <2>2. /\ Len(slice) = IF first + 1 <= final + 1 THEN (final + 1) - (first + 1) + 1 ELSE 0
          /\ \A i \in 1..((final + 1) - (first + 1) + 1) : slice[i] = data[(first + 1) + i - 1]
      BY <1>2, <2>1, SubSeqProperties
    <2> HIDE DEF slice
    <2>3. QED  BY <1>2, <2>2
  <1> HIDE DEF slice
  <1>8. \A i \in 1..Len(slice) : slice[i] = first + i - 1
    BY <1>1, <1>2, <1>7
  <1>9. ExtractBuf(data, first, final) = slice  BY <1>6 DEF slice
  <1>10. QED  BY <1>5, <1>7, <1>8, <1>9 DEF first, final, data

-----------------------------------------------------------------------------
(***************************************************************************)
(* BytesInPlace says of the bytes that are stored only; that those on      *)
(* their way are right is InTransit, and it is inductive: an answer is     *)
(* made of parts that fit, and what they carry are slices of the asset.    *)
(***************************************************************************)
InTransit ==
    answer # Nothing =>
        /\ answer.status = 206 /\ ~ answer.multipart =>
              \A p \in answer.parts : answer.contentLength = p.end + 1 - p.start
        /\ \A b \in answer.bodies :
              /\ PartFits(b.part, size) /\ ~ b.panics
              /\ Len(b.bytes) = b.part.end + 1 - b.part.start
              /\ \A i \in 1..Len(b.bytes) : b.bytes[i] = b.part.start + i - 1

StreamTyped ==
    /\ size \in 0..MaxSize
    /\ request # Nothing => \A i \in DOMAIN request.header : request.header[i] \in Specification

Placed == StreamTyped /\ InTransit /\ \A o \in DOMAIN have : o \in 0..(size - 1) /\ have[o] = o

LEMMA InitPlaced == StreamInit => Placed
  BY StreamAssumption DEF StreamInit, Placed, StreamTyped, InTransit

LEMMA NextPlaced == Placed /\ [StreamNext]_streamVars => Placed'
  <1> SUFFICES ASSUME Placed, [StreamNext]_streamVars PROVE Placed'  OBVIOUS
  <1>0. size \in Nat  BY StreamAssumption DEF Placed, StreamTyped
  <1>1. CASE AskRest
    <2>1. Least(Missing) \in Nat
      <3>1. Missing \in SUBSET Nat /\ Missing # {}  BY <1>0, <1>1 DEF AskRest, Missing
      <3>2. QED  BY <3>1, LeastInSet
    <2>2. Open(Least(Missing)) \in Specification  BY <2>1 DEF Open, Specification
    <2>3. \A i \in DOMAIN request'.header : request'.header[i] \in Specification
      BY <1>1, <2>2 DEF AskRest
    <2>4. QED  BY <1>1, <2>3 DEF AskRest, Placed, StreamTyped, InTransit
  <1>2. ASSUME NEW method \in {"GET", "HEAD"}, NEW header \in Headers, AskRanges(method, header)
        PROVE  Placed'
    <2>1. Specs \subseteq Specification
      BY StreamAssumption DEF Specs, Closed, Open, Suffix, Malformed, Specification, Offsets
    <2>2. \A i \in DOMAIN header : header[i] \in Specs  BY DEF Headers
    <2>3. request'.header = header  BY <1>2 DEF AskRanges
    <2>4. QED  BY <1>2, <2>1, <2>2, <2>3 DEF AskRanges, Placed, StreamTyped, InTransit
  <1>3. CASE Handle
    <2> DEFINE a == RangeAnswerTo(request.header, size)
    <2>1. /\ \A p \in a.parts : PartFits(p, size)
          /\ a.status = 206 /\ ~ a.multipart => \A p \in a.parts : a.contentLength = p.end + 1 - p.start
      BY <1>0, <1>3, AnswerFits DEF Handle, Placed, StreamTyped
    <2>2. /\ answer'.status = a.status /\ answer'.multipart = a.multipart
          /\ answer'.parts = a.parts /\ answer'.contentLength = a.contentLength
          /\ answer'.bodies \subseteq Bodies(a.parts)
          /\ UNCHANGED <<size, have>> /\ request' = Nothing
      BY <1>3 DEF Handle
    <2> HIDE DEF a
    <2>3. ASSUME NEW b \in Bodies(a.parts)
          PROVE  /\ PartFits(b.part, size) /\ ~ b.panics
                 /\ Len(b.bytes) = b.part.end + 1 - b.part.start
                 /\ \A i \in 1..Len(b.bytes) : b.bytes[i] = b.part.start + i - 1
      <3>1. PICK p \in a.parts :
               b = [part |-> p, bytes |-> ExtractBuf(AssetData, p.start, p.end),
                    panics |-> ExtractBufPanics(AssetData, p.start, p.end)]
        BY <2>3 DEF Bodies
      <3>2. PartFits(p, size)  BY <2>1
      <3>3. QED  BY <1>0, <3>1, <3>2, SliceOfPart
    <2>4. InTransit'  BY <2>1, <2>2, <2>3 DEF InTransit
    <2>5. QED  BY <2>2, <2>4 DEF Placed, StreamTyped
  <1>4. CASE Receive
    <2> DEFINE carriers(o) == {b \in answer.bodies : o >= b.part.start /\ o < b.part.start + Len(b.bytes)}
               fresh == UNION {b.part.start .. (b.part.start + Len(b.bytes) - 1) : b \in answer.bodies}
               value(o) == LET b == CHOOSE c \in carriers(o) : TRUE IN b.bytes[o - b.part.start + 1]
    <2>1. have' = [o \in DOMAIN have \cup fresh |-> IF o \in fresh THEN value(o) ELSE have[o]]
      BY <1>4 DEF Receive
    <2>2. \A b \in answer.bodies :
              /\ PartFits(b.part, size)
              /\ Len(b.bytes) = b.part.end + 1 - b.part.start
              /\ \A i \in 1..Len(b.bytes) : b.bytes[i] = b.part.start + i - 1
      BY <1>4 DEF Receive, Placed, InTransit
    <2>3. ASSUME NEW b \in answer.bodies
          PROVE  /\ b.part.start \in Nat /\ Len(b.bytes) \in Nat
                 /\ b.part.start + Len(b.bytes) <= size
                 /\ \A i \in 1..Len(b.bytes) : b.bytes[i] = b.part.start + i - 1
      <3>1. /\ PartFits(b.part, size)
            /\ Len(b.bytes) = b.part.end + 1 - b.part.start
            /\ \A i \in 1..Len(b.bytes) : b.bytes[i] = b.part.start + i - 1
        BY <2>2
      <3>2. /\ b.part.start \in Nat /\ b.part.end \in Nat
            /\ b.part.start <= b.part.end /\ b.part.end < size
        BY <3>1 DEF PartFits
      <3>3. QED  BY <1>0, <3>1, <3>2
    <2>4. ASSUME NEW o \in fresh
          PROVE  o \in 0..(size - 1) /\ value(o) = o
      <3>1. PICK b \in answer.bodies : o \in b.part.start .. (b.part.start + Len(b.bytes) - 1)
        BY <2>4
      <3>2. o \in Int /\ o >= b.part.start /\ o < b.part.start + Len(b.bytes)
        BY <2>3, <3>1
      <3>3. o \in 0..(size - 1)  BY <1>0, <2>3, <3>2
      <3>4. b \in carriers(o)  BY <3>2
      <3>5. PICK c \in carriers(o) : c = CHOOSE d \in carriers(o) : TRUE  BY <3>4
      <3>6. /\ c \in answer.bodies
            /\ o >= c.part.start /\ o < c.part.start + Len(c.bytes)
        BY <3>5
      <3>7. /\ c.part.start \in Nat /\ Len(c.bytes) \in Nat
            /\ \A i \in 1..Len(c.bytes) : c.bytes[i] = c.part.start + i - 1
        BY <2>3, <3>6
      <3>8. o - c.part.start + 1 \in 1..Len(c.bytes)  BY <3>2, <3>6, <3>7
      <3>9. c.bytes[o - c.part.start + 1] = o  BY <3>2, <3>7, <3>8
      <3>10. QED  BY <3>3, <3>5, <3>9
    <2> HIDE DEF fresh, value
    <2>5. \A o \in DOMAIN have' : o \in 0..(size - 1) /\ have'[o] = o
      BY <2>1, <2>4 DEF Placed
    <2>6. answer' = Nothing /\ UNCHANGED <<size, request>>  BY <1>4 DEF Receive
    <2>7. QED  BY <2>5, <2>6 DEF Placed, StreamTyped, InTransit
  <1>5. CASE Complete \/ UNCHANGED streamVars
    BY <1>5 DEF Complete, streamVars, Placed, StreamTyped, InTransit, PartFits
  <1>6. QED  BY <1>1, <1>2, <1>3, <1>4, <1>5 DEF StreamNext

(***************************************************************************)
(* Whatever a webview asks for, each byte it stores is the byte of the     *)
(* asset at that offset (bundle.rs:204-300), for assets, limits, headers   *)
(* and numbers of ranges of every size.                                    *)
(***************************************************************************)
THEOREM BytesAlwaysInPlace == StreamSpec => []BytesInPlace
  <1>1. Placed => BytesInPlace
    BY StreamAssumption DEF Placed, StreamTyped, BytesInPlace
  <1>2. QED  BY <1>1, InitPlaced, NextPlaced, PTL DEF StreamSpec

(***************************************************************************)
(* No slice of the data exceeds it, a part has at least one byte and at    *)
(* most MAX_LEN, and a single part as many as Content-Length says.         *)
(***************************************************************************)
THEOREM PartsAlwaysMatchHeaders == StreamSpec => []PartsMatchHeaders
  <1>1. Placed => PartsMatchHeaders
    BY DEF Placed, InTransit, PartsMatchHeaders, PartFits
  <1>2. QED  BY <1>1, InitPlaced, NextPlaced, PTL DEF StreamSpec

(* A request is not made before the last one is answered. *)
Waiting == request = Nothing \/ answer = Nothing

(* The answer to everything from an offset of the asset on. *)
LEMMA AnswerToOpen ==
    ASSUME NEW len \in Nat, len < WORD, NEW o \in 0..(len - 1),
           NEW p, p = [start |-> o, end |-> o + Least({len - 1 - o, len - o, MAX_LEN - 1})]
    PROVE  RangeAnswerTo(<<Open(o)>>, len) = PartialContent({p}, FALSE, p.end + 1 - o)
  <1> DEFINE header == <<Open(o)>>
             kept == {i \in DOMAIN header : Overlaps(header[i], len)}
             part(i) == Inclusive(Selected(header[i], len))
  <1>1. DOMAIN header = {1} /\ header[1] = Open(o) /\ header # << >>  OBVIOUS
  <1>2. Overlaps(Open(o), len) /\ ~ IsMalformed(Open(o), len)
    BY DEF Overlaps, IsMalformed, Open
  <1>3. kept = {1}  BY <1>1, <1>2
  <1>4. (CHOOSE i \in kept : TRUE) = 1  BY <1>3
  <1>5. Selected(Open(o), len) = [start |-> o, length |-> len - o]  BY DEF Selected, Open
  <1>6. (o + (len - o) - 1) % WORD = len - 1
    <2>1. o + (len - o) - 1 = len - 1 /\ len - 1 \in 0..(WORD - 1)  BY RangeAssumption
    <2>2. QED  BY <2>1, RangeAssumption
  <1>7. part(1) = [start |-> o, end |-> len - 1]  BY <1>1, <1>5, <1>6 DEF Inclusive
  <1>8. \A i \in DOMAIN header : ~ IsMalformed(header[i], len)  BY <1>1, <1>2
  <1> HIDE DEF header, kept, part
  <1>9. RangeAnswerTo(header, len) = SinglePart(part(1), len)
    <2>1. kept # {} /\ \E i \in kept : kept = {i}  BY <1>3
    <2>2. RangeAnswerTo(header, len) = SinglePart(part(CHOOSE i \in kept : TRUE), len)
      BY <1>8, <2>1 DEF RangeAnswerTo, kept, part
    <2>3. QED  BY <1>4, <2>2
  <1>10. ~ Unsatisfiable(part(1), len)  BY <1>7 DEF Unsatisfiable
  <1>11. Adjusted(part(1), len) = p  BY <1>7 DEF Adjusted, AdjustEnd
  <1>12. SinglePart(part(1), len) = PartialContent({p}, FALSE, p.end + 1 - p.start)
    BY <1>10, <1>11, Zenon DEF SinglePart
  <1>13. QED  BY <1>9, <1>12 DEF header

(* A cut of the rest of the asset leaves as much as one answer may carry. *)
LEMMA CutOfRest ==
    ASSUME NEW n \in Nat \ {0}
    PROVE  Least({n - 1, n, MAX_LEN - 1}) + 1 = Least({n, MAX_LEN})
  <1>1. n - 1 \in Int /\ n \in Int /\ MAX_LEN - 1 \in Int /\ MAX_LEN \in Int  BY RangeAssumption
  <1> DEFINE x == n - 1
             z == MAX_LEN - 1
  <1>2. Least({x, n, z}) \in {x, n, z} /\ Least({x, n, z}) <= x /\ Least({x, n, z}) <= z
    BY <1>1, LeastOfThree
  <1>3. Least({n, MAX_LEN}) = IF n <= MAX_LEN THEN n ELSE MAX_LEN  BY <1>1, LeastOfTwo
  <1> HIDE DEF x, z
  <1>4. x \in Int /\ z \in Int /\ n = x + 1 /\ MAX_LEN = z + 1  BY <1>1 DEF x, z
  <1>5. Least({x, n, z}) + 1 = IF n <= MAX_LEN THEN n ELSE MAX_LEN  BY <1>1, <1>2, <1>4
  <1>6. QED  BY <1>3, <1>5 DEF x, z

LEMMA HandleAdvances ==
    ASSUME Placed, Handle, request.method = "GET", NEW o \in 0..(size - 1), request.header = <<Open(o)>>
    PROVE  \E b \in answer'.bodies : b.part.start = o /\ Len(b.bytes) = Least({size - o, MAX_LEN})
  <1>1. size \in Nat /\ size < WORD  BY StreamAssumption, RangeAssumption DEF Placed, StreamTyped
  <1>2. PICK p : p = [start |-> o, end |-> o + Least({size - 1 - o, size - o, MAX_LEN - 1})]  OBVIOUS
  <1> DEFINE a == RangeAnswerTo(request.header, size)
  <1>3. a = PartialContent({p}, FALSE, p.end + 1 - o)  BY <1>1, <1>2, AnswerToOpen
  <1>4. p \in a.parts  BY <1>3 DEF PartialContent
  <1>5. PartFits(p, size)
    <2>1. Open(o) \in Specification  BY <1>1 DEF Open, Specification
    <2>2. \A i \in DOMAIN <<Open(o)>> : <<Open(o)>>[i] \in Specification  BY <2>1
    <2>3. QED  BY <1>1, <1>4, <2>2, AnswerFits
  <1> HIDE DEF a
  <1>6. answer'.bodies = Bodies(a.parts)  BY DEF Handle, a
  <1> DEFINE b == [part |-> p, bytes |-> ExtractBuf(AssetData, p.start, p.end),
                   panics |-> ExtractBufPanics(AssetData, p.start, p.end)]
  <1>7. b \in answer'.bodies  BY <1>4, <1>6 DEF Bodies
  <1>8. Len(b.bytes) = p.end + 1 - p.start  BY <1>1, <1>5, SliceOfPart
  <1>9. p.end + 1 - p.start = Least({size - o, MAX_LEN})
    <2> DEFINE n == size - o
    <2>1. n \in Nat \ {0} /\ size - 1 - o = n - 1  BY <1>1
    <2>2. p.start = o /\ p.end = o + Least({n - 1, n, MAX_LEN - 1})  BY <1>2, <2>1
    <2>3. o \in Nat /\ p.end \in Nat  BY <1>1, <1>5 DEF PartFits
    <2> HIDE DEF n
    <2>4. Least({n - 1, n, MAX_LEN - 1}) \in Int
      <3>1. n - 1 \in Int /\ n \in Int /\ MAX_LEN - 1 \in Int  BY <2>1, RangeAssumption
      <3>2. Least({n - 1, n, MAX_LEN - 1}) \in {n - 1, n, MAX_LEN - 1}  BY <3>1, LeastOfThree
      <3>3. QED  BY <3>1, <3>2
    <2>5. p.end + 1 - p.start = Least({n - 1, n, MAX_LEN - 1}) + 1  BY <2>2, <2>3, <2>4
    <2>6. QED  BY <2>1, <2>5, CutOfRest DEF n
  <1>10. b.part.start = o  BY <1>2
  <1> HIDE DEF b
  <1>11. QED  BY <1>7, <1>8, <1>9, <1>10 DEF b

(***************************************************************************)
(* The safety half of StreamCompletes, for assets and limits of every      *)
(* size: an answer that MAX_LEN cuts off still begins with the byte that   *)
(* was asked for and is as long as it may be, and its bytes stay.          *)
(***************************************************************************)
THEOREM EachAskAlwaysAdvances == StreamSpec => EachAskAdvances
  <1> DEFINE Advances ==
        /\ DOMAIN have \subseteq DOMAIN have'
        /\ request # Nothing /\ request.method = "GET" /\ answer' # answer =>
              \A o \in 0..(size - 1) : request.header = <<Open(o)>> =>
                 \E b \in answer'.bodies : b.part.start = o /\ Len(b.bytes) = Least({size - o, MAX_LEN})
        /\ answer # Nothing /\ answer' # answer =>
              \A b \in answer.bodies :
                 b.part.start .. (b.part.start + Len(b.bytes) - 1) \subseteq DOMAIN have'
  <1>1. ASSUME Placed, Waiting, StreamNext PROVE Advances /\ Waiting'
    <2>1. CASE AskRest \/ (\E method \in {"GET", "HEAD"}, header \in Headers : AskRanges(method, header))
      BY <2>1 DEF AskRest, AskRanges, Waiting
    <2>2. CASE Handle
      <3>1. answer = Nothing /\ UNCHANGED have /\ request' = Nothing  BY <1>1, <2>2 DEF Handle, Waiting
      <3>2. QED  BY <1>1, <2>2, <3>1, HandleAdvances DEF Waiting
    <2>3. CASE Receive
      <3>1. request = Nothing /\ answer' = Nothing /\ UNCHANGED request  BY <1>1, <2>3 DEF Receive, Waiting
      <3> DEFINE fresh == UNION {b.part.start .. (b.part.start + Len(b.bytes) - 1) : b \in answer.bodies}
      <3>2. DOMAIN have' = DOMAIN have \cup fresh  BY <2>3 DEF Receive
      <3>3. QED  BY <3>1, <3>2 DEF Waiting
    <2>4. CASE Complete  BY <2>4 DEF Complete, streamVars, Waiting
    <2>5. QED  BY <1>1, <2>1, <2>2, <2>3, <2>4 DEF StreamNext
  <1>2. StreamInit => Waiting  BY DEF StreamInit, Waiting
  <1>3. UNCHANGED streamVars => (Waiting <=> Waiting')  BY DEF streamVars, Waiting
  <1>4. QED
    BY <1>1, <1>2, <1>3, InitPlaced, NextPlaced, PTL DEF StreamSpec, EachAskAdvances

-----------------------------------------------------------------------------
(***************************************************************************)
(* RegisteredMeansServed is not inductive: it says nothing of the schemes. *)
(* Once the registration has resolved every scheme has its handler, and    *)
(* none loses it again: schemes are declared by the constructor only, and  *)
(* only what is being built is registered.                                 *)
(***************************************************************************)
Request ==
    [kind : {"none", "fetch", "ipc"}, registered : BOOLEAN,
     state : {"none", "pending", "dropped"} \cup Settled]

Registration ==
    /\ protocol \in [Schemes -> {"none", "declared", "building", "handled", "failed"}]
    /\ call \in [Calls -> Request]
    /\ registered = "resolved" => AllRegistered

Served == Registration /\ RegisteredMeansServed

LEMMA InitServed == ElectronInit => Served
  BY DEF ElectronInit, Served, Registration, RegisteredMeansServed, NoCall, Request

(* A call is refused only if its scheme has no handler at that moment. *)
LEMMA FetchServed ==
    ASSUME Served, NEW c \in Calls, NEW s \in Schemes, Fetch(c, s)
    PROVE  Served'
  <1>1. PICK state \in {"pending", "dropped", "refused"} :
            Ask(c, "fetch", state, 0) /\ (protocol[s] = "handled" => state # "refused")
    BY DEF Fetch
  <1>2. UNCHANGED <<protocol, registered>> /\ call' \in [Calls -> Request]
    BY <1>1 DEF Ask, Served, Registration, Request, Settled
  <1>3. Registration'
    BY <1>2 DEF Served, Registration, AllRegistered
  <1>4. ASSUME NEW d \in Calls, call'[d].kind = "fetch", call'[d].registered
        PROVE  call'[d].state # "refused"
    <2>1. CASE d = c
      <3>1. call'[c].registered = (registered = "resolved") /\ call'[c].state = state
        BY <1>1 DEF Ask, Served, Registration
      <3>2. QED  BY <1>1, <1>4, <2>1, <3>1 DEF Served, Registration, AllRegistered
    <2>2. CASE d # c
      BY <1>1, <1>4, <2>2 DEF Ask, Served, Registration, RegisteredMeansServed
    <2>3. QED  BY <2>1, <2>2
  <1>5. QED  BY <1>3, <1>4 DEF Served, RegisteredMeansServed

(* A call over IPC is not a request of a URL. *)
LEMMA InvokeServed ==
    ASSUME Served, NEW c \in Calls, NEW scope, NEW channel, Invoke(c, scope, channel)
    PROVE  Served'
  <1>1. UNCHANGED <<protocol, registered>> /\ call' \in [Calls -> Request]
        /\ call'[c].kind = "ipc" /\ \A d \in Calls \ {c} : call'[d] = call[d]
    BY DEF Invoke, Ask, Served, Registration, Request, Settled
  <1>2. QED
    BY <1>1 DEF Served, Registration, AllRegistered, RegisteredMeansServed

LEMMA AnswerServed ==
    ASSUME Served, NEW c \in Calls, Answer(c) \/ Forget(c)
    PROVE  Served'
  <1>1. UNCHANGED <<protocol, registered>> /\ call' \in [Calls -> Request]
        /\ call'[c].state # "refused" /\ \A d \in Calls \ {c} : call'[d] = call[d]
    <2>1. CASE Answer(c)
      <3>1. PICK st \in {"answered", "500", "error", "dropped"} : call' = [call EXCEPT ![c].state = st]
        BY <2>1 DEF Answer, Failures
      <3>2. UNCHANGED <<protocol, registered>>  BY <2>1 DEF Answer
      <3>3. QED  BY <3>1, <3>2 DEF Served, Registration, Request, Settled
    <2>2. CASE Forget(c)
      BY <2>2 DEF Forget, NoCall, Settled, Served, Registration, Request
    <2>3. QED  BY <2>1, <2>2
  <1>2. QED
    BY <1>1 DEF Served, Registration, AllRegistered, RegisteredMeansServed

LEMMA NextServed == Served /\ [ElectronNext]_electronVars => Served'
  <1> SUFFICES ASSUME Served, [ElectronNext]_electronVars PROVE Served'  OBVIOUS
  <1>1. CASE AppReady
    BY <1>1 DEF AppReady, Served, Registration, AllRegistered, RegisteredMeansServed
  <1>2. CASE WebviewBundle
    BY <1>2 DEF WebviewBundle, Served, Registration, AllRegistered, RegisteredMeansServed
  <1>3. CASE SettleRegistration
    BY <1>3 DEF SettleRegistration, Served, Registration, AllRegistered, RegisteredMeansServed
  <1>4. ASSUME NEW s \in Schemes, BuildHandler(s) \/ RegisterHandler(s)
        PROVE  Served'
    <2>1. registered # "resolved"
      BY <1>4 DEF BuildHandler, RegisterHandler, Served, Registration, AllRegistered
    <2>2. QED
      BY <1>4, <2>1 DEF BuildHandler, RegisterHandler, Served, Registration, RegisteredMeansServed
  <1>5. CASE CallbacksNext /\ UNCHANGED <<ready, protocol, registered, app, call>>
    BY <1>5 DEF Served, Registration, AllRegistered, RegisteredMeansServed
  <1>6. CASE UNCHANGED electronVars
    BY <1>6 DEF electronVars, Served, Registration, AllRegistered, RegisteredMeansServed
  <1>7. QED
    BY <1>1, <1>2, <1>3, <1>4, <1>5, <1>6, FetchServed, InvokeServed, AnswerServed DEF ElectronNext

(***************************************************************************)
(* Once whenProtocolRegistered() has resolved no URL of a scheme of the    *)
(* app is refused (protocol.ts:47-92), whatever fails to be built before   *)
(* or after, and whatever else windows ask for.                            *)
(***************************************************************************)
THEOREM RegisteredAlwaysServed == ElectronSpec => []RegisteredMeansServed
  <1>1. Served => RegisteredMeansServed  BY DEF Served
  <1>2. QED  BY <1>1, InitServed, NextServed, PTL DEF ElectronSpec

-----------------------------------------------------------------------------
(***************************************************************************)
(* WaitsAreNotified is inductive but for the types, and that no request    *)
(* starts while its place still has a call.                                *)
(***************************************************************************)
Places == {"none", "running", "calling", "waiting", "woken", "resolved", "rejected"}

Ops == [pc : Places, reports : Int]

Waits ==
    /\ call \in [Calls -> Request]
    /\ op \in [Calls -> Ops]
    /\ queue \in Seq(SUBSET Calls)
    /\ lost \subseteq Calls
    /\ WaitsAreNotified

LEMMA InitWaits == ElectronInit => Waits
  BY DEF ElectronInit, CallbacksInit, NoCall, NoOp, Request, Ops, Places, Waits, WaitsAreNotified

(* What is said of one call. *)
Notified(c) ==
    /\ call[c].state = "pending" <=> op[c].pc # "none"
    /\ op[c].pc \in {"calling", "waiting"} <=> (c \in lost \/ \E i \in DOMAIN queue : c \in queue[i])
    /\ \A i, j \in DOMAIN queue : c \in queue[i] => c \notin lost /\ (c \in queue[j] => i = j)

(* A step of one call that leaves the queue alone, between places at which *)
(* a function is awaited or places at which none is.                       *)
LEMMA OwnStepWaits ==
    ASSUME Waits, NEW c \in Calls, NEW r \in Request, NEW o \in Ops,
           call' = [call EXCEPT ![c] = r], op' = [op EXCEPT ![c] = o], UNCHANGED <<queue, lost>>,
           r.state = "pending" <=> o.pc # "none",
           o.pc \in {"calling", "waiting"} <=> op[c].pc \in {"calling", "waiting"}
    PROVE  Waits'
  <1>1. call' \in [Calls -> Request] /\ op' \in [Calls -> Ops]  BY DEF Waits
  <1>2. call'[c] = r /\ op'[c] = o  BY DEF Waits
  <1>3. \A d \in Calls \ {c} : call'[d] = call[d] /\ op'[d] = op[d]  BY DEF Waits
  <1>4. \A d \in Calls : Notified(d)'
    <2> SUFFICES ASSUME NEW d \in Calls PROVE Notified(d)'  OBVIOUS
    <2>1. Notified(d)  BY DEF Waits, WaitsAreNotified, Notified
    <2>2. CASE d = c  BY <1>2, <2>1, <2>2 DEF Notified
    <2>3. CASE d # c  BY <1>3, <2>1, <2>3 DEF Notified
    <2>4. QED  BY <2>2, <2>3
  <1>5. QED  BY <1>1, <1>4 DEF Waits, WaitsAreNotified, Notified

LEMMA AskWaits ==
    ASSUME Waits, NEW c \in Calls, NEW kind \in {"fetch", "ipc"}, NEW state \in {"pending", "dropped", "refused"},
           NEW reports \in Int, call[c].state = "none", UNCHANGED <<queue, lost>>,
           call' = [call EXCEPT ![c] = [kind |-> kind, registered |-> registered = "resolved", state |-> state]],
           IF state = "pending" THEN Started(c, reports) ELSE UNCHANGED op
    PROVE  Waits'
  <1> DEFINE r == [kind |-> kind, registered |-> registered = "resolved", state |-> state]
             o == IF state = "pending" THEN [pc |-> "running", reports |-> reports] ELSE op[c]
  <1>1. r \in Request /\ o \in Ops  BY DEF Request, Settled, Ops, Places, Waits
  <1>2. call' = [call EXCEPT ![c] = r]  OBVIOUS
  <1>3. op' = [op EXCEPT ![c] = o]  BY DEF Started, Waits
  <1>4. op[c].pc = "none"  BY DEF Waits, WaitsAreNotified
  <1>5. r.state = "pending" <=> o.pc # "none"  BY <1>4
  <1>6. o.pc \notin {"calling", "waiting"}  BY <1>4
  <1> HIDE DEF r, o
  <1>7. QED  BY <1>1, <1>2, <1>3, <1>4, <1>5, <1>6, OwnStepWaits

LEMMA SettledWaits ==
    ASSUME Waits, NEW c \in Calls, Answer(c) \/ Forget(c)
    PROVE  Waits'
  <1>1. call[c] \in Request /\ op[c] \in Ops /\ NoOp \in Ops /\ NoCall \in Request
    BY DEF Waits, NoOp, NoCall, Ops, Places, Request
  <1>2. CASE Answer(c)
    <2>1. PICK st \in {"answered", "500", "error", "dropped"} : call' = [call EXCEPT ![c].state = st]
      BY <1>2 DEF Answer, Failures
    <2> DEFINE r == [call[c] EXCEPT !.state = st]
    <2>2. r \in Request /\ r.state # "pending" /\ call' = [call EXCEPT ![c] = r]
      BY <1>1, <2>1 DEF Request, Settled, Waits
    <2>3. op' = [op EXCEPT ![c] = NoOp] /\ UNCHANGED <<queue, lost>>
          /\ op[c].pc \notin {"calling", "waiting"} /\ NoOp.pc = "none"
      BY <1>2 DEF Answer, NoOp
    <2> HIDE DEF r
    <2>4. QED  BY <1>1, <2>2, <2>3, OwnStepWaits
  <1>3. CASE Forget(c)
    <2>1. call' = [call EXCEPT ![c] = NoCall] /\ op' = [op EXCEPT ![c] = op[c]]
          /\ UNCHANGED <<queue, lost>> /\ NoCall.state # "pending"
      BY <1>3 DEF Forget, NoCall, callbackVars, Waits, Settled
    <2>2. op[c].pc = "none"  BY <1>3 DEF Forget, Settled, Waits, WaitsAreNotified
    <2>3. QED  BY <1>1, <2>1, <2>2, OwnStepWaits
  <1>4. QED  BY <1>2, <1>3

(* The steps of the thread of a call. *)
LEMMA ThreadWaits ==
    ASSUME Waits, UNCHANGED call, NEW c \in Calls, Wait(c) \/ ReturnFromCallback(c) \/ Finish(c)
    PROVE  Waits'
  <1>1. call[c] \in Request /\ op[c] \in Ops /\ call' = [call EXCEPT ![c] = call[c]]
    BY DEF Waits
  <1>2. PICK o \in Ops :
            /\ op' = [op EXCEPT ![c] = o] /\ o.pc # "none" /\ op[c].pc # "none"
            /\ o.pc \in {"calling", "waiting"} <=> op[c].pc \in {"calling", "waiting"}
    <2>1. CASE Wait(c)
      <3>1. op' = [op EXCEPT ![c] = [op[c] EXCEPT !.pc = "waiting"]]  BY <2>1 DEF Wait
      <3>2. [op[c] EXCEPT !.pc = "waiting"] \in Ops  BY <1>1 DEF Ops, Places
      <3>3. QED  BY <1>1, <2>1, <3>1, <3>2 DEF Wait, Ops
    <2>2. CASE ReturnFromCallback(c)
      <3>1. [pc |-> "running", reports |-> op[c].reports - 1] \in Ops  BY <1>1 DEF Ops, Places
      <3>2. QED  BY <1>1, <2>2, <3>1 DEF ReturnFromCallback
    <2>3. CASE Finish(c)
      <3>1. PICK st \in {"resolved", "rejected"} : op' = [op EXCEPT ![c] = [op[c] EXCEPT !.pc = st]]
        BY <2>3 DEF Finish
      <3>2. [op[c] EXCEPT !.pc = st] \in Ops  BY <1>1 DEF Ops, Places
      <3>3. QED  BY <1>1, <2>3, <3>1, <3>2 DEF Finish, Ops
    <2>4. QED  BY <2>1, <2>2, <2>3
  <1>3. UNCHANGED <<queue, lost>>  BY DEF Wait, ReturnFromCallback, Finish
  <1>4. call[c].state = "pending"  BY <1>2 DEF Waits, WaitsAreNotified
  <1>5. QED  BY <1>1, <1>2, <1>3, <1>4, OwnStepWaits

LEMMA ReportWaits ==
    ASSUME Waits, UNCHANGED call, NEW c \in Calls, Report(c)
    PROVE  Waits'
  <1>1. op' = [op EXCEPT ![c] = [op[c] EXCEPT !.pc = "calling"]] /\ UNCHANGED lost
        /\ queue' = Append(queue, {c}) /\ op[c].pc = "running"
    BY DEF Report
  <1>2. op' \in [Calls -> Ops] /\ op'[c].pc = "calling" /\ \A d \in Calls \ {c} : op'[d] = op[d]
    BY <1>1 DEF Waits, Ops, Places
  <1>3. /\ queue' \in Seq(SUBSET Calls) /\ Len(queue) \in Nat
        /\ DOMAIN queue = 1..Len(queue) /\ DOMAIN queue' = 1..(Len(queue) + 1)
        /\ queue'[Len(queue) + 1] = {c} /\ \A i \in DOMAIN queue : queue'[i] = queue[i]
    BY <1>1 DEF Waits
  <1>4. \A d \in Calls : Notified(d)'
    <2> SUFFICES ASSUME NEW d \in Calls PROVE Notified(d)'  OBVIOUS
    <2>1. Notified(d) /\ Notified(c)  BY DEF Waits, WaitsAreNotified, Notified
    <2>2. \A i \in DOMAIN queue' : i \in DOMAIN queue \/ i = Len(queue) + 1  BY <1>3
    <2>3. DOMAIN queue \subseteq DOMAIN queue' /\ Len(queue) + 1 \in DOMAIN queue'  BY <1>3
    <2>4. CASE d = c
      <3>1. c \notin lost /\ \A i \in DOMAIN queue : c \notin queue[i]  BY <1>1, <2>1 DEF Notified
      <3>2. \A i \in DOMAIN queue' : c \in queue'[i] <=> i = Len(queue) + 1
        BY <1>3, <2>2, <3>1
      <3>3. call'[c].state = "pending"  BY <1>1, <2>1 DEF Notified
      <3>4. QED  BY <1>1, <1>2, <2>3, <2>4, <3>1, <3>2, <3>3 DEF Notified
    <2>5. CASE d # c
      <3>1. \A i \in DOMAIN queue' : d \in queue'[i] <=> i \in DOMAIN queue /\ d \in queue[i]
        BY <1>3, <2>2, <2>5
      <3>2. op'[d] = op[d] /\ call'[d] = call[d]  BY <1>2, <2>5
      <3>3. QED  BY <1>1, <2>1, <2>3, <3>1, <3>2 DEF Notified
    <2>6. QED  BY <2>4, <2>5
  <1>5. QED  BY <1>1, <1>2, <1>3, <1>4 DEF Waits, WaitsAreNotified, Notified

(* A thread that wakes by itself is waited for no longer. *)
LEMMA SpuriousWaits ==
    ASSUME Waits, UNCHANGED call, NEW c \in Calls, WakeSpuriously(c)
    PROVE  Waits'
  <1>1. op' = [op EXCEPT ![c] = [op[c] EXCEPT !.pc = "woken"]] /\ lost' = lost \ {c}
        /\ queue' = [i \in DOMAIN queue |-> queue[i] \ {c}] /\ op[c].pc = "waiting"
    BY DEF WakeSpuriously
  <1>2. op' \in [Calls -> Ops] /\ op'[c].pc = "woken" /\ \A d \in Calls \ {c} : op'[d] = op[d]
    BY <1>1 DEF Waits, Ops, Places
  <1>3. DOMAIN queue' = DOMAIN queue /\ \A i \in DOMAIN queue : queue'[i] = queue[i] \ {c}
    BY <1>1
  <1>4. queue' \in Seq(SUBSET Calls)
    <2>1. DOMAIN queue = 1..Len(queue) /\ Len(queue) \in Nat  BY DEF Waits
    <2>2. \A i \in 1..Len(queue) : queue[i] \ {c} \in SUBSET Calls  BY DEF Waits
    <2>3. QED  BY <1>1, <2>1, <2>2
  <1>5. \A d \in Calls : Notified(d)'
    <2> SUFFICES ASSUME NEW d \in Calls PROVE Notified(d)'  OBVIOUS
    <2>1. Notified(d)  BY DEF Waits, WaitsAreNotified, Notified
    <2>2. CASE d = c  BY <1>1, <1>2, <1>3, <2>1, <2>2 DEF Notified
    <2>3. CASE d # c
      <3>1. op'[d] = op[d] /\ (d \in lost' <=> d \in lost)
            /\ \A i \in DOMAIN queue : d \in queue'[i] <=> d \in queue[i]
        BY <1>1, <1>2, <1>3, <2>3
      <3>2. QED  BY <1>3, <2>1, <3>1 DEF Notified
    <2>4. QED  BY <2>2, <2>3
  <1>6. lost' \subseteq Calls  BY <1>1 DEF Waits
  <1>7. QED  BY <1>2, <1>4, <1>5, <1>6 DEF Waits, WaitsAreNotified, Notified

(* The function that runs is in the queue no longer: its thread has been   *)
(* woken, or has missed it.                                                *)
LEMMA CallbackWaits ==
    ASSUME Waits, UNCHANGED call, RunCallback
    PROVE  Waits'
  <1>1. PICK notified :
            /\ notified = Head(queue)
            /\ op' = [c \in Calls |-> IF c \in notified /\ op[c].pc = "waiting"
                                      THEN [op[c] EXCEPT !.pc = "woken"] ELSE op[c]]
            /\ lost' = lost \cup {c \in notified : op[c].pc = "calling"}
    <2>1. PICK result \in {"value", "exception"} :
              LET notified == {c \in Head(queue) : Notifies(result)}
              IN  /\ op' = [c \in Calls |-> IF c \in notified /\ op[c].pc = "waiting"
                                          THEN [op[c] EXCEPT !.pc = "woken"] ELSE op[c]]
                  /\ lost' = lost \cup {c \in notified : op[c].pc = "calling"}
      BY DEF RunCallback
    <2>2. {c \in Head(queue) : Notifies(result)} = Head(queue)  BY DEF Notifies
    <2>3. QED  BY <2>1, <2>2
  <1>2. /\ Len(queue) \in Nat /\ DOMAIN queue = 1..Len(queue) /\ 1 \in DOMAIN queue
        /\ Head(queue) = queue[1] /\ queue' \in Seq(SUBSET Calls)
        /\ DOMAIN queue' = 1..(Len(queue) - 1)
        /\ \A i \in DOMAIN queue' : queue'[i] = queue[i + 1]
    BY DEF RunCallback, Waits
  <1>3. notified = queue[1] /\ notified \subseteq Calls  BY <1>1, <1>2 DEF Waits
  <1>4. op' \in [Calls -> Ops]  BY <1>1 DEF Waits, Ops, Places
  <1>5. \A d \in Calls : Notified(d)'
    <2> SUFFICES ASSUME NEW d \in Calls PROVE Notified(d)'  OBVIOUS
    <2>1. Notified(d)  BY DEF Waits, WaitsAreNotified, Notified
    <2>2. \A i \in DOMAIN queue' : i + 1 \in DOMAIN queue /\ i + 1 # 1  BY <1>2
    <2>3. op[d] \in Ops  BY DEF Waits
    <2>4. CASE d \in notified
      <3>1. d \notin lost /\ op[d].pc \in {"calling", "waiting"}
            /\ \A i \in DOMAIN queue : d \in queue[i] => i = 1
        BY <1>2, <1>3, <2>1, <2>4 DEF Notified
      <3>2. \A i \in DOMAIN queue' : d \notin queue'[i]  BY <1>2, <2>2, <3>1
      <3>3. CASE op[d].pc = "calling"
        <4>1. op'[d] = op[d] /\ d \in lost'  BY <1>1, <2>4, <3>3
        <4>2. QED  BY <2>1, <3>2, <3>3, <4>1 DEF Notified
      <3>4. CASE op[d].pc = "waiting"
        <4>1. op'[d].pc = "woken" /\ d \notin lost'  BY <1>1, <2>3, <2>4, <3>1, <3>4 DEF Ops
        <4>2. QED  BY <2>1, <3>2, <3>4, <4>1 DEF Notified
      <3>5. QED  BY <3>1, <3>3, <3>4
    <2>5. CASE d \notin notified
      <3>1. op'[d] = op[d] /\ (d \in lost' <=> d \in lost)  BY <1>1, <2>5
      <3>2. \A i \in DOMAIN queue : d \in queue[i] => i - 1 \in DOMAIN queue' /\ queue'[i - 1] = queue[i]
        BY <1>2, <1>3, <2>5
      <3>3. (\E i \in DOMAIN queue' : d \in queue'[i]) <=> (\E i \in DOMAIN queue : d \in queue[i])
        BY <1>2, <2>2, <3>2
      <3>4. \A i, j \in DOMAIN queue' : d \in queue'[i] => d \notin lost' /\ (d \in queue'[j] => i = j)
        <4> SUFFICES ASSUME NEW i \in DOMAIN queue', NEW j \in DOMAIN queue', d \in queue'[i]
                     PROVE  d \notin lost' /\ (d \in queue'[j] => i = j)
          OBVIOUS
        <4>1. d \in queue[i + 1] /\ (d \in queue'[j] => d \in queue[j + 1])  BY <1>2
        <4>2. d \notin lost /\ (d \in queue'[j] => i + 1 = j + 1)  BY <2>1, <2>2, <4>1 DEF Notified
        <4>3. i \in Int /\ j \in Int  BY <1>2
        <4>4. QED  BY <3>1, <4>2, <4>3
      <3>5. QED  BY <2>1, <3>1, <3>3, <3>4 DEF Notified
    <2>6. QED  BY <2>4, <2>5
  <1>6. lost' \subseteq Calls  BY <1>1, <1>3 DEF Waits
  <1>7. QED  BY <1>2, <1>4, <1>5, <1>6 DEF Waits, WaitsAreNotified, Notified

LEMMA NextWaits == Waits /\ [ElectronNext]_electronVars => Waits'
  <1> SUFFICES ASSUME Waits, [ElectronNext]_electronVars PROVE Waits'  OBVIOUS
  <1>1. CASE UNCHANGED <<call, callbackVars>>
    BY <1>1 DEF callbackVars, Waits, WaitsAreNotified
  <1>2. CASE AppReady \/ WebviewBundle \/ SettleRegistration
             \/ \E s \in Schemes : BuildHandler(s) \/ RegisterHandler(s)
    BY <1>1, <1>2 DEF AppReady, WebviewBundle, SettleRegistration, BuildHandler, RegisterHandler
  <1>3. ASSUME NEW c \in Calls, NEW s \in Schemes, Fetch(c, s) PROVE Waits'
    <2>1. PICK state \in {"pending", "dropped", "refused"} : Ask(c, "fetch", state, 0)
      BY <1>3 DEF Fetch
    <2>2. PICK reports \in Int : Ask(c, "fetch", state, reports)  BY <2>1
    <2>3. QED  BY <2>2, AskWaits DEF Ask
  <1>4. ASSUME NEW c \in Calls, NEW scope, NEW channel, Invoke(c, scope, channel) PROVE Waits'
    <2>1. PICK reports \in Int, state \in {"pending", "refused"} : Ask(c, "ipc", state, reports)
      BY <1>4 DEF Invoke
    <2>2. QED  BY <2>1, AskWaits DEF Ask
  <1>5. CASE CallbacksNext /\ UNCHANGED call
    BY <1>5, CallbackWaits, ReportWaits, ThreadWaits, SpuriousWaits DEF CallbacksNext
  <1>6. CASE UNCHANGED electronVars  BY <1>1, <1>6 DEF electronVars
  <1>7. QED  BY <1>2, <1>3, <1>4, <1>5, <1>6, SettledWaits DEF ElectronNext

(***************************************************************************)
(* For any number of calls, threads and reports: a thread waits for what   *)
(* is still to come, or its notification was lost and nothing but a        *)
(* spurious wakeup ends its wait (js.rs:36-56).                            *)
(***************************************************************************)
THEOREM WaitsAreAlwaysNotified == ElectronSpec => []WaitsAreNotified
  <1>1. Waits => WaitsAreNotified  BY DEF Waits
  <1>2. QED  BY <1>1, InitWaits, NextWaits, PTL DEF ElectronSpec
=============================================================================
