---------------------------- MODULE AssetStream ----------------------------
(***************************************************************************)
(* A webview that reads an asset in pieces through BundleProtocol: it      *)
(* sends requests with a Range header, the protocol answers each (module   *)
(* RangeAnswer), and the webview puts the bytes it gets where the          *)
(* Content-Range of each part says they belong.  A media element asks for  *)
(* "everything from the first byte I miss"; seeking and the other forms of *)
(* a header may come in between, in any order.                             *)
(***************************************************************************)
EXTENDS RangeAnswer, FiniteSets

CONSTANTS MaxSize,    \* assets are of every size up to this
          MaxHeader   \* specifications in one header

ASSUME StreamAssumption ==
    /\ MaxSize \in Nat /\ MaxHeader \in Nat
    /\ WORD > MaxSize

VARIABLES size,      \* the content_length of the index entry
          request,   \* the request the protocol has not answered, or Nothing
          answer,    \* the last answer, with the body of each part, or Nothing
          have       \* what the webview stored: offset -> byte

streamVars == <<size, request, answer, have>>

Nothing == [none |-> TRUE]

\* Every byte of the asset is different: it is named by its offset.
AssetData == [i \in 1..size |-> i - 1]

Offsets == 0..MaxSize

Specs == {Closed(a, b) : a \in Offsets, b \in Offsets}
            \cup {Open(a) : a \in Offsets}
            \cup {Suffix(n) : n \in Offsets}
            \cup {Malformed}

Headers == UNION {[1..n -> Specs] : n \in 0..MaxHeader}

StreamInit ==
    /\ size \in 0..MaxSize
    /\ request = Nothing
    /\ answer = Nothing
    /\ have = << >>

Missing == 0..(size - 1) \ DOMAIN have

\* The media element asks for the rest of the asset, from the first missing byte.
AskRest ==
    /\ request = Nothing /\ answer = Nothing
    /\ Missing # {}
    /\ request' = [method |-> "GET", header |-> <<Open(Least(Missing))>>]
    /\ UNCHANGED <<size, answer, have>>

\* Any other request with a Range header.  The answer to a HEAD has no bodies:
\* one with several specifications tells nothing new.
AskRanges(method, header) ==
    /\ request = Nothing /\ answer = Nothing
    /\ method = "HEAD" => Len(header) <= 1
    /\ request' = [method |-> method, header |-> header]
    /\ UNCHANGED <<size, answer, have>>

\* The bytes an answer carries: for each part, the part and its slice.
Bodies(parts) ==
    {[part |-> p, bytes |-> ExtractBuf(AssetData, p.start, p.end),
      panics |-> ExtractBufPanics(AssetData, p.start, p.end)] : p \in parts}

\* handle_inner, for a request with a Range header.
Handle ==
    /\ request # Nothing
    /\ LET a == RangeAnswerTo(request.header, size)
       IN  answer' = [status |-> a.status, parts |-> a.parts, multipart |-> a.multipart,
                      contentLength |-> a.contentLength,
                      bodies |-> IF request.method = "HEAD" THEN {} ELSE Bodies(a.parts)]
    /\ request' = Nothing
    /\ UNCHANGED <<size, have>>

\* The webview stores the bytes of every part from the start its Content-Range
\* names; where parts overlap the last one wins, whichever that is.
Receive ==
    /\ answer # Nothing
    /\ LET carriers(o) == {b \in answer.bodies : o >= b.part.start
                                                 /\ o < b.part.start + Len(b.bytes)}
           fresh == UNION
                        {b.part.start .. (b.part.start + Len(b.bytes) - 1) : b \in answer.bodies}
           value(o) == LET b == CHOOSE c \in carriers(o) : TRUE
                       IN  b.bytes[o - b.part.start + 1]
       IN  have' = [o \in DOMAIN have \cup fresh |-> IF o \in fresh THEN value(o) ELSE have[o]]
    /\ answer' = Nothing
    /\ UNCHANGED <<size, request>>

\* The asset is complete: a media element asks for nothing more.
Complete ==
    /\ Missing = {} /\ request = Nothing /\ answer = Nothing
    /\ UNCHANGED streamVars

StreamNext ==
    \/ AskRest \/ Handle \/ Receive \/ Complete
    \/ \E method \in {"GET", "HEAD"}, header \in Headers : AskRanges(method, header)

\* Requests are answered, and a media element that wants the rest of the asset
\* gets its turn between the other requests.
StreamFairness == WF_streamVars(Handle) /\ WF_streamVars(Receive) /\ SF_streamVars(AskRest)

StreamSpec == StreamInit /\ [][StreamNext]_streamVars /\ StreamFairness

-----------------------------------------------------------------------------
(* Properties                                                              *)

\* Whatever the webview asked for, and in whatever order, each byte it stored
\* is the byte of the asset at that offset: the Content-Range of every part
\* agrees with its body (bundle.rs:204-300 and extract_buf).
BytesInPlace == \A o \in DOMAIN have : o < size /\ have[o] = o

\* A single-part answer carries as many bytes as its Content-Length says, at
\* least one and at most MAX_LEN (bundle.rs:218-239); no slice is out of bounds.
PartsMatchHeaders ==
    answer # Nothing =>
        /\ \A b \in answer.bodies :
              /\ ~ b.panics
              /\ Len(b.bytes) = b.part.end + 1 - b.part.start
              /\ Len(b.bytes) \in 1..MAX_LEN
        /\ answer.status = 206 /\ ~ answer.multipart =>
              \A p \in answer.parts : answer.contentLength = p.end + 1 - p.start

\* Who asks for everything from an offset in the asset gets MAX_LEN bytes from
\* that offset on, or all there are; what an answer carries is stored, and
\* nothing stored is lost (bundle.rs:215-243, 349-361).  So each such request
\* brings the asset nearer to complete, whatever else is asked for.
EachAskAdvances ==
    [][/\ DOMAIN have \subseteq DOMAIN have'
       /\ request # Nothing /\ request.method = "GET" /\ answer' # answer =>
             \A o \in 0..(size - 1) : request.header = <<Open(o)>> =>
                \E b \in answer'.bodies : b.part.start = o /\ Len(b.bytes) = Least({size - o, MAX_LEN})
       /\ answer # Nothing /\ answer' # answer =>
             \A b \in answer.bodies :
                b.part.start .. (b.part.start + Len(b.bytes) - 1) \subseteq DOMAIN have']_streamVars

\* A media element that asks again and again for the rest gets the whole
\* asset, although an answer is cut off after MAX_LEN bytes (bundle.rs:214)
\* and other requests come in between.
StreamCompletes == <>[](Missing = {})
=============================================================================
