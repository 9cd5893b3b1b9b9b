---------------------------- MODULE BundleFormat ----------------------------
(***************************************************************************)
(* The .wvb file format of packages/core/src: BundleBuilder collects       *)
(* entries and lays them out, BundleWriter writes header, index and data   *)
(* one after the other, BundleReader reads a descriptor or a whole bundle  *)
(* back, and get_data looks one path up in it.                             *)
(*                                                                         *)
(* The two loops of build() run one iteration a step: they go through the  *)
(* same map separately, one to hand out offsets, one to lay out the bytes. *)
(* A reader may come at any time, also while the file is being written.    *)
(*                                                                         *)
(* A byte is named by what it is part of: <<part, content, position>>, so  *)
(* a text decodes to what was encoded exactly when its bytes are all there *)
(* in their order.                                                         *)
(***************************************************************************)
EXTENDS Integers, Sequences, FiniteSets

CONSTANTS
    Paths,          \* the keys of BundleBuilder.entries
    Contents,       \* what insert_entry gives a path: lz4 blocks
    PackedLen,      \* the length of each
    IndexLens,      \* lengths the encoded index may have
    U32,            \* 2^32: the width of the header's index_size
    MaxDamage,      \* bytes of the file that may go bad
    None, Err, Garbage

ASSUME FormatAssumption ==
    /\ IsFiniteSet(Paths)
    /\ PackedLen \in [Contents -> Nat \ {0}]
    /\ IndexLens \subseteq Nat \ {0}
    /\ U32 \in Nat \ {0}
    /\ MaxDamage \in Nat
    /\ None \notin Contents /\ Err \notin Contents /\ Garbage \notin Contents
    /\ Cardinality({None, Err, Garbage}) = 3

MAGIC_LEN == 8
VERSION_LEN == 1
INDEX_SIZE_LEN == 4
CHECKSUM_LEN == 4

CHECKSUM_OFFSET == MAGIC_LEN + VERSION_LEN + INDEX_SIZE_LEN
END_OFFSET == CHECKSUM_OFFSET + CHECKSUM_LEN

VARIABLES
    entries,    \* BundleBuilder.entries: path -> content, or None
    stage,      \* where the build and the writing stand
    order,      \* the order in which the map is iterated
    done,       \* iterations of the current loop that are over
    offset,     \* build_index: the next entry's offset
    index,      \* path -> [offset, len]
    indexLen,   \* the length of the encoded index
    data,       \* build_data: the data section
    file,       \* the bytes in the file
    damage,     \* how many of them went bad
    reader,     \* what a reader holds: a descriptor or a bundle
    answer      \* what its last get_data returned

vars == <<entries, stage, order, done, offset, index, indexLen, data, file,
          damage, reader, answer>>

building == <<order, done, offset, index, indexLen, data>>

Bytes(part, c, n) == [k \in 1..n |-> <<part, c, k>>]

Damaged == <<"damaged", None, 0>>

Slot == [offset : Nat, len : Nat]

\* Header::index_end_offset
DataStart(size) == END_OFFSET + size + CHECKSUM_LEN

HeaderText == Bytes("magic", None, MAGIC_LEN) \o Bytes("version", None, VERSION_LEN)
                \o Bytes("size", None, INDEX_SIZE_LEN)

\* IndexWriter: the encoded index and its checksum
IndexText == Bytes("index", None, indexLen) \o Bytes("indexsum", None, CHECKSUM_LEN)

\* Mutated form: the checksum is counted in.
IndexSizeWithChecksum == (indexLen + CHECKSUM_LEN) % U32

\* build_header: the length as u32
IndexSize == indexLen % U32

\* Read::read_exact at a position: the bytes, if they are all there
Reaches(bytes, from, n) == from + n <= Len(bytes)
At(bytes, from, n) == SubSeq(bytes, from + 1, from + n)

NoReader == [kind |-> "none", size |-> 0, index |-> << >>, data |-> << >>,
             verified |-> FALSE, whole |-> FALSE]

NoAnswer == [path |-> None, result |-> None, complete |-> FALSE]

-----------------------------------------------------------------------------

Init ==
    /\ entries = [p \in Paths |-> None]
    /\ stage = "editing"
    /\ order = << >> /\ done = 0 /\ offset = 0
    /\ index = << >> /\ indexLen = 0 /\ data = << >>
    /\ file = << >> /\ damage = 0
    /\ reader = NoReader /\ answer = NoAnswer

(* insert_entry, also over an entry; remove_entry *)
InsertEntry(p, c) ==
    /\ stage = "editing"
    /\ entries' = [entries EXCEPT ![p] = c]
    /\ UNCHANGED <<stage, building, file, damage, reader, answer>>

RemoveEntry(p) ==
    /\ stage = "editing"
    /\ entries' = [entries EXCEPT ![p] = None]
    /\ UNCHANGED <<stage, building, file, damage, reader, answer>>

Inserted == {p \in Paths : entries[p] # None}

(* The map is iterated in any order, the same one while nothing changes it. *)
Orders == {o \in [1..Cardinality(Inserted) -> Inserted] :
              \A p \in Inserted : \E i \in DOMAIN o : \A j \in DOMAIN o : o[j] = p <=> j = i}

BeginBuild ==
    /\ stage = "editing"
    /\ order' \in Orders
    /\ stage' = "indexing"
    /\ UNCHANGED <<entries, done, offset, index, indexLen, data, file, damage, reader, answer>>

-----------------------------------------------------------------------------
(* build_index, build_header, build_data                                   *)

\* Mutated form: the checksum that follows an entry is not counted.
IndexNextWithoutChecksum ==
    /\ stage = "indexing" /\ done < Len(order)
    /\ LET p == order[done + 1]
           len == PackedLen[entries[p]]
       IN  /\ index' = [q \in DOMAIN index \cup {p} |->
                          IF q = p THEN [offset |-> offset, len |-> len] ELSE index[q]]
           /\ offset' = offset + len
    /\ done' = done + 1
    /\ UNCHANGED <<entries, stage, order, indexLen, data, file, damage, reader, answer>>

IndexNext ==
    /\ stage = "indexing" /\ done < Len(order)
    /\ LET p == order[done + 1]
           len == PackedLen[entries[p]]
       IN  /\ index' = [q \in DOMAIN index \cup {p} |->
                          IF q = p THEN [offset |-> offset, len |-> len] ELSE index[q]]
           /\ offset' = offset + len + CHECKSUM_LEN
    /\ done' = done + 1
    /\ UNCHANGED <<entries, stage, order, indexLen, data, file, damage, reader, answer>>

BuildHeader ==
    /\ stage = "indexing" /\ done = Len(order)
    /\ indexLen' \in IndexLens
    /\ stage' = "packing"
    /\ done' = 0
    /\ UNCHANGED <<entries, order, offset, index, data, file, damage, reader, answer>>

\* The bytes of one entry in the data section.
Packed(c) == Bytes("data", c, PackedLen[c]) \o Bytes("datasum", c, CHECKSUM_LEN)

PackNext ==
    /\ stage = "packing" /\ done < Len(order)
    /\ data' = data \o Packed(entries[order[done + 1]])
    /\ done' = done + 1
    /\ UNCHANGED <<entries, stage, order, offset, index, indexLen, file, damage, reader, answer>>

FinishBuild ==
    /\ stage = "packing" /\ done = Len(order)
    /\ stage' = "built"
    /\ UNCHANGED <<entries, building, file, damage, reader, answer>>

-----------------------------------------------------------------------------
(* BundleWriter::write                                                     *)

\* What the writer writes next, and where it is then.
Piece == CASE stage = "built"  -> HeaderText \o Bytes("headersum", None, CHECKSUM_LEN)
           [] stage = "header" -> IndexText
           [] stage = "index"  -> data

NextStage == CASE stage = "built" -> "header" [] stage = "header" -> "index"
               [] stage = "index" -> "written"

WritePiece ==
    /\ stage \in {"built", "header", "index"}
    /\ damage = 0
    /\ file' = file \o Piece
    /\ stage' = NextStage
    /\ UNCHANGED <<entries, building, damage, reader, answer>>

(* The process dies, or write_all fails after some of the bytes. *)
FailWrite ==
    /\ stage \in {"built", "header", "index"}
    /\ damage = 0
    /\ \E n \in 0..Len(Piece) : file' = file \o SubSeq(Piece, 1, n)
    /\ stage' = "torn"
    /\ UNCHANGED <<entries, building, damage, reader, answer>>

(* A byte of the finished file goes bad. *)
Damage ==
    /\ stage \in {"written", "torn"} /\ damage < MaxDamage
    /\ \E i \in DOMAIN file : file' = [file EXCEPT ![i] = Damaged]
    /\ damage' = damage + 1
    /\ UNCHANGED <<entries, stage, building, reader, answer>>

-----------------------------------------------------------------------------
(* BundleReader::read_header and read_index                                *)

Intact == stage = "written" /\ damage = 0 /\ indexLen < U32

HeaderReads ==
    /\ Reaches(file, 0, END_OFFSET)
    /\ At(file, 0, MAGIC_LEN + VERSION_LEN)
         = Bytes("magic", None, MAGIC_LEN) \o Bytes("version", None, VERSION_LEN)

\* What the four bytes of the index size parse to; bad ones are some number.
Sizes == IF ~HeaderReads THEN {}
         ELSE IF At(file, MAGIC_LEN + VERSION_LEN, INDEX_SIZE_LEN)
                   = Bytes("size", None, INDEX_SIZE_LEN)
              THEN {IndexSize}
              ELSE 0..Len(file)

HeaderVerifies ==
    /\ At(file, 0, CHECKSUM_OFFSET) = HeaderText
    /\ At(file, CHECKSUM_OFFSET, CHECKSUM_LEN) = Bytes("headersum", None, CHECKSUM_LEN)

IndexReads(size) == Reaches(file, END_OFFSET, size + CHECKSUM_LEN)

Without(p) == [q \in DOMAIN index \ {p} |-> index[q]]

Moved(p, n) == [q \in DOMAIN index |->
                  IF q = p THEN [offset |-> n, len |-> index[p].len] ELSE index[q]]

\* An index with a bad byte that still decodes: a path lost, or an offset changed.
Misreadings == {Without(p) : p \in DOMAIN index}
                \cup {Moved(p, n) : p \in DOMAIN index, n \in 0..Len(data)}

\* bincode ignores what follows the index, and fails when some of it is missing.
Decoded(size) ==
    LET buf == At(file, END_OFFSET, size)
    IN  IF size >= indexLen /\ SubSeq(buf, 1, indexLen) = Bytes("index", None, indexLen)
        THEN {index}
        ELSE IF \E k \in DOMAIN buf : buf[k] = Damaged THEN Misreadings ELSE {}

\* Mutated form: the checksum is read, but not compared with the index's own.
IndexVerifiesNot(size) == TRUE

IndexVerifies(size) ==
    /\ At(file, END_OFFSET, size) = Bytes("index", None, indexLen)
    /\ At(file, END_OFFSET + size, CHECKSUM_LEN) = Bytes("indexsum", None, CHECKSUM_LEN)

\* The indexes that may be read when the header says the index has this size.
Readings(size, verify) ==
    IF IndexReads(size) /\ (verify => HeaderVerifies /\ IndexVerifies(size))
    THEN Decoded(size) ELSE {}

OpenAnswer(result) == [path |-> None, result |-> result, complete |-> Intact]

(***************************************************************************)
(* A descriptor is read, or with read_data a whole bundle: everything      *)
(* after the index, also when that is less than the index says.  A header  *)
(* or index reader verifies the checksums only when it is told to;         *)
(* BundleReader takes the default options, which do not.                   *)
(***************************************************************************)
Open(kind, verify) ==
    /\ reader = NoReader
    /\ \E size \in Sizes : \E ix \in Readings(size, verify) :
         reader' = [kind |-> kind, size |-> size, index |-> ix,
                    data |-> IF kind = "bundle"
                             THEN SubSeq(file, DataStart(size) + 1, Len(file)) ELSE << >>,
                    verified |-> verify, whole |-> Intact]
    /\ answer' = OpenAnswer(None)
    /\ UNCHANGED <<entries, stage, building, file, damage>>

FailOpen(verify) ==
    /\ reader = NoReader
    /\ \A size \in Sizes : Readings(size, verify) # {index}
    /\ answer' = OpenAnswer(Err)
    /\ UNCHANGED <<entries, stage, building, file, damage, reader>>

(* What BundleBuilder::build returns is a bundle too: no file in between. *)
TakeBuilt ==
    /\ reader = NoReader
    /\ stage = "built"
    /\ reader' = [kind |-> "bundle", size |-> IndexSize, index |-> index, data |-> data,
                  verified |-> FALSE, whole |-> TRUE]
    /\ answer' = NoAnswer
    /\ UNCHANGED <<entries, stage, building, file, damage>>

Close ==
    /\ reader # NoReader
    /\ reader' = NoReader /\ answer' = NoAnswer
    /\ UNCHANGED <<entries, stage, building, file, damage>>

-----------------------------------------------------------------------------
(* get_data and get_data_checksum of a descriptor and of a bundle          *)

Source == IF reader.kind = "descriptor" THEN file ELSE reader.data

Base == IF reader.kind = "descriptor" THEN DataStart(reader.size) ELSE 0

\* parse_entry: lz4 block to content; nothing compares the entry's checksum.
Unpacked(buf) ==
    IF \E c \in Contents : buf = Bytes("data", c, PackedLen[c])
    THEN {c \in Contents : buf = Bytes("data", c, PackedLen[c])}
    ELSE {Err, Garbage}

ParsedChecksum(buf) ==
    IF \E c \in Contents : buf = Bytes("datasum", c, CHECKSUM_LEN)
    THEN {c \in Contents : buf = Bytes("datasum", c, CHECKSUM_LEN)}
    ELSE {Garbage}

\* BundleDataReader::read_entry_data
EntryData(slot) ==
    IF Reaches(Source, Base + slot.offset, slot.len)
    THEN Unpacked(At(Source, Base + slot.offset, slot.len)) ELSE {Err}

\* BundleDataReader::read_entry_checksum
EntryChecksum(slot) ==
    IF Reaches(Source, Base + slot.offset + slot.len, CHECKSUM_LEN)
    THEN ParsedChecksum(At(Source, Base + slot.offset + slot.len, CHECKSUM_LEN)) ELSE {Err}

AnswerWith(p, results) ==
    /\ \E r \in results :
         answer' = [path |-> p, result |-> r,
                    complete |-> IF reader.kind = "descriptor" THEN Intact ELSE reader.whole]
    /\ UNCHANGED <<entries, stage, building, file, damage, reader>>

GetData(p) ==
    /\ reader # NoReader
    /\ AnswerWith(p, IF p \in DOMAIN reader.index THEN EntryData(reader.index[p]) ELSE {None})

GetDataChecksum(p) ==
    /\ reader # NoReader
    /\ AnswerWith(p, IF p \in DOMAIN reader.index THEN EntryChecksum(reader.index[p]) ELSE {None})

-----------------------------------------------------------------------------

Next ==
    \/ \E p \in Paths : RemoveEntry(p) \/ \E c \in Contents : InsertEntry(p, c)
    \/ BeginBuild \/ IndexNext \/ BuildHeader \/ PackNext \/ FinishBuild
    \/ WritePiece \/ FailWrite \/ Damage
    \/ \E verify \in BOOLEAN :
         FailOpen(verify) \/ \E kind \in {"descriptor", "bundle"} : Open(kind, verify)
    \/ TakeBuilt \/ Close
    \/ \E p \in Paths : GetData(p) \/ GetDataChecksum(p)

Spec == Init /\ [][Next]_vars

-----------------------------------------------------------------------------
(* Properties                                                              *)

Stages == {"editing", "indexing", "packing", "built", "header", "index", "written", "torn"}

Parts == {"magic", "version", "size", "headersum", "index", "indexsum", "data", "datasum", "damaged"}

Byte == Parts \X (Contents \cup {None}) \X Nat

IsIndex(f) == DOMAIN f \subseteq Paths /\ f \in [DOMAIN f -> Slot]

(* Builder, file, reader and answer keep their types. *)
TypeOK ==
    /\ entries \in [Paths -> Contents \cup {None}]
    /\ stage \in Stages
    /\ order \in Seq(Paths) /\ done \in 0..Len(order)
    /\ offset \in Nat
    /\ IsIndex(index)
    /\ indexLen \in Nat
    /\ data \in Seq(Byte) /\ file \in Seq(Byte)
    /\ damage \in 0..MaxDamage
    /\ DOMAIN reader = {"kind", "size", "index", "data", "verified", "whole"}
    /\ reader.kind \in {"none", "descriptor", "bundle"} /\ reader.size \in Nat
    /\ IsIndex(reader.index) /\ reader.data \in Seq(Byte)
    /\ reader.verified \in BOOLEAN /\ reader.whole \in BOOLEAN
    /\ answer \in [path : Paths \cup {None}, result : Contents \cup {None, Err, Garbage},
                   complete : BOOLEAN]

(***************************************************************************)
(* As long as no byte went bad, a bundle, a descriptor, or one that was    *)
(* read while the file was being written or after a crash cut it short,    *)
(* answers a path with the entry that was inserted for it, with its        *)
(* checksum, or with an error: never with another entry, with bytes across *)
(* entries, or with "no such path" for a path that has one.                *)
(***************************************************************************)
AnswersOwnEntry ==
    damage = 0 /\ answer.path # None => answer.result \in {entries[answer.path], Err}

(***************************************************************************)
(* A bundle that was built, or written completely, can be opened and every *)
(* path in it read: what the builder lays out is where the reader looks,   *)
(* for every order of the map and every length of the index that fits its  *)
(* field.                                                                  *)
(***************************************************************************)
WholeBundleReads == damage = 0 /\ answer.complete => answer.result # Err

(***************************************************************************)
(* A descriptor whose checksums were verified is the one that was written, *)
(* whichever byte of the file went bad.                                    *)
(***************************************************************************)
VerifiedIsWritten ==
    reader.verified => reader.index = index /\ reader.size = indexLen
=============================================================================
