------------------------- MODULE BundleFormatProofs -------------------------
(***************************************************************************)
(* What a bundle answers, for every number of paths, every length of the   *)
(* entries and of the index, and every order of the map.                   *)
(*                                                                         *)
(* The argument follows the code.  Laid out: the offsets build_index hands *)
(* out are where build_data puts the entries (IndexBuilt, DataBuilt).      *)
(* Written: the file is a prefix of header, index and data (FileWritten).  *)
(* Read: a reader therefore holds the index that was built, and a prefix   *)
(* of the data (ReaderHolds), and answers from them (AnswerRight).  All of *)
(* these speak of the time before a byte goes bad; what a reader that      *)
(* verifies checksums holds is what was written also after it (Verified).  *)
(***************************************************************************)
EXTENDS BundleFormat, SequenceTheorems, FiniteSetTheorems, TLAPS

-----------------------------------------------------------------------------
(* Texts and parts of them                                                 *)

(* A text has a byte for each position, and its bytes are well typed. *)
LEMMA BytesProperties ==
    ASSUME NEW part \in Parts, NEW c \in Contents \cup {None}, NEW n \in Nat
    PROVE  /\ Bytes(part, c, n) \in Seq(Byte)
           /\ Len(Bytes(part, c, n)) = n
           /\ \A k \in 1..n : Bytes(part, c, n)[k] = <<part, c, k>>
  <1>1. \A k \in 1..n : <<part, c, k>> \in Byte  BY DEF Byte
  <1>2. Bytes(part, c, n) \in [1..n -> Byte]  BY <1>1 DEF Bytes
  <1>3. Bytes(part, c, n) \in Seq(Byte)  BY <1>2
  <1>4. Len(Bytes(part, c, n)) = n  BY <1>2, <1>3, LenProperties
  <1> QED  BY <1>3, <1>4 DEF Bytes

(* read_exact returns the bytes from its position on. *)
LEMMA AtProperties ==
    ASSUME NEW S, NEW bytes \in Seq(S), NEW from \in Nat, NEW n \in Nat,
           Reaches(bytes, from, n)
    PROVE  /\ At(bytes, from, n) \in Seq(S)
           /\ Len(At(bytes, from, n)) = n
           /\ \A k \in 1..n : At(bytes, from, n)[k] = bytes[from + k]
  <1>1. Len(bytes) \in Nat /\ from + n <= Len(bytes)  BY LenProperties DEF Reaches
  <1>2. \A i \in from + 1 .. from + n : bytes[i] \in S  BY <1>1, ElementOfSeq
  <1>3. At(bytes, from, n) \in Seq(S) /\ Len(At(bytes, from, n)) = n
    BY <1>2, SubSeqProperties DEF At
  <1>4. \A k \in 1..n : At(bytes, from, n)[k] = bytes[from + k]  BY <1>1 DEF At
  <1> QED  BY <1>3, <1>4

(* Two sequences with the same elements are the same text. *)
LEMMA IsBytes ==
    ASSUME NEW part \in Parts, NEW c \in Contents \cup {None}, NEW n \in Nat,
           NEW buf \in Seq(Byte), Len(buf) = n,
           \A k \in 1..n : buf[k] = <<part, c, k>>
    PROVE  buf = Bytes(part, c, n)
  <1>1. /\ Bytes(part, c, n) \in Seq(Byte) /\ Len(Bytes(part, c, n)) = n
        /\ \A k \in 1..n : Bytes(part, c, n)[k] = <<part, c, k>>
    BY BytesProperties
  <1>2. \A k \in 1..Len(buf) : buf[k] = Bytes(part, c, n)[k]  BY <1>1
  <1> QED  BY <1>1, <1>2, SeqEqual

(* The bytes of an entry name its content: no other content has them. *)
LEMMA BytesNameContent ==
    ASSUME NEW part \in Parts, NEW c \in Contents, NEW d \in Contents,
           NEW n \in Nat \ {0}, NEW m \in Nat \ {0},
           Bytes(part, c, n) = Bytes(part, d, m)
    PROVE  c = d
  <1>1. Bytes(part, c, n)[1] = <<part, c, 1>> /\ Bytes(part, d, m)[1] = <<part, d, 1>>
    BY BytesProperties
  <1> QED  BY <1>1

-----------------------------------------------------------------------------
(* Typing                                                                  *)

Unwritten == {"editing", "indexing", "packing", "built"}

(* Which variables have been given a value at which stage. *)
Shape ==
    /\ stage = "editing" => order = << >> /\ done = 0 /\ index = << >> /\ offset = 0
    /\ stage # "editing" => order \in Orders
    /\ stage \in {"editing", "indexing"} => data = << >>
    /\ stage \notin {"editing", "indexing"} => indexLen \in IndexLens
    /\ stage \notin {"editing", "indexing", "packing"} => done = Len(order)
    /\ stage \in Unwritten => file = << >>
    /\ stage \notin {"written", "torn"} => damage = 0

Typed == TypeOK /\ Shape

(* An order lists paths that have an entry, each once. *)
LEMMA OrderProperties ==
    ASSUME TypeOK, NEW o \in Orders
    PROVE  /\ o \in Seq(Paths)
           /\ \A i \in 1..Len(o) :
                /\ o[i] \in Inserted
                /\ entries[o[i]] \in Contents
                /\ PackedLen[entries[o[i]]] \in Nat \ {0}
           /\ \A i, j \in 1..Len(o) : o[i] = o[j] => i = j
           /\ \A p \in Inserted : \E i \in 1..Len(o) : o[i] = p
  <1>1. IsFiniteSet(Inserted)  BY FS_Subset, FormatAssumption DEF Inserted
  <1>2. Cardinality(Inserted) \in Nat  BY <1>1, FS_CardinalityType
  <1>3. o \in [1..Cardinality(Inserted) -> Inserted]  BY DEF Orders
  <1>4. o \in Seq(Inserted) /\ Len(o) = Cardinality(Inserted)
    BY <1>2, <1>3, LenProperties
  <1>5. o \in Seq(Paths)  BY <1>4, SeqMonotonic DEF Inserted
  <1>6. \A p \in Inserted : entries[p] \in Contents /\ PackedLen[entries[p]] \in Nat \ {0}
    BY FormatAssumption DEF Inserted, TypeOK
  <1>7. DOMAIN o = 1..Len(o)  BY <1>4, LenProperties
  <1>8. \A i \in 1..Len(o) : o[i] \in Inserted  BY <1>3, <1>4
  <1>9. \A p \in Inserted : \E i \in 1..Len(o) : \A j \in 1..Len(o) : o[j] = p <=> j = i
    <2>1. \A p \in Inserted : \E i \in DOMAIN o : \A j \in DOMAIN o : o[j] = p <=> j = i
      BY Zenon DEF Orders
    <2>2. TAKE p \in Inserted
    <2>3. PICK i \in DOMAIN o : \A j \in DOMAIN o : o[j] = p <=> j = i
      BY <2>1
    <2>4. i \in 1..Len(o) /\ \A j \in 1..Len(o) : o[j] = p <=> j = i
      BY <2>3, <1>7
    <2> QED  BY <2>4
  <1>10. \A i, j \in 1..Len(o) : o[i] = o[j] => i = j
    BY <1>8, <1>9
  <1> QED  BY <1>5, <1>6, <1>8, <1>9, <1>10
(* The texts of a bundle, and what a writer adds to the file. *)
LEMMA TextsTyped ==
    ASSUME TypeOK
    PROVE  /\ HeaderText \in Seq(Byte)
           /\ IndexText \in Seq(Byte)
           /\ \A c \in Contents : Packed(c) \in Seq(Byte)
           /\ stage \in {"built", "header", "index"} => Piece \in Seq(Byte)
  <1> DEFINE B(part, n) == Bytes(part, None, n)
  <1>1. \A part \in Parts, c \in Contents \cup {None}, n \in Nat : Bytes(part, c, n) \in Seq(Byte)
    BY BytesProperties
  <1>2. HeaderText \in Seq(Byte)
    <2>1. B("magic", MAGIC_LEN) \in Seq(Byte) /\ B("version", VERSION_LEN) \in Seq(Byte)
          /\ B("size", INDEX_SIZE_LEN) \in Seq(Byte)
      BY <1>1 DEF Parts, MAGIC_LEN, VERSION_LEN, INDEX_SIZE_LEN
    <2> QED  BY <2>1, ConcatProperties DEF HeaderText
  <1>3. IndexText \in Seq(Byte)
    <2>1. B("index", indexLen) \in Seq(Byte) /\ B("indexsum", CHECKSUM_LEN) \in Seq(Byte)
      BY <1>1 DEF Parts, CHECKSUM_LEN, TypeOK
    <2> QED  BY <2>1, ConcatProperties DEF IndexText
  <1>4. ASSUME NEW c \in Contents  PROVE Packed(c) \in Seq(Byte)
    <2>1. Bytes("data", c, PackedLen[c]) \in Seq(Byte) /\ Bytes("datasum", c, CHECKSUM_LEN) \in Seq(Byte)
      BY <1>1, FormatAssumption DEF Parts, CHECKSUM_LEN
    <2> QED  BY <2>1, ConcatProperties DEF Packed
  <1>5. HeaderText \o Bytes("headersum", None, CHECKSUM_LEN) \in Seq(Byte)
    <2>1. Bytes("headersum", None, CHECKSUM_LEN) \in Seq(Byte)
      BY <1>1 DEF Parts, CHECKSUM_LEN
    <2> QED  BY <1>2, <2>1, ConcatProperties
  <1>6. stage \in {"built", "header", "index"} => Piece \in Seq(Byte)
    BY <1>3, <1>5 DEF Piece, TypeOK
  <1> QED  BY <1>2, <1>3, <1>4, <1>6

LEMMA InitTyped == Init => Typed
  BY FormatAssumption, EmptySeq DEF Init, Typed, TypeOK, Shape, NoReader, NoAnswer, Unwritten, Stages, IsIndex

(* An answer is typed whenever the set it is taken from is. *)
LEMMA ResultsTyped ==
    ASSUME TypeOK, NEW slot \in Slot
    PROVE  /\ EntryData(slot) \subseteq Contents \cup {None, Err, Garbage}
           /\ EntryChecksum(slot) \subseteq Contents \cup {None, Err, Garbage}
  BY DEF EntryData, EntryChecksum, Unpacked, ParsedChecksum
(* A function from some paths to slots is an index. *)
LEMMA IndexIntro ==
    ASSUME NEW D \in SUBSET Paths, NEW f \in [D -> Slot]
    PROVE  IsIndex(f)
  <1>1. DOMAIN f = D  OBVIOUS
  <1> QED  BY <1>1 DEF IsIndex

(* What a reader reads is typed. *)
LEMMA OpenTyped ==
    ASSUME Typed, NEW kind \in {"descriptor", "bundle"}, NEW verify \in BOOLEAN,
           Open(kind, verify)
    PROVE  Typed'
  <1>0. PICK size \in Sizes : \E i \in Readings(size, verify) :
          reader' = [kind |-> kind, size |-> size, index |-> i,
                    data |-> IF kind = "bundle"
                             THEN SubSeq(file, DataStart(size) + 1, Len(file)) ELSE << >>,
                    verified |-> verify, whole |-> Intact]
    BY DEF Open
  <1>1. PICK ix \in Readings(size, verify) :
          reader' = [kind |-> kind, size |-> size, index |-> ix,
                    data |-> IF kind = "bundle"
                             THEN SubSeq(file, DataStart(size) + 1, Len(file)) ELSE << >>,
                    verified |-> verify, whole |-> Intact]
    BY <1>0
  <1>2. file \in Seq(Byte) /\ Len(file) \in Nat  BY LenProperties DEF Typed, TypeOK
  <1>3. size \in Nat
    <2>1. IndexSize \in Nat  BY FormatAssumption DEF IndexSize, Typed, TypeOK
    <2> QED  BY <2>1, <1>2 DEF Sizes
  <1>4. IsIndex(ix)
    <2>1. IsIndex(index)  BY DEF Typed, TypeOK
    <2>2. ix = index \/ ix \in Misreadings  BY DEF Readings, Decoded
    <2>3. ASSUME ix \in Misreadings  PROVE IsIndex(ix)
      <3>1. ASSUME NEW p \in DOMAIN index  PROVE IsIndex(Without(p))
        BY <2>1 DEF IsIndex, Without
      <3>2. ASSUME NEW p \in DOMAIN index, NEW n \in Nat  PROVE IsIndex(Moved(p, n))
        <4>1. \A q \in DOMAIN index : index[q] \in Slot  BY <2>1 DEF IsIndex
        <4>2. [offset |-> n, len |-> index[p].len] \in Slot  BY <4>1 DEF Slot
        <4>3. Moved(p, n) \in [DOMAIN index -> Slot]  BY <4>1, <4>2 DEF Moved
        <4>4. DOMAIN index \subseteq Paths  BY <2>1 DEF IsIndex
        <4> QED  BY <4>3, <4>4, IndexIntro
      <3>3. 0..Len(data) \subseteq Nat  BY LenProperties DEF Typed, TypeOK
      <3> QED  BY <2>3, <3>1, <3>2, <3>3 DEF Misreadings
    <2> QED  BY <2>1, <2>2, <2>3
  <1>5. reader'.data \in Seq(Byte)
    <2>1. DataStart(size) \in Nat
      BY <1>3 DEF DataStart, END_OFFSET, CHECKSUM_OFFSET, MAGIC_LEN, VERSION_LEN, INDEX_SIZE_LEN, CHECKSUM_LEN
    <2>2. \A i \in DataStart(size) + 1 .. Len(file) : file[i] \in Byte
      BY <1>2, <2>1, ElementOfSeq
    <2>3. SubSeq(file, DataStart(size) + 1, Len(file)) \in Seq(Byte)
      BY <1>2, <2>1, <2>2, SubSeqProperties
    <2> QED  BY <1>1, <2>3
  <1>6. Intact \in BOOLEAN  BY DEF Intact
  <1>7. DOMAIN reader' = {"kind", "size", "index", "data", "verified", "whole"}  BY <1>1
  <1>8. /\ reader'.kind \in {"none", "descriptor", "bundle"} /\ reader'.size \in Nat
        /\ IsIndex(reader'.index)
        /\ reader'.verified \in BOOLEAN /\ reader'.whole \in BOOLEAN
    BY <1>1, <1>3, <1>4, <1>6
  <1>9. answer' \in [path : Paths \cup {None}, result : Contents \cup {None, Err, Garbage},
                   complete : BOOLEAN]
    BY <1>6 DEF Open, OpenAnswer
  <1>10. UNCHANGED <<entries, stage, order, done, offset, index, indexLen, data, file, damage>>
    BY DEF Open, building
  <1>11. TypeOK'  BY <1>5, <1>7, <1>8, <1>9, <1>10 DEF Typed, TypeOK, IsIndex
  <1>12. Shape'  BY <1>10 DEF Typed, Shape, Orders, Inserted
  <1> QED  BY <1>11, <1>12 DEF Typed
(* One iteration of build_index. *)
LEMMA IndexNextTyped == ASSUME Typed, IndexNext  PROVE Typed'
  <1> DEFINE p == order[done + 1]
             len == PackedLen[entries[p]]
             new == [q \in DOMAIN index \cup {p} |->
                       IF q = p THEN [offset |-> offset, len |-> len] ELSE index[q]]
  <1>1. stage = "indexing" /\ done < Len(order) /\ done \in Nat /\ Len(order) \in Nat
    BY LenProperties DEF IndexNext, Typed, TypeOK
  <1>2. order \in Orders  BY <1>1 DEF Typed, Shape
  <1>3. p \in Paths /\ len \in Nat
    <2>1. order[done + 1] \in Inserted /\ PackedLen[entries[order[done + 1]]] \in Nat \ {0}
      BY <1>1, <1>2, OrderProperties DEF Typed
    <2> QED  BY <2>1 DEF Inserted
  <1>4. index' = new /\ offset' = offset + len + CHECKSUM_LEN /\ done' = done + 1
    BY DEF IndexNext
  <1>5. IsIndex(index')
    <2>1. [offset |-> offset, len |-> len] \in Slot  BY <1>3 DEF Slot, Typed, TypeOK
    <2>2. \A q \in DOMAIN index : index[q] \in Slot  BY DEF Typed, TypeOK, IsIndex
    <2>3. new \in [DOMAIN index \cup {p} -> Slot]  BY <2>1, <2>2
    <2>4. DOMAIN index \cup {p} \subseteq Paths  BY <1>3 DEF Typed, TypeOK, IsIndex
    <2>5. IsIndex(new)  BY <2>3, <2>4, IndexIntro
    <2>6. IsIndex(new) <=> IsIndex(index')  BY <1>4 DEF IsIndex
    <2> QED  BY <2>5, <2>6
  <1>6. done' \in 0..Len(order) /\ offset' \in Nat
    <2>1. offset \in Nat  BY DEF Typed, TypeOK
    <2> HIDE DEF p, len, new
    <2> QED  BY <1>1, <1>3, <1>4, <2>1 DEF CHECKSUM_LEN
  <1>7. UNCHANGED <<entries, stage, order, indexLen, data, file, damage, reader, answer>>
    BY DEF IndexNext
  <1>8. TypeOK'  BY <1>5, <1>6, <1>7 DEF Typed, TypeOK, IsIndex
  <1>9. Shape'  BY <1>1, <1>7 DEF Typed, Shape, Orders, Inserted, Unwritten
  <1> QED  BY <1>8, <1>9 DEF Typed

(* One iteration of build_data. *)
LEMMA PackNextTyped == ASSUME Typed, PackNext  PROVE Typed'
  <1>1. stage = "packing" /\ done < Len(order) /\ done \in Nat /\ Len(order) \in Nat
    BY LenProperties DEF PackNext, Typed, TypeOK
  <1>2. order \in Orders  BY <1>1 DEF Typed, Shape
  <1>3. entries[order[done + 1]] \in Contents  BY <1>1, <1>2, OrderProperties DEF Typed
  <1>4. Packed(entries[order[done + 1]]) \in Seq(Byte)  BY <1>3, TextsTyped DEF Typed
  <1>5. data' \in Seq(Byte)
    BY <1>4, ConcatProperties DEF PackNext, Typed, TypeOK
  <1>6. UNCHANGED <<entries, stage, order, offset, index, indexLen, file, damage, reader, answer>>
        /\ done' = done + 1
    BY DEF PackNext
  <1>7. TypeOK'  BY <1>1, <1>5, <1>6 DEF Typed, TypeOK, IsIndex
  <1>8. Shape'  BY <1>1, <1>6 DEF Typed, Shape, Orders, Inserted, Unwritten
  <1> QED  BY <1>7, <1>8 DEF Typed

(* The writer appends typed pieces, whole or in part. *)
LEMMA WriteTyped == ASSUME Typed, WritePiece \/ FailWrite  PROVE Typed'
  <1>1. stage \in {"built", "header", "index"}  BY DEF WritePiece, FailWrite
  <1>2. Piece \in Seq(Byte) /\ Len(Piece) \in Nat
    BY <1>1, TextsTyped, LenProperties DEF Typed
  <1>3. file' \in Seq(Byte)
    <2>1. CASE WritePiece
      BY <1>2, <2>1, ConcatProperties DEF WritePiece, Typed, TypeOK
    <2>2. CASE FailWrite
      <3>1. PICK n \in 0..Len(Piece) : file' = file \o SubSeq(Piece, 1, n)
        BY <2>2 DEF FailWrite
      <3>2. \A i \in 1..n : Piece[i] \in Byte  BY <1>2, <3>1, ElementOfSeq
      <3>3. SubSeq(Piece, 1, n) \in Seq(Byte)  BY <3>1, <3>2, SubSeqProperties
      <3> QED  BY <3>1, <3>3, ConcatProperties DEF Typed, TypeOK
    <2> QED  BY <2>1, <2>2
  <1>4. stage' \in {"header", "index", "written", "torn"}
    BY <1>1 DEF WritePiece, FailWrite, NextStage
  <1>5. UNCHANGED <<entries, order, done, offset, index, indexLen, data, damage, reader, answer>>
    BY DEF WritePiece, FailWrite, building
  <1>6. TypeOK'  BY <1>3, <1>4, <1>5 DEF Typed, TypeOK, IsIndex, Stages
  <1>7. Shape'
    <2>1. damage = 0 /\ done = Len(order) /\ order \in Orders /\ indexLen \in IndexLens
      BY <1>1 DEF WritePiece, FailWrite, Typed, Shape
    <2> QED  BY <1>1, <1>4, <1>5, <2>1 DEF Typed, Shape, Orders, Inserted, Unwritten
  <1> QED  BY <1>6, <1>7 DEF Typed
(* The builder's edits, and the steps between its loops. *)
LEMMA BuilderTyped ==
    ASSUME Typed,
           \/ \E p \in Paths : RemoveEntry(p) \/ \E c \in Contents : InsertEntry(p, c)
           \/ BeginBuild \/ BuildHeader \/ FinishBuild
    PROVE  Typed'
  <1>1. CASE \E p \in Paths : RemoveEntry(p) \/ \E c \in Contents : InsertEntry(p, c)
    <2>0. entries \in [Paths -> Contents \cup {None}]  BY DEF Typed, TypeOK
    <2>1. entries' \in [Paths -> Contents \cup {None}] /\ stage = "editing"
      BY <1>1, <2>0 DEF RemoveEntry, InsertEntry
    <2>2. UNCHANGED <<stage, order, done, offset, index, indexLen, data, file, damage, reader, answer>>
      BY <1>1 DEF RemoveEntry, InsertEntry, building
    <2> QED  BY <2>1, <2>2 DEF Typed, TypeOK, Shape, IsIndex, Unwritten
  <1>2. CASE BeginBuild
    <2>1. /\ UNCHANGED <<entries, done, offset, index, indexLen, data, file, damage, reader, answer>>
          /\ stage = "editing" /\ stage' = "indexing"
          /\ order' \in Orders /\ done = 0
      BY <1>2 DEF BeginBuild, Typed, Shape
    <2>2. order' \in Seq(Paths) /\ Len(order') \in Nat
      BY <2>1, OrderProperties, LenProperties DEF Typed
    <2>3. Orders' = Orders  BY <2>1 DEF Orders, Inserted
    <2>4. TypeOK'  BY <2>1, <2>2 DEF Typed, TypeOK, IsIndex, Stages
    <2>5. Shape'  BY <2>1, <2>3 DEF Typed, Shape, Unwritten
    <2> QED  BY <2>4, <2>5 DEF Typed
  <1>3. CASE BuildHeader
    <2>1. /\ UNCHANGED <<entries, order, offset, index, data, file, damage, reader, answer>>
          /\ stage = "indexing" /\ stage' = "packing" /\ done' = 0 /\ indexLen' \in IndexLens
      BY <1>3 DEF BuildHeader
    <2>2. indexLen' \in Nat  BY <2>1, FormatAssumption
    <2>3. Len(order) \in Nat  BY LenProperties DEF Typed, TypeOK
    <2>4. Orders' = Orders  BY <2>1 DEF Orders, Inserted
    <2>5. TypeOK'  BY <2>1, <2>2, <2>3 DEF Typed, TypeOK, IsIndex, Stages
    <2>6. Shape'  BY <2>1, <2>4 DEF Typed, Shape, Unwritten
    <2> QED  BY <2>5, <2>6 DEF Typed
  <1>4. CASE FinishBuild
    <2>1. /\ UNCHANGED <<entries, order, done, offset, index, indexLen, data, file, damage, reader, answer>>
          /\ stage = "packing" /\ stage' = "built" /\ done = Len(order)
      BY <1>4 DEF FinishBuild, building
    <2>2. Orders' = Orders  BY <2>1 DEF Orders, Inserted
    <2>3. TypeOK'  BY <2>1 DEF Typed, TypeOK, IsIndex, Stages
    <2>4. Shape'  BY <2>1, <2>2 DEF Typed, Shape, Unwritten
    <2> QED  BY <2>3, <2>4 DEF Typed
  <1> QED  BY <1>1, <1>2, <1>3, <1>4

(* A bad byte, and the reader's steps that read no index. *)
LEMMA OtherTyped ==
    ASSUME Typed,
           \/ Damage \/ TakeBuilt \/ Close \/ \E verify \in BOOLEAN : FailOpen(verify)
           \/ \E p \in Paths : GetData(p) \/ GetDataChecksum(p)
    PROVE  Typed'
  <1>1. CASE Damage
    <2>1. PICK i \in DOMAIN file : file' = [file EXCEPT ![i] = Damaged]  BY <1>1 DEF Damage
    <2>2. i \in 1..Len(file) /\ file \in Seq(Byte)  BY LenProperties DEF Typed, TypeOK
    <2>3. Damaged \in Byte  BY DEF Damaged, Byte, Parts
    <2>4. file' \in Seq(Byte)  BY <2>1, <2>2, <2>3, ExceptSeq
    <2>5. UNCHANGED <<entries, stage, order, done, offset, index, indexLen, data, reader, answer>>
          /\ stage \in {"written", "torn"} /\ damage < MaxDamage /\ damage' = damage + 1
      BY <1>1 DEF Damage, building
    <2>6. Orders' = Orders
      <3>1. Inserted' = Inserted  BY <2>5 DEF Inserted
      <3> QED  BY <3>1, Zenon DEF Orders
    <2>7. TypeOK'
      <3>1. damage' \in 0..MaxDamage  BY <2>5, FormatAssumption DEF Typed, TypeOK
      <3>2. IsIndex(index)' /\ IsIndex(reader.index)'  BY <2>5 DEF Typed, TypeOK, IsIndex
      <3> QED  BY <2>4, <2>5, <3>1, <3>2 DEF Typed, TypeOK
    <2>8. Shape'  BY <2>5, <2>6 DEF Typed, Shape, Unwritten
    <2> QED  BY <2>7, <2>8 DEF Typed
  <1>2. CASE TakeBuilt \/ Close
    <2>1. UNCHANGED <<entries, stage, order, done, offset, index, indexLen, data, file, damage>>
      BY <1>2 DEF TakeBuilt, Close, building
    <2>2. IndexSize \in Nat  BY FormatAssumption DEF IndexSize, Typed, TypeOK
    <2>3. /\ DOMAIN reader' = {"kind", "size", "index", "data", "verified", "whole"}
          /\ reader'.kind \in {"none", "descriptor", "bundle"} /\ reader'.size \in Nat
          /\ reader'.data \in Seq(Byte)
          /\ reader'.verified \in BOOLEAN /\ reader'.whole \in BOOLEAN
      <3>1. << >> \in Seq(Byte) /\ data \in Seq(Byte)  BY EmptySeq DEF Typed, TypeOK
      <3>2. CASE TakeBuilt
        <4>1. reader' = [kind |-> "bundle", size |-> IndexSize, index |-> index, data |-> data,
                         verified |-> FALSE, whole |-> TRUE]
          BY <3>2 DEF TakeBuilt
        <4> QED  BY <2>2, <3>1, <4>1
      <3>3. CASE Close
        <4>1. reader' = [kind |-> "none", size |-> 0, index |-> << >>, data |-> << >>,
                         verified |-> FALSE, whole |-> FALSE]
          BY <3>3 DEF Close, NoReader
        <4> QED  BY <3>1, <4>1
      <3> QED  BY <1>2, <3>2, <3>3
    <2>4. IsIndex(reader'.index)
      <3>1. IsIndex(<< >>)  BY DEF IsIndex
      <3> QED  BY <1>2, <3>1 DEF TakeBuilt, Close, NoReader, Typed, TypeOK
    <2>5. answer' = NoAnswer  BY <1>2 DEF TakeBuilt, Close
    <2>6. Orders' = Orders  BY <2>1 DEF Orders, Inserted
    <2>7. TypeOK'  BY <2>1, <2>3, <2>4, <2>5 DEF Typed, TypeOK, IsIndex, NoAnswer
    <2>8. Shape'  BY <2>1, <2>6 DEF Typed, Shape, Unwritten
    <2> QED  BY <2>7, <2>8 DEF Typed
  <1>3. CASE \/ \E verify \in BOOLEAN : FailOpen(verify)
             \/ \E p \in Paths : GetData(p) \/ GetDataChecksum(p)
    <2>1. UNCHANGED <<entries, stage, order, done, offset, index, indexLen, data, file, damage, reader>>
      BY <1>3 DEF FailOpen, GetData, GetDataChecksum, AnswerWith, building
    <2>2. answer' \in [path : Paths \cup {None}, result : Contents \cup {None, Err, Garbage},
                      complete : BOOLEAN]
      <3>1. Intact \in BOOLEAN /\ reader.whole \in BOOLEAN  BY DEF Intact, Typed, TypeOK
      <3>2. CASE \E verify \in BOOLEAN : FailOpen(verify)
        BY <3>1, <3>2 DEF FailOpen, OpenAnswer
      <3>3. CASE \E p \in Paths : GetData(p) \/ GetDataChecksum(p)
        <4>1. PICK p \in Paths : GetData(p) \/ GetDataChecksum(p)  BY <3>3
        <4>2. p \in DOMAIN reader.index => reader.index[p] \in Slot  BY DEF Typed, TypeOK, IsIndex
        <4>3. \E r \in Contents \cup {None, Err, Garbage} :
                answer' = [path |-> p, result |-> r,
                           complete |-> IF reader.kind = "descriptor" THEN Intact ELSE reader.whole]
          BY <4>1, <4>2, ResultsTyped DEF GetData, GetDataChecksum, AnswerWith, Typed
        <4> QED  BY <3>1, <4>3
      <3> QED  BY <1>3, <3>2, <3>3
    <2>3. Orders' = Orders  BY <2>1 DEF Orders, Inserted
    <2>4. TypeOK'  BY <2>1, <2>2 DEF Typed, TypeOK, IsIndex
    <2>5. Shape'  BY <2>1, <2>3 DEF Typed, Shape, Unwritten
    <2> QED  BY <2>4, <2>5 DEF Typed
  <1> QED  BY <1>1, <1>2, <1>3

LEMMA StepTyped == Typed /\ [Next]_vars => Typed'
  <1> SUFFICES ASSUME Typed, [Next]_vars  PROVE Typed'
    OBVIOUS
  <1>1. CASE UNCHANGED vars
    <2>1. Orders' = Orders  BY <1>1 DEF vars, Orders, Inserted
    <2> QED  BY <1>1, <2>1 DEF vars, Typed, TypeOK, Shape, IsIndex, Unwritten
  <1>2. CASE \E kind \in {"descriptor", "bundle"}, verify \in BOOLEAN : Open(kind, verify)
    BY <1>2, OpenTyped
  <1> QED
    BY <1>1, <1>2, IndexNextTyped, PackNextTyped, WriteTyped, BuilderTyped, OtherTyped DEF Next

(* Builder, file, reader and answer keep their types. *)
THEOREM FormatTypeCorrect == Spec => []TypeOK
  <1>1. Spec => []Typed  BY InitTyped, StepTyped, PTL DEF Spec
  <1>2. Typed => TypeOK  BY DEF Typed
  <1> QED  BY <1>1, <1>2, PTL
-----------------------------------------------------------------------------
(* The layout                                                              *)

Building == {"editing", "indexing", "packing"}

\* How many entries, in the order of the map, are in the index and in the data.
Indexed == IF stage = "editing" THEN 0 ELSE IF stage = "indexing" THEN done ELSE Len(order)

PackedCount == IF stage \in {"editing", "indexing"} THEN 0
               ELSE IF stage = "packing" THEN done ELSE Len(order)

EndOf(p) == index[p].offset + index[p].len + CHECKSUM_LEN

(* Each entry is as long as its content, and begins where the last one ends. *)
IndexBuilt ==
    /\ DOMAIN index = {order[i] : i \in 1..Indexed}
    /\ \A i \in 1..Indexed :
         /\ index[order[i]].len = PackedLen[entries[order[i]]]
         /\ index[order[i]].offset = IF i = 1 THEN 0 ELSE EndOf(order[i - 1])
    /\ offset = IF Indexed = 0 THEN 0 ELSE EndOf(order[Indexed])

(* These bytes hold the entry of p, and its checksum, where its slot says. *)
Holds(bytes, p) ==
    /\ EndOf(p) <= Len(bytes)
    /\ \A k \in 1..index[p].len : bytes[index[p].offset + k] = <<"data", entries[p], k>>
    /\ \A k \in 1..CHECKSUM_LEN :
         bytes[index[p].offset + index[p].len + k] = <<"datasum", entries[p], k>>

DataBuilt ==
    /\ Len(data) = IF PackedCount = 0 THEN 0 ELSE EndOf(order[PackedCount])
    /\ \A i \in 1..PackedCount : Holds(data, order[i])

\* The whole file.
WholeHeader == HeaderText \o Bytes("headersum", None, CHECKSUM_LEN)

Full == (WholeHeader \o IndexText) \o data

IsPrefixOf(s, t) == Len(s) <= Len(t) /\ \A i \in 1..Len(s) : s[i] = t[i]

FileWritten ==
    damage = 0 /\ stage \notin Unwritten =>
        /\ IsPrefixOf(file, Full)
        /\ stage = "header" => file = WholeHeader
        /\ stage = "index" => file = WholeHeader \o IndexText
        /\ stage = "written" => file = Full

(* A reader comes after the build; without a bad byte it holds what was built. *)
ReaderHolds ==
    /\ reader.kind = "none" => reader = NoReader
    /\ reader.kind # "none" => stage \notin Building
    /\ damage = 0 /\ reader.kind # "none" =>
         /\ reader.index = index
         /\ reader.kind = "descriptor" => reader.size = indexLen
         /\ reader.kind = "bundle" => /\ IsPrefixOf(reader.data, data)
                                      /\ reader.whole => Len(reader.data) = Len(data)

AnswerRight ==
    /\ answer.path # None => stage \notin Building
    /\ AnswersOwnEntry
    /\ WholeBundleReads
-----------------------------------------------------------------------------
(* Offsets                                                                 *)

(* Past the loop of build_index nothing changes what it made. *)
Later == /\ UNCHANGED <<entries, order, offset, index>>
         /\ stage \notin {"editing", "indexing"} /\ stage' \notin {"editing", "indexing"}

LEMMA IndexKept ==
    ASSUME IndexBuilt, Later \/ UNCHANGED <<entries, order, offset, index, done, stage>>
    PROVE  IndexBuilt'
  <1>1. Indexed' = Indexed  BY DEF Later, Indexed
  <1>2. UNCHANGED <<entries, order, offset, index>>  BY DEF Later
  <1> QED  BY <1>1, <1>2 DEF IndexBuilt, EndOf

(* One iteration puts the next entry behind the ones before it. *)
LEMMA IndexNextBuilds == ASSUME Typed, IndexBuilt, IndexNext  PROVE IndexBuilt'
  <1> DEFINE n == done
             p == order[done + 1]
             len == PackedLen[entries[p]]
             End(q) == index'[q].offset + index'[q].len + CHECKSUM_LEN
  <1>1. stage = "indexing" /\ done < Len(order) /\ done \in Nat /\ Len(order) \in Nat
    BY LenProperties DEF IndexNext, Typed, TypeOK
  <1>2. order \in Orders  BY <1>1 DEF Typed, Shape
  <1>3. Indexed = n /\ Indexed' = n + 1  BY <1>1 DEF Indexed, IndexNext
  <1>4. /\ index' = [q \in DOMAIN index \cup {p} |->
                       IF q = p THEN [offset |-> offset, len |-> len] ELSE index[q]]
        /\ offset' = offset + len + CHECKSUM_LEN
        /\ UNCHANGED <<entries, order>>
    BY DEF IndexNext
  <1>5. \A i \in 1..n : order[i] # p /\ order[i] \in DOMAIN index
    <2>1. \A i \in 1..n : order[i] # p
      BY <1>1, <1>2, OrderProperties DEF Typed
    <2> QED  BY <2>1, <1>3 DEF IndexBuilt
  <1>6. \A i \in 1..n : index'[order[i]] = index[order[i]]  BY <1>4, <1>5
  <1>6a. \A i \in 1..n : End(order[i]) = EndOf(order[i])  BY <1>6 DEF EndOf
  <1>7. index'[p] = [offset |-> offset, len |-> len]  BY <1>4
  <1>8. DOMAIN index' = {order[i] : i \in 1..(n + 1)}
    <2>1. DOMAIN index = {order[i] : i \in 1..n}  BY <1>3 DEF IndexBuilt
    <2>2. DOMAIN index' = DOMAIN index \cup {order[n + 1]}  BY <1>4
    <2> QED  BY <2>1, <2>2, <1>1
  <1>9. ASSUME NEW i \in 1..(n + 1)
        PROVE  /\ index'[order[i]].len = PackedLen[entries[order[i]]]
               /\ index'[order[i]].offset = IF i = 1 THEN 0 ELSE End(order[i - 1])
    <2>1. CASE i \in 1..n
      <3>1. /\ index[order[i]].len = PackedLen[entries[order[i]]]
            /\ index[order[i]].offset = IF i = 1 THEN 0 ELSE EndOf(order[i - 1])
        BY <1>3, <2>1 DEF IndexBuilt
      <3>2. i # 1 => End(order[i - 1]) = EndOf(order[i - 1])
        BY <1>1, <1>6a, <2>1
      <3> QED  BY <1>6, <2>1, <3>1, <3>2
    <2>2. CASE i = n + 1
      <3>1. offset = IF n = 0 THEN 0 ELSE EndOf(order[n])  BY <1>3 DEF IndexBuilt
      <3>2. n # 0 => End(order[n]) = EndOf(order[n])
        BY <1>1, <1>6a
      <3> QED  BY <1>1, <1>7, <2>2, <3>1, <3>2
    <2> QED  BY <1>1, <2>1, <2>2
  <1>10. offset' = End(order[n + 1])
    BY <1>4, <1>7 DEF EndOf
  <1>11. \A i \in 1..(n + 1) :
           /\ index'[order'[i]].len = PackedLen[entries'[order'[i]]]
           /\ index'[order'[i]].offset = IF i = 1 THEN 0 ELSE End(order'[i - 1])
    <2>1. UNCHANGED <<entries, order>>  BY <1>4
    <2> HIDE DEF n, End
    <2> QED  BY <1>9, <2>1
  <1>12. offset' = End(order'[n + 1]) /\ n + 1 # 0  BY <1>1, <1>4, <1>10
  <1>13. DOMAIN index' = {order'[i] : i \in 1..(n + 1)}  BY <1>4, <1>8
  <1> QED  BY <1>3, <1>11, <1>12, <1>13 DEF IndexBuilt, EndOf

LEMMA IndexStep == Typed /\ IndexBuilt /\ [Next]_vars => IndexBuilt'
  <1> SUFFICES ASSUME Typed, IndexBuilt, [Next]_vars  PROVE IndexBuilt'
    OBVIOUS
  <1>1. CASE IndexNext  BY <1>1, IndexNextBuilds
  <1>2. CASE (\E p \in Paths : RemoveEntry(p) \/ \E c \in Contents : InsertEntry(p, c)) \/ BeginBuild
    <2>1. /\ stage = "editing" /\ index = << >> /\ offset = 0 /\ done = 0
          /\ index' = << >> /\ offset' = 0 /\ done' = 0 /\ stage' \in {"editing", "indexing"}
      BY <1>2 DEF RemoveEntry, InsertEntry, BeginBuild, building, Typed, Shape
    <2>2. Indexed' = 0  BY <2>1 DEF Indexed
    <2> QED  BY <2>1, <2>2 DEF IndexBuilt
  <1>3. CASE BuildHeader
    <2>1. Indexed' = Indexed /\ UNCHANGED <<entries, order, offset, index>>
      BY <1>3 DEF BuildHeader, Indexed
    <2> QED  BY <2>1 DEF IndexBuilt, EndOf
  <1>4. CASE PackNext \/ FinishBuild \/ WritePiece \/ FailWrite
    <2>1. Later
      BY <1>4 DEF PackNext, FinishBuild, WritePiece, FailWrite, building, Later, NextStage
    <2> QED  BY <2>1, IndexKept
  <1>5. ASSUME UNCHANGED <<entries, order, offset, index, done, stage>>  PROVE IndexBuilt'
    BY <1>5, IndexKept
  <1>6. CASE UNCHANGED vars  BY <1>5, <1>6 DEF vars
  <1>7. CASE Damage \/ TakeBuilt \/ Close
    BY <1>5, <1>7 DEF Damage, TakeBuilt, Close, building
  <1>8. CASE \E verify \in BOOLEAN :
               FailOpen(verify) \/ \E kind \in {"descriptor", "bundle"} : Open(kind, verify)
    BY <1>5, <1>8 DEF FailOpen, Open, building
  <1>9. CASE \E p \in Paths : GetData(p) \/ GetDataChecksum(p)
    BY <1>5, <1>9 DEF GetData, GetDataChecksum, AnswerWith, building
  <1> QED  BY <1>1, <1>2, <1>3, <1>4, <1>6, <1>7, <1>8, <1>9 DEF Next
-----------------------------------------------------------------------------
(* The data section                                                        *)

(* Bytes that go on from others hold the entries those held. *)
LEMMA HoldsExtends ==
    ASSUME Typed, NEW p \in DOMAIN index, NEW s \in Seq(Byte), NEW t \in Seq(Byte),
           Holds(s, p), IsPrefixOf(s, t)
    PROVE  Holds(t, p)
  <1>1. index[p].offset \in Nat /\ index[p].len \in Nat  BY DEF Typed, TypeOK, IsIndex, Slot
  <1>2. Len(s) \in Nat /\ Len(t) \in Nat  BY LenProperties
  <1> DEFINE off == index[p].offset
             len == index[p].len
  <1>3. off + len + CHECKSUM_LEN <= Len(s)  BY DEF Holds, EndOf
  <1>4. \A k \in 1..len : off + k \in 1..Len(s)  BY <1>1, <1>2, <1>3 DEF CHECKSUM_LEN
  <1>5. \A k \in 1..CHECKSUM_LEN : off + len + k \in 1..Len(s)
    BY <1>1, <1>2, <1>3 DEF CHECKSUM_LEN
  <1>6. \A k \in 1..len : t[off + k] = s[off + k]  BY <1>4 DEF IsPrefixOf
  <1>7. \A k \in 1..CHECKSUM_LEN : t[off + len + k] = s[off + len + k]  BY <1>5 DEF IsPrefixOf
  <1>8. EndOf(p) <= Len(t)  BY <1>1, <1>2, <1>3 DEF IsPrefixOf, EndOf, CHECKSUM_LEN
  <1> QED  BY <1>6, <1>7, <1>8 DEF Holds

(* A concatenation goes on from its first part. *)
LEMMA ConcatExtends ==
    ASSUME NEW S, NEW s \in Seq(S), NEW t \in Seq(S)
    PROVE  IsPrefixOf(s, s \o t)
  <1>1. Len(s) \in Nat /\ Len(t) \in Nat  BY LenProperties
  <1>2. Len(s \o t) = Len(s) + Len(t)
        /\ \A i \in 1..Len(s) + Len(t) : (s \o t)[i] = IF i <= Len(s) THEN s[i] ELSE t[i - Len(s)]
    BY ConcatProperties
  <1> QED  BY <1>1, <1>2 DEF IsPrefixOf

(* The bytes of a packed entry. *)
LEMMA PackedBytes ==
    ASSUME NEW c \in Contents
    PROVE  /\ Packed(c) \in Seq(Byte)
           /\ Len(Packed(c)) = PackedLen[c] + CHECKSUM_LEN
           /\ \A k \in 1..PackedLen[c] : Packed(c)[k] = <<"data", c, k>>
           /\ \A k \in 1..CHECKSUM_LEN : Packed(c)[PackedLen[c] + k] = <<"datasum", c, k>>
  <1> DEFINE a == Bytes("data", c, PackedLen[c])
             b == Bytes("datasum", c, CHECKSUM_LEN)
             len == PackedLen[c]
  <1>1. len \in Nat  BY FormatAssumption
  <1>2. a \in Seq(Byte) /\ Len(a) = len /\ \A k \in 1..len : a[k] = <<"data", c, k>>
    <2>1. "data" \in Parts /\ c \in Contents \cup {None}  BY DEF Parts
    <2>2. /\ Bytes("data", c, len) \in Seq(Byte) /\ Len(Bytes("data", c, len)) = len
          /\ \A k \in 1..len : Bytes("data", c, len)[k] = <<"data", c, k>>
      <3> HIDE DEF len
      <3> QED  BY <1>1, <2>1, BytesProperties
    <2> QED  BY <2>2
  <1>3. CHECKSUM_LEN \in Nat  BY DEF CHECKSUM_LEN
  <1>4. b \in Seq(Byte) /\ Len(b) = CHECKSUM_LEN /\ \A k \in 1..CHECKSUM_LEN : b[k] = <<"datasum", c, k>>
    BY <1>3, BytesProperties DEF Parts
  <1> HIDE DEF a, b, len
  <1>5. /\ a \o b \in Seq(Byte)
        /\ Len(a \o b) = len + CHECKSUM_LEN
        /\ \A i \in 1..len + CHECKSUM_LEN : (a \o b)[i] = IF i <= len THEN a[i] ELSE b[i - len]
    BY <1>2, <1>4, ConcatProperties
  <1>6. \A k \in 1..len : (a \o b)[k] = <<"data", c, k>>  BY <1>1, <1>2, <1>3, <1>5
  <1>7. \A k \in 1..CHECKSUM_LEN : (a \o b)[len + k] = <<"datasum", c, k>>
    <2>1. TAKE k \in 1..CHECKSUM_LEN
    <2>2. len + k \in 1..len + CHECKSUM_LEN /\ ~(len + k <= len) /\ (len + k) - len = k
      BY <1>1, <1>3
    <2>3. (a \o b)[len + k] = b[k]  BY <1>5, <2>2
    <2> QED  BY <1>4, <2>3
  <1>8. Packed(c) = a \o b  BY DEF Packed, a, b, len
  <1> QED  BY <1>5, <1>6, <1>7, <1>8 DEF len
(* build_data puts the next entry where build_index said it would be. *)
LEMMA PackNextBuilds == ASSUME Typed, IndexBuilt, DataBuilt, PackNext  PROVE DataBuilt'
  <1> DEFINE n == done
             p == order[done + 1]
             c == entries[order[done + 1]]
  <1>1. stage = "packing" /\ n < Len(order) /\ n \in Nat /\ Len(order) \in Nat
    BY LenProperties DEF PackNext, Typed, TypeOK
  <1>2. order \in Orders  BY <1>1 DEF Typed, Shape
  <1>3. c \in Contents /\ p \in Inserted  BY <1>1, <1>2, OrderProperties DEF Typed
  <1>4. UNCHANGED <<entries, order, index>> /\ data' = data \o Packed(c)
        /\ stage' = "packing" /\ done' = n + 1
    BY <1>1 DEF PackNext
  <1>5. PackedCount = n /\ PackedCount' = n + 1 /\ Indexed = Len(order)
    BY <1>1, <1>4 DEF PackedCount, Indexed
  <1>6. data \in Seq(Byte) /\ Len(data) \in Nat  BY LenProperties DEF Typed, TypeOK
  <1>7. p \in DOMAIN index /\ \A i \in 1..n : order[i] \in DOMAIN index
    BY <1>1, <1>5 DEF IndexBuilt
  <1>8. index[p].len = PackedLen[c] /\ index[p].offset = Len(data)
    <2>1. Len(data) = IF n = 0 THEN 0 ELSE EndOf(order[n])  BY <1>5 DEF DataBuilt
    <2>2. /\ index[p].len = PackedLen[entries[p]]
          /\ index[p].offset = IF n + 1 = 1 THEN 0 ELSE EndOf(order[(n + 1) - 1])
      <3>1. n + 1 \in 1..Indexed  BY <1>1, <1>5
      <3>2. \A i \in 1..Indexed :
              /\ index[order[i]].len = PackedLen[entries[order[i]]]
              /\ index[order[i]].offset = IF i = 1 THEN 0 ELSE EndOf(order[i - 1])
        BY DEF IndexBuilt
      <3> QED  BY <3>1, <3>2
    <2>3. (n + 1 = 1 <=> n = 0) /\ (n + 1) - 1 = n  BY <1>1
    <2> QED  BY <2>1, <2>2, <2>3
  <1> DEFINE len == PackedLen[c]
  <1>9. len \in Nat  BY <1>3, FormatAssumption
  <1>10. /\ Packed(c) \in Seq(Byte)
         /\ Len(Packed(c)) = len + CHECKSUM_LEN
         /\ \A k \in 1..len : Packed(c)[k] = <<"data", c, k>>
         /\ \A k \in 1..CHECKSUM_LEN : Packed(c)[len + k] = <<"datasum", c, k>>
    BY <1>3, PackedBytes
  <1>11. /\ data' \in Seq(Byte)
         /\ Len(data') = Len(data) + (len + CHECKSUM_LEN)
         /\ \A i \in 1..Len(data) + (len + CHECKSUM_LEN) :
              data'[i] = IF i <= Len(data) THEN data[i] ELSE Packed(c)[i - Len(data)]
    BY <1>4, <1>6, <1>10, ConcatProperties
  <1>12. IsPrefixOf(data, data')  BY <1>4, <1>6, <1>10, ConcatExtends
  <1>13. Holds(data', p)
    <2>1. \A k \in 1..len : data'[Len(data) + k] = <<"data", c, k>>
      <3>1. TAKE k \in 1..len
      <3>2. /\ Len(data) + k \in 1..Len(data) + (len + CHECKSUM_LEN)
            /\ ~(Len(data) + k <= Len(data)) /\ (Len(data) + k) - Len(data) = k
        BY <1>6, <1>9 DEF CHECKSUM_LEN
      <3>3. data'[Len(data) + k] = Packed(c)[k]  BY <1>11, <3>2
      <3> QED  BY <1>10, <3>3
    <2>2. \A k \in 1..CHECKSUM_LEN : data'[Len(data) + len + k] = <<"datasum", c, k>>
      <3>1. TAKE k \in 1..CHECKSUM_LEN
      <3>2. /\ Len(data) + len + k \in 1..Len(data) + (len + CHECKSUM_LEN)
            /\ ~(Len(data) + len + k <= Len(data))
            /\ (Len(data) + len + k) - Len(data) = len + k
        <4>1. \A a, b \in Nat : \A j \in 1..4 :
                a + b + j \in 1..a + (b + 4) /\ ~(a + b + j <= a) /\ (a + b + j) - a = b + j
          OBVIOUS
        <4> HIDE DEF len
        <4> QED  BY <1>6, <1>9, <4>1 DEF CHECKSUM_LEN
      <3>3. data'[Len(data) + len + k] = Packed(c)[len + k]  BY <1>11, <3>2
      <3> QED  BY <1>10, <3>3
    <2>3. EndOf(p) <= Len(data')
      BY <1>6, <1>8, <1>9, <1>11 DEF EndOf, CHECKSUM_LEN
    <2> QED  BY <1>8, <2>1, <2>2, <2>3 DEF Holds
  <1>14. \A i \in 1..n : Holds(data', order[i])
    <2>1. \A i \in 1..n : Holds(data, order[i])  BY <1>5 DEF DataBuilt
    <2> QED  BY <1>6, <1>7, <1>11, <1>12, <2>1, HoldsExtends
  <1>15. \A i \in 1..n + 1 : Holds(data', order[i])  BY <1>1, <1>13, <1>14
  <1>16. Len(data') = EndOf(p)
    BY <1>6, <1>8, <1>9, <1>11 DEF EndOf, CHECKSUM_LEN
  <1>17. \A i \in 1..n + 1 : Holds(data, order[i])'
    BY <1>4, <1>15 DEF Holds, EndOf
  <1>18. EndOf(order[PackedCount])' = EndOf(p) /\ PackedCount' # 0
    BY <1>1, <1>4, <1>5 DEF EndOf
  <1> QED  BY <1>5, <1>16, <1>17, <1>18 DEF DataBuilt

LEMMA DataStep == Typed /\ IndexBuilt /\ DataBuilt /\ [Next]_vars => DataBuilt'
  <1> SUFFICES ASSUME Typed, IndexBuilt, DataBuilt, [Next]_vars  PROVE DataBuilt'
    OBVIOUS
  <1>1. CASE PackNext  BY <1>1, PackNextBuilds
  <1>2. ASSUME stage' \in Building, data' = << >>, stage' = "packing" => done' = 0  PROVE DataBuilt'
    <2>1. PackedCount' = 0  BY <1>2 DEF PackedCount, Building
    <2>2. Len(data') = 0  BY <1>2
    <2> QED  BY <2>1, <2>2 DEF DataBuilt
  <1>3. CASE (\E p \in Paths : RemoveEntry(p) \/ \E c \in Contents : InsertEntry(p, c))
             \/ BeginBuild \/ IndexNext \/ BuildHeader
    BY <1>2, <1>3 DEF RemoveEntry, InsertEntry, BeginBuild, IndexNext, BuildHeader, building,
                     Typed, Shape, Building
  <1>4. ASSUME UNCHANGED <<entries, order, index, data>>, PackedCount' = PackedCount  PROVE DataBuilt'
    BY <1>4 DEF DataBuilt, Holds, EndOf
  <1>5. CASE FinishBuild \/ WritePiece \/ FailWrite
    BY <1>4, <1>5 DEF FinishBuild, WritePiece, FailWrite, building, NextStage, PackedCount
  <1>6. ASSUME UNCHANGED <<entries, order, index, data, stage, done>>  PROVE DataBuilt'
    BY <1>4, <1>6 DEF PackedCount
  <1>7. CASE UNCHANGED vars  BY <1>6, <1>7 DEF vars
  <1>8. CASE Damage \/ TakeBuilt \/ Close
    BY <1>6, <1>8 DEF Damage, TakeBuilt, Close, building
  <1>9. CASE \E verify \in BOOLEAN :
               FailOpen(verify) \/ \E kind \in {"descriptor", "bundle"} : Open(kind, verify)
    BY <1>6, <1>9 DEF FailOpen, Open, building
  <1>10. CASE \E p \in Paths : GetData(p) \/ GetDataChecksum(p)
    BY <1>6, <1>10 DEF GetData, GetDataChecksum, AnswerWith, building
  <1> QED  BY <1>1, <1>3, <1>5, <1>7, <1>8, <1>9, <1>10 DEF Next
-----------------------------------------------------------------------------
(* The file                                                                *)

(* Where the bytes of two concatenated texts are. *)
LEMMA ConcatAt ==
    ASSUME NEW S, NEW s \in Seq(S), NEW t \in Seq(S)
    PROVE  /\ s \o t \in Seq(S)
           /\ Len(s \o t) = Len(s) + Len(t)
           /\ \A k \in 1..Len(s) : (s \o t)[k] = s[k]
           /\ \A k \in 1..Len(t) : (s \o t)[Len(s) + k] = t[k]
  <1>1. Len(s) \in Nat /\ Len(t) \in Nat  BY LenProperties
  <1>2. /\ s \o t \in Seq(S)
        /\ Len(s \o t) = Len(s) + Len(t)
        /\ \A i \in 1..Len(s) + Len(t) : (s \o t)[i] = IF i <= Len(s) THEN s[i] ELSE t[i - Len(s)]
    BY ConcatProperties
  <1>3. \A k \in 1..Len(s) : (s \o t)[k] = s[k]  BY <1>1, <1>2
  <1>4. ASSUME NEW k \in 1..Len(t)  PROVE (s \o t)[Len(s) + k] = t[k]
    <2>1. Len(s) + k \in 1..Len(s) + Len(t) /\ ~(Len(s) + k <= Len(s)) /\ (Len(s) + k) - Len(s) = k
      BY <1>1
    <2> QED  BY <1>2, <2>1
  <1> QED  BY <1>2, <1>3, <1>4

(* A text is spelled out somewhere in a sequence of bytes. *)
Spelled(s, from, part, c, n) ==
    /\ Reaches(s, from, n)
    /\ \A k \in 1..n : s[from + k] = <<part, c, k>>

LEMMA SpelledBytes ==
    ASSUME NEW part \in Parts, NEW c \in Contents \cup {None}, NEW n \in Nat
    PROVE  /\ Bytes(part, c, n) \in Seq(Byte)
           /\ Len(Bytes(part, c, n)) = n
           /\ Spelled(Bytes(part, c, n), 0, part, c, n)
  <1>1. /\ Bytes(part, c, n) \in Seq(Byte) /\ Len(Bytes(part, c, n)) = n
        /\ \A k \in 1..n : Bytes(part, c, n)[k] = <<part, c, k>>
    BY BytesProperties
  <1>2. \A k \in 1..n : 0 + k = k  OBVIOUS
  <1>3. Reaches(Bytes(part, c, n), 0, n)  BY <1>1 DEF Reaches
  <1> QED  BY <1>1, <1>2, <1>3 DEF Spelled

LEMMA SpelledLeft ==
    ASSUME NEW s \in Seq(Byte), NEW t \in Seq(Byte),
           NEW from \in Nat, NEW part, NEW c, NEW n \in Nat,
           Spelled(s, from, part, c, n)
    PROVE  Spelled(s \o t, from, part, c, n)
  <1>1. Len(s) \in Nat /\ Len(t) \in Nat  BY LenProperties
  <1>2. Len(s \o t) = Len(s) + Len(t) /\ \A k \in 1..Len(s) : (s \o t)[k] = s[k]
    BY ConcatAt
  <1>3. from + n <= Len(s)  BY DEF Spelled, Reaches
  <1>4. \A k \in 1..n : from + k \in 1..Len(s)  BY <1>1, <1>3
  <1>5. Reaches(s \o t, from, n)  BY <1>1, <1>2, <1>3 DEF Reaches
  <1> QED  BY <1>2, <1>4, <1>5 DEF Spelled

LEMMA SpelledRight ==
    ASSUME NEW s \in Seq(Byte), NEW t \in Seq(Byte),
           NEW from \in Nat, NEW part, NEW c, NEW n \in Nat,
           Spelled(t, from, part, c, n)
    PROVE  Spelled(s \o t, Len(s) + from, part, c, n)
  <1>1. Len(s) \in Nat /\ Len(t) \in Nat  BY LenProperties
  <1>2. Len(s \o t) = Len(s) + Len(t) /\ \A k \in 1..Len(t) : (s \o t)[Len(s) + k] = t[k]
    BY ConcatAt
  <1>3. from + n <= Len(t)  BY DEF Spelled, Reaches
  <1>4. \A k \in 1..n : from + k \in 1..Len(t) /\ Len(s) + (from + k) = Len(s) + from + k
    BY <1>1, <1>3
  <1>5. Reaches(s \o t, Len(s) + from, n)  BY <1>1, <1>2, <1>3 DEF Reaches
  <1>6. \A k \in 1..n : (s \o t)[Len(s) + from + k] = t[from + k]  BY <1>2, <1>4
  <1> QED  BY <1>5, <1>6 DEF Spelled

LEMMA SpelledPrefix ==
    ASSUME NEW s \in Seq(Byte), NEW t \in Seq(Byte), IsPrefixOf(s, t),
           NEW from \in Nat, NEW part, NEW c, NEW n \in Nat,
           Spelled(t, from, part, c, n), Reaches(s, from, n)
    PROVE  Spelled(s, from, part, c, n)
  <1>1. Len(s) \in Nat /\ Len(t) \in Nat  BY LenProperties
  <1>2. \A k \in 1..n : from + k \in 1..Len(s)  BY <1>1 DEF Reaches
  <1>3. \A k \in 1..n : s[from + k] = t[from + k]  BY <1>2 DEF IsPrefixOf
  <1> QED  BY <1>3 DEF Spelled

(* What read_exact returns of a text that is spelled out is the text. *)
LEMMA SpelledAt ==
    ASSUME NEW s \in Seq(Byte), NEW from \in Nat, NEW part \in Parts,
           NEW c \in Contents \cup {None}, NEW n \in Nat,
           Spelled(s, from, part, c, n)
    PROVE  At(s, from, n) = Bytes(part, c, n)
  <1>1. /\ At(s, from, n) \in Seq(Byte) /\ Len(At(s, from, n)) = n
        /\ \A k \in 1..n : At(s, from, n)[k] = s[from + k]
    BY AtProperties DEF Spelled
  <1>2. \A k \in 1..n : At(s, from, n)[k] = <<part, c, k>>  BY <1>1 DEF Spelled
  <1> QED  BY <1>1, <1>2, IsBytes
LEMMA Offsets ==
    /\ MAGIC_LEN \in Nat /\ VERSION_LEN \in Nat /\ INDEX_SIZE_LEN \in Nat /\ CHECKSUM_LEN \in Nat
    /\ CHECKSUM_OFFSET \in Nat /\ END_OFFSET \in Nat
    /\ \A n \in Nat : DataStart(n) \in Nat /\ DataStart(n) = END_OFFSET + (n + CHECKSUM_LEN)
  BY DEF MAGIC_LEN, VERSION_LEN, INDEX_SIZE_LEN, CHECKSUM_LEN, CHECKSUM_OFFSET, END_OFFSET, DataStart

(* The header, text by text. *)
LEMMA HeaderSpelled ==
    /\ WholeHeader \in Seq(Byte) /\ Len(WholeHeader) = END_OFFSET
    /\ Spelled(WholeHeader, 0, "magic", None, MAGIC_LEN)
    /\ Spelled(WholeHeader, MAGIC_LEN, "version", None, VERSION_LEN)
    /\ Spelled(WholeHeader, MAGIC_LEN + VERSION_LEN, "size", None, INDEX_SIZE_LEN)
    /\ Spelled(WholeHeader, CHECKSUM_OFFSET, "headersum", None, CHECKSUM_LEN)
  <1> DEFINE a == Bytes("magic", None, MAGIC_LEN)
             b == Bytes("version", None, VERSION_LEN)
             c == Bytes("size", None, INDEX_SIZE_LEN)
             d == Bytes("headersum", None, CHECKSUM_LEN)
             ab == a \o b
             abc == ab \o c
  <1>0. {"magic", "version", "size", "headersum"} \subseteq Parts  BY DEF Parts
  <1>1. a \in Seq(Byte) /\ Len(a) = MAGIC_LEN /\ Spelled(a, 0, "magic", None, MAGIC_LEN)
    BY <1>0, Offsets, SpelledBytes
  <1>2. b \in Seq(Byte) /\ Len(b) = VERSION_LEN /\ Spelled(b, 0, "version", None, VERSION_LEN)
    BY <1>0, Offsets, SpelledBytes
  <1>3. c \in Seq(Byte) /\ Len(c) = INDEX_SIZE_LEN /\ Spelled(c, 0, "size", None, INDEX_SIZE_LEN)
    BY <1>0, Offsets, SpelledBytes
  <1>4. d \in Seq(Byte) /\ Len(d) = CHECKSUM_LEN /\ Spelled(d, 0, "headersum", None, CHECKSUM_LEN)
    BY <1>0, Offsets, SpelledBytes
  <1>5. WholeHeader = abc \o d  BY DEF WholeHeader, HeaderText
  <1>6. \A x \in Nat : x + 0 = x  OBVIOUS
  <1> HIDE DEF a, b, c, d
  <1>7. ab \in Seq(Byte) /\ Len(ab) = MAGIC_LEN + VERSION_LEN
    BY <1>1, <1>2, ConcatAt
  <1>8. /\ Spelled(ab, 0, "magic", None, MAGIC_LEN)
        /\ Spelled(ab, MAGIC_LEN, "version", None, VERSION_LEN)
    <2>1. Spelled(ab, 0, "magic", None, MAGIC_LEN)  BY <1>1, <1>2, Offsets, SpelledLeft
    <2>2. Spelled(ab, Len(a) + 0, "version", None, VERSION_LEN)
      BY <1>1, <1>2, Offsets, SpelledRight
    <2> QED  BY <1>1, <1>6, <2>1, <2>2, Offsets
  <1> HIDE DEF ab
  <1>9. abc \in Seq(Byte) /\ Len(abc) = CHECKSUM_OFFSET
    BY <1>3, <1>7, ConcatAt DEF CHECKSUM_OFFSET
  <1>10. /\ Spelled(abc, 0, "magic", None, MAGIC_LEN)
         /\ Spelled(abc, MAGIC_LEN, "version", None, VERSION_LEN)
         /\ Spelled(abc, MAGIC_LEN + VERSION_LEN, "size", None, INDEX_SIZE_LEN)
    <2>1. /\ Spelled(abc, 0, "magic", None, MAGIC_LEN)
          /\ Spelled(abc, MAGIC_LEN, "version", None, VERSION_LEN)
      BY <1>3, <1>7, <1>8, Offsets, SpelledLeft
    <2>2. Spelled(abc, Len(ab) + 0, "size", None, INDEX_SIZE_LEN)
      BY <1>3, <1>7, Offsets, SpelledRight
    <2>3. Len(ab) + 0 = MAGIC_LEN + VERSION_LEN  BY <1>7, Offsets
    <2> QED  BY <2>1, <2>2, <2>3
  <1> HIDE DEF abc
  <1>11. /\ WholeHeader \in Seq(Byte) /\ Len(WholeHeader) = END_OFFSET
    BY <1>4, <1>5, <1>9, ConcatAt DEF END_OFFSET
  <1>12. /\ Spelled(WholeHeader, 0, "magic", None, MAGIC_LEN)
         /\ Spelled(WholeHeader, MAGIC_LEN, "version", None, VERSION_LEN)
         /\ Spelled(WholeHeader, MAGIC_LEN + VERSION_LEN, "size", None, INDEX_SIZE_LEN)
    <2>1. MAGIC_LEN + VERSION_LEN \in Nat  BY Offsets
    <2> QED  BY <1>4, <1>5, <1>9, <1>10, <2>1, Offsets, SpelledLeft
  <1>13. Spelled(WholeHeader, CHECKSUM_OFFSET, "headersum", None, CHECKSUM_LEN)
    <2>1. Spelled(WholeHeader, Len(abc) + 0, "headersum", None, CHECKSUM_LEN)
      BY <1>4, <1>5, <1>9, Offsets, SpelledRight
    <2>2. Len(abc) + 0 = CHECKSUM_OFFSET  BY <1>9, Offsets
    <2> QED  BY <2>1, <2>2
  <1> QED  BY <1>11, <1>12, <1>13

(* The whole file: the header, the index with its checksum, and the data. *)
LEMMA FullSpelled ==
    ASSUME TypeOK
    PROVE  /\ Full \in Seq(Byte)
           /\ Len(Full) = DataStart(indexLen) + Len(data)
           /\ \A part \in Parts : \A from, n \in Nat :
                Spelled(WholeHeader, from, part, None, n) => Spelled(Full, from, part, None, n)
           /\ Spelled(Full, END_OFFSET, "index", None, indexLen)
           /\ Spelled(Full, END_OFFSET + indexLen, "indexsum", None, CHECKSUM_LEN)
           /\ \A k \in 1..Len(data) : Full[DataStart(indexLen) + k] = data[k]
  <1> DEFINE a == Bytes("index", None, indexLen)
             b == Bytes("indexsum", None, CHECKSUM_LEN)
             h == WholeHeader
             hi == WholeHeader \o IndexText
  <1>0. indexLen \in Nat /\ data \in Seq(Byte) /\ {"index", "indexsum"} \subseteq Parts
    BY DEF TypeOK, Parts
  <1>1. a \in Seq(Byte) /\ Len(a) = indexLen /\ Spelled(a, 0, "index", None, indexLen)
    BY <1>0, SpelledBytes
  <1>2. b \in Seq(Byte) /\ Len(b) = CHECKSUM_LEN /\ Spelled(b, 0, "indexsum", None, CHECKSUM_LEN)
    BY <1>0, Offsets, SpelledBytes
  <1>3. IndexText = a \o b  BY DEF IndexText
  <1> HIDE DEF a, b
  <1>4. /\ IndexText \in Seq(Byte) /\ Len(IndexText) = indexLen + CHECKSUM_LEN
    BY <1>1, <1>2, <1>3, ConcatAt
  <1>5. /\ Spelled(IndexText, 0, "index", None, indexLen)
        /\ Spelled(IndexText, indexLen + 0, "indexsum", None, CHECKSUM_LEN)
    <2>1. Spelled(IndexText, 0, "index", None, indexLen)
      BY <1>0, <1>1, <1>2, <1>3, SpelledLeft
    <2>2. Spelled(IndexText, Len(a) + 0, "indexsum", None, CHECKSUM_LEN)
      BY <1>1, <1>2, <1>3, Offsets, SpelledRight
    <2> QED  BY <1>1, <2>1, <2>2
  <1>6. h \in Seq(Byte) /\ Len(h) = END_OFFSET  BY HeaderSpelled
  <1>7. hi \in Seq(Byte) /\ Len(hi) = DataStart(indexLen)
    <2>1. hi \in Seq(Byte) /\ Len(hi) = Len(h) + Len(IndexText)  BY <1>4, <1>6, ConcatAt
    <2>2. DataStart(indexLen) = END_OFFSET + (indexLen + CHECKSUM_LEN)  BY <1>0, Offsets
    <2> QED  BY <1>4, <1>6, <2>1, <2>2
  <1>8. /\ Spelled(hi, END_OFFSET, "index", None, indexLen)
        /\ Spelled(hi, END_OFFSET + indexLen, "indexsum", None, CHECKSUM_LEN)
    <2>1. Spelled(hi, Len(h) + 0, "index", None, indexLen)
      BY <1>0, <1>4, <1>5, <1>6, SpelledRight
    <2>2. indexLen + 0 \in Nat  BY <1>0
    <2>3. Spelled(hi, Len(h) + (indexLen + 0), "indexsum", None, CHECKSUM_LEN)
      BY <1>4, <1>5, <1>6, <2>2, Offsets, SpelledRight
    <2>4. Len(h) + 0 = END_OFFSET /\ Len(h) + (indexLen + 0) = END_OFFSET + indexLen
      BY <1>0, <1>6, Offsets
    <2> QED  BY <2>1, <2>3, <2>4
  <1>9. ASSUME NEW part \in Parts, NEW from \in Nat, NEW n \in Nat, Spelled(h, from, part, None, n)
        PROVE  Spelled(hi, from, part, None, n)
    BY <1>4, <1>6, <1>9, SpelledLeft
  <1>10. Full = hi \o data  BY DEF Full
  <1> HIDE DEF hi, h
  <1>11. /\ Full \in Seq(Byte) /\ Len(Full) = DataStart(indexLen) + Len(data)
         /\ \A k \in 1..Len(data) : Full[DataStart(indexLen) + k] = data[k]
    <2>1. /\ Full \in Seq(Byte) /\ Len(Full) = Len(hi) + Len(data)
          /\ \A k \in 1..Len(data) : Full[Len(hi) + k] = data[k]
      <3>1. hi \in Seq(Byte) /\ data \in Seq(Byte)  BY <1>0, <1>7
      <3>2. /\ hi \o data \in Seq(Byte) /\ Len(hi \o data) = Len(hi) + Len(data)
            /\ \A k \in 1..Len(data) : (hi \o data)[Len(hi) + k] = data[k]
        BY <3>1, ConcatAt
      <3> QED  BY <1>10, <3>2
    <2> QED  BY <1>7, <2>1
  <1>12. ASSUME NEW part \in Parts, NEW from \in Nat, NEW n \in Nat, Spelled(hi, from, part, None, n)
         PROVE  Spelled(Full, from, part, None, n)
    BY <1>0, <1>7, <1>10, <1>12, SpelledLeft
  <1>13. /\ Spelled(Full, END_OFFSET, "index", None, indexLen)
         /\ Spelled(Full, END_OFFSET + indexLen, "indexsum", None, CHECKSUM_LEN)
    <2>1. END_OFFSET + indexLen \in Nat  BY <1>0, Offsets
    <2> QED  BY <1>0, <1>8, <1>12, <2>1, Offsets
  <1> QED  BY <1>9, <1>11, <1>12, <1>13 DEF h
(* What is cut short goes on to what it was cut from. *)
LEMMA CutShort ==
    ASSUME NEW S, NEW s \in Seq(S), NEW t \in Seq(S), NEW n \in 0..Len(t)
    PROVE  IsPrefixOf(s \o SubSeq(t, 1, n), s \o t)
  <1>1. Len(s) \in Nat /\ Len(t) \in Nat  BY LenProperties
  <1> DEFINE u == SubSeq(t, 1, n)
  <1>2. u \in Seq(S) /\ Len(u) = n /\ \A i \in 1..n : u[i] = t[i]
    <2>1. \A i \in 1..n : t[i] \in S  BY <1>1, ElementOfSeq
    <2>2. u \in Seq(S) /\ Len(u) = n  BY <1>1, <2>1, SubSeqProperties
    <2>3. \A i \in 1..n : u[i] = t[i]  BY <1>1
    <2> QED  BY <2>2, <2>3
  <1> HIDE DEF u
  <1>3. /\ Len(s \o u) = Len(s) + n
        /\ \A i \in 1..Len(s) + n : (s \o u)[i] = IF i <= Len(s) THEN s[i] ELSE u[i - Len(s)]
    BY <1>2, ConcatProperties
  <1>4. /\ Len(s \o t) = Len(s) + Len(t)
        /\ \A i \in 1..Len(s) + Len(t) : (s \o t)[i] = IF i <= Len(s) THEN s[i] ELSE t[i - Len(s)]
    BY ConcatProperties
  <1>5. ASSUME NEW i \in 1..Len(s) + n  PROVE (s \o u)[i] = (s \o t)[i]
    <2>1. i \in 1..Len(s) + Len(t)  BY <1>1
    <2>2. ~(i <= Len(s)) => i - Len(s) \in 1..n  BY <1>1
    <2> QED  BY <1>2, <1>3, <1>4, <2>1, <2>2
  <1>6. IsPrefixOf(s \o u, s \o t)  BY <1>1, <1>3, <1>4, <1>5 DEF IsPrefixOf
  <1> QED  BY <1>6 DEF u

LEMMA PrefixTransitive ==
    ASSUME NEW S, NEW s \in Seq(S), NEW t \in Seq(S), NEW u \in Seq(S),
           IsPrefixOf(s, t), IsPrefixOf(t, u)
    PROVE  IsPrefixOf(s, u)
  <1>1. Len(s) \in Nat /\ Len(t) \in Nat /\ Len(u) \in Nat  BY LenProperties
  <1> QED  BY <1>1 DEF IsPrefixOf

(* The pieces of BundleWriter::write, put together, are the whole file. *)
LEMMA WriterWrites == ASSUME Typed, FileWritten, WritePiece \/ FailWrite  PROVE FileWritten'
  <1> DEFINE hi == WholeHeader \o IndexText
  <1>1. stage \in {"built", "header", "index"} /\ damage = 0 /\ damage' = 0
    BY DEF WritePiece, FailWrite
  <1>2. UNCHANGED <<indexLen, data>>  BY DEF WritePiece, FailWrite, building
  <1>3. WholeHeader \in Seq(Byte) /\ IndexText \in Seq(Byte) /\ data \in Seq(Byte)
    BY HeaderSpelled, TextsTyped DEF Typed, TypeOK
  <1>4. hi \in Seq(Byte) /\ Full \in Seq(Byte) /\ Full = hi \o data
    BY <1>3, ConcatProperties DEF Full
  <1>5. IsPrefixOf(WholeHeader, hi) /\ IsPrefixOf(hi, Full)
    BY <1>3, <1>4, ConcatExtends
  <1>6. IsPrefixOf(WholeHeader, Full)  BY <1>3, <1>4, <1>5, PrefixTransitive
  <1>7. IsPrefixOf(Full, Full)  BY <1>4, LenProperties DEF IsPrefixOf
  <1>8. Full' = Full /\ hi' = hi /\ WholeHeader' = WholeHeader
    BY <1>2 DEF Full, WholeHeader, HeaderText, IndexText
  <1>9. file \in Seq(Byte) /\ Piece \in Seq(Byte)
    BY <1>1, TextsTyped DEF Typed, TypeOK
  <1>10. file \o Piece = CASE stage = "built" -> WholeHeader
                           [] stage = "header" -> hi
                           [] stage = "index" -> Full
    <2>1. CASE stage = "built"
      <3>1. file = << >> /\ Piece = WholeHeader
        BY <2>1 DEF Typed, Shape, Unwritten, Piece, WholeHeader
      <3>2. << >> \o WholeHeader = WholeHeader  BY <1>3, ConcatEmptySeq
      <3> QED  BY <2>1, <3>1, <3>2
    <2>2. CASE stage = "header"
      BY <1>1, <2>2 DEF FileWritten, Piece, Unwritten
    <2>3. CASE stage = "index"
      BY <1>1, <1>4, <2>3 DEF FileWritten, Piece, Unwritten
    <2> QED  BY <1>1, <2>1, <2>2, <2>3
  <1> HIDE DEF hi
  <1>11. file \o Piece \in Seq(Byte) /\ IsPrefixOf(file \o Piece, Full)
    BY <1>1, <1>3, <1>4, <1>5, <1>6, <1>7, <1>10
  <1>12. CASE WritePiece
    <2>1. /\ stage = "built" => stage' = "header"
          /\ stage = "header" => stage' = "index"
          /\ stage = "index" => stage' = "written"
      BY <1>12 DEF WritePiece, NextStage
    <2>2. file' = file \o Piece  BY <1>12 DEF WritePiece
    <2>3. IsPrefixOf(file', Full')  BY <1>8, <1>11, <2>2
    <2>4. /\ stage' = "header" => file' = WholeHeader'
          /\ stage' = "index" => file' = hi'
          /\ stage' = "written" => file' = Full'
      BY <1>1, <1>8, <1>10, <2>1, <2>2
    <2> QED  BY <2>3, <2>4 DEF FileWritten, hi
  <1>13. CASE FailWrite
    <2>1. PICK n \in 0..Len(Piece) : file' = file \o SubSeq(Piece, 1, n)
      BY <1>13 DEF FailWrite
    <2>2. IsPrefixOf(file', file \o Piece)  BY <1>9, <2>1, CutShort
    <2>3. stage' = "torn"  BY <1>13 DEF FailWrite
    <2>4. file' \in Seq(Byte)  BY WriteTyped DEF Typed, TypeOK
    <2>5. IsPrefixOf(file', Full')  BY <1>4, <1>8, <1>11, <2>2, <2>4, PrefixTransitive
    <2> QED  BY <2>3, <2>5 DEF FileWritten
  <1> QED  BY <1>12, <1>13

LEMMA FileStep == Typed /\ FileWritten /\ [Next]_vars => FileWritten'
  <1> SUFFICES ASSUME Typed, FileWritten, [Next]_vars  PROVE FileWritten'
    OBVIOUS
  <1>1. CASE WritePiece \/ FailWrite  BY <1>1, WriterWrites
  <1>2. ASSUME stage' \in Unwritten  PROVE FileWritten'
    BY <1>2 DEF FileWritten, Unwritten
  <1>3. CASE \/ \E p \in Paths : RemoveEntry(p) \/ \E c \in Contents : InsertEntry(p, c)
             \/ BeginBuild \/ IndexNext \/ BuildHeader \/ PackNext \/ FinishBuild
    BY <1>2, <1>3 DEF RemoveEntry, InsertEntry, BeginBuild, IndexNext, BuildHeader, PackNext,
                     FinishBuild, Unwritten
  <1>4. ASSUME UNCHANGED <<stage, indexLen, data, file, damage>>  PROVE FileWritten'
    BY <1>4 DEF FileWritten, Full, WholeHeader, HeaderText, IndexText, Unwritten
  <1>5. CASE Damage
    <2>1. damage' # 0  BY <1>5 DEF Damage, Typed, TypeOK
    <2> QED  BY <2>1 DEF FileWritten
  <1>6. CASE TakeBuilt \/ Close \/ UNCHANGED vars
    BY <1>4, <1>6 DEF TakeBuilt, Close, building, vars
  <1>7. CASE \E verify \in BOOLEAN :
               FailOpen(verify) \/ \E kind \in {"descriptor", "bundle"} : Open(kind, verify)
    BY <1>4, <1>7 DEF FailOpen, Open, building
  <1>8. CASE \E p \in Paths : GetData(p) \/ GetDataChecksum(p)
    BY <1>4, <1>8 DEF GetData, GetDataChecksum, AnswerWith, building
  <1> QED  BY <1>1, <1>3, <1>5, <1>6, <1>7, <1>8 DEF Next
-----------------------------------------------------------------------------
(* Reading                                                                 *)

LEMMA ModFacts ==
    ASSUME NEW a \in Nat, NEW b \in Nat \ {0}
    PROVE  a % b \in Nat /\ a % b <= a /\ (a < b => a % b = a)
  OBVIOUS

(* As long as no byte went bad, what is in the file is what was written. *)
LEMMA FileSpells ==
    ASSUME Typed, FileWritten, damage = 0, stage \notin Unwritten,
           NEW part \in Parts, NEW from \in Nat, NEW n \in Nat,
           Spelled(WholeHeader, from, part, None, n) \/ Spelled(Full, from, part, None, n),
           Reaches(file, from, n)
    PROVE  At(file, from, n) = Bytes(part, None, n)
  <1>1. file \in Seq(Byte) /\ Full \in Seq(Byte)  BY FullSpelled DEF Typed, TypeOK
  <1>2. IsPrefixOf(file, Full)  BY DEF FileWritten
  <1>3. Spelled(Full, from, part, None, n)  BY FullSpelled DEF Typed
  <1>4. Spelled(file, from, part, None, n)  BY <1>1, <1>2, <1>3, SpelledPrefix
  <1>5. None \in Contents \cup {None}  OBVIOUS
  <1> QED  BY <1>1, <1>4, <1>5, SpelledAt, Zenon

(* A part of the file that is there. *)
LEMMA FilePart ==
    ASSUME Typed, NEW from \in Nat, NEW n \in Nat, Reaches(file, from, n)
    PROVE  /\ At(file, from, n) \in Seq(Byte) /\ Len(At(file, from, n)) = n
           /\ \A k \in 1..n : At(file, from, n)[k] = file[from + k]
  BY AtProperties DEF Typed, TypeOK

(* A header that reads says how long the index is, or wraps. *)
LEMMA HeaderIsWritten ==
    ASSUME Typed, FileWritten, damage = 0, HeaderReads
    PROVE  stage \notin Unwritten /\ Sizes = {IndexSize}
  <1>1. stage \notin Unwritten
    <2>1. END_OFFSET <= Len(file)  BY Offsets DEF HeaderReads, Reaches
    <2>2. Len(<< >>) = 0 /\ END_OFFSET > 0
      BY DEF END_OFFSET, CHECKSUM_OFFSET, MAGIC_LEN, VERSION_LEN, INDEX_SIZE_LEN, CHECKSUM_LEN
    <2> QED  BY <2>1, <2>2, Offsets DEF Typed, Shape
  <1>2. MAGIC_LEN + VERSION_LEN \in Nat /\ Reaches(file, MAGIC_LEN + VERSION_LEN, INDEX_SIZE_LEN)
    <2>1. file \in Seq(Byte) /\ Len(file) \in Nat  BY LenProperties DEF Typed, TypeOK
    <2> QED
      BY <2>1 DEF HeaderReads, Reaches, END_OFFSET, CHECKSUM_OFFSET, MAGIC_LEN, VERSION_LEN,
                  INDEX_SIZE_LEN, CHECKSUM_LEN
  <1>3. Spelled(WholeHeader, MAGIC_LEN + VERSION_LEN, "size", None, INDEX_SIZE_LEN)
    BY HeaderSpelled
  <1>4. "size" \in Parts  BY DEF Parts
  <1>5. At(file, MAGIC_LEN + VERSION_LEN, INDEX_SIZE_LEN) = Bytes("size", None, INDEX_SIZE_LEN)
    BY <1>1, <1>2, <1>3, <1>4, Offsets, FileSpells
  <1> QED  BY <1>1, <1>5 DEF Sizes

(* Only the index that was written is read, and only if its length fits the header. *)
LEMMA IndexIsWritten ==
    ASSUME Typed, FileWritten, damage = 0, NEW verify \in BOOLEAN,
           NEW size \in Sizes, NEW ix \in Readings(size, verify)
    PROVE  stage \notin Unwritten /\ size = indexLen /\ ix = index
  <1>1. HeaderReads  BY DEF Sizes
  <1>2. stage \notin Unwritten /\ size = IndexSize  BY <1>1, HeaderIsWritten
  <1>3. indexLen \in Nat /\ size \in Nat /\ size <= indexLen
    BY <1>2, ModFacts, FormatAssumption DEF IndexSize, Typed, TypeOK
  <1>4. file \in Seq(Byte) /\ Full \in Seq(Byte) /\ Len(file) \in Nat /\ Len(Full) \in Nat
    BY FullSpelled, LenProperties DEF Typed, TypeOK
  <1>5. Reaches(file, END_OFFSET, size)
    <2>1. Reaches(file, END_OFFSET, size + CHECKSUM_LEN)  BY DEF Readings, IndexReads
    <2> QED  BY <1>3, <1>4, <2>1, Offsets DEF Reaches
  <1> DEFINE buf == At(file, END_OFFSET, size)
  <1>6. /\ buf \in Seq(Byte) /\ Len(buf) = size
        /\ \A k \in 1..size : buf[k] = file[END_OFFSET + k]
    <2>1. END_OFFSET \in Nat  BY Offsets
    <2> QED  BY <1>3, <1>5, <2>1, FilePart, Zenon
  <1>7. ASSUME NEW k \in 1..size  PROVE buf[k] # Damaged
    <2>1. END_OFFSET + k \in 1..Len(file)  BY <1>3, <1>4, <1>5, Offsets DEF Reaches
    <2>2. file[END_OFFSET + k] = Full[END_OFFSET + k]
      BY <1>2, <2>1 DEF FileWritten, IsPrefixOf
    <2>3. k \in 1..indexLen  BY <1>3
    <2>4. Full[END_OFFSET + k] = <<"index", None, k>>
      BY <2>3, FullSpelled DEF Typed, Spelled
    <2> QED  BY <1>6, <2>2, <2>4 DEF Damaged
  <1>8. DOMAIN buf = 1..size  BY <1>6, LenProperties
  <1>9. ~ \E k \in DOMAIN buf : buf[k] = Damaged  BY <1>7, <1>8
  <1>10. ix \in Decoded(size)  BY DEF Readings
  <1>11. ix = index /\ size >= indexLen  BY <1>9, <1>10 DEF Decoded
  <1> QED  BY <1>2, <1>3, <1>11

(* What a sequence begins with is read at its beginning. *)
LEMMA PrefixAt ==
    ASSUME NEW s \in Seq(Byte), NEW t \in Seq(Byte), IsPrefixOf(t, s)
    PROVE  At(s, 0, Len(t)) = t
  <1>1. Len(s) \in Nat /\ Len(t) \in Nat  BY LenProperties
  <1>2. Reaches(s, 0, Len(t))  BY <1>1 DEF IsPrefixOf, Reaches
  <1>3. /\ At(s, 0, Len(t)) \in Seq(Byte) /\ Len(At(s, 0, Len(t))) = Len(t)
        /\ \A k \in 1..Len(t) : At(s, 0, Len(t))[k] = s[0 + k]
    BY <1>1, <1>2, AtProperties
  <1>4. \A k \in 1..Len(t) : s[0 + k] = t[k]  BY <1>1 DEF IsPrefixOf
  <1> QED  BY <1>3, <1>4, SeqEqual

(* The file begins with the header's texts. *)
LEMMA FullBegins ==
    ASSUME TypeOK
    PROVE  LET mv == Bytes("magic", None, MAGIC_LEN) \o Bytes("version", None, VERSION_LEN)
           IN  /\ mv \in Seq(Byte) /\ Len(mv) = MAGIC_LEN + VERSION_LEN /\ IsPrefixOf(mv, Full)
               /\ HeaderText \in Seq(Byte) /\ Len(HeaderText) = CHECKSUM_OFFSET
               /\ IsPrefixOf(HeaderText, Full)
  <1> DEFINE a == Bytes("magic", None, MAGIC_LEN)
             b == Bytes("version", None, VERSION_LEN)
             c == Bytes("size", None, INDEX_SIZE_LEN)
             d == Bytes("headersum", None, CHECKSUM_LEN)
             mv == a \o b
  <1>0. {"magic", "version", "size", "headersum"} \subseteq Parts  BY DEF Parts
  <1>1. a \in Seq(Byte) /\ Len(a) = MAGIC_LEN  BY <1>0, Offsets, SpelledBytes
  <1>2. b \in Seq(Byte) /\ Len(b) = VERSION_LEN  BY <1>0, Offsets, SpelledBytes
  <1>3. c \in Seq(Byte) /\ Len(c) = INDEX_SIZE_LEN  BY <1>0, Offsets, SpelledBytes
  <1>4. d \in Seq(Byte)  BY <1>0, Offsets, SpelledBytes
  <1>5. HeaderText = mv \o c /\ WholeHeader = HeaderText \o d
    BY DEF HeaderText, WholeHeader
  <1>6. IndexText \in Seq(Byte) /\ data \in Seq(Byte)  BY TextsTyped DEF TypeOK
  <1> HIDE DEF a, b, c, d
  <1>7. mv \in Seq(Byte) /\ Len(mv) = MAGIC_LEN + VERSION_LEN  BY <1>1, <1>2, ConcatAt
  <1> HIDE DEF mv
  <1>8. HeaderText \in Seq(Byte) /\ Len(HeaderText) = CHECKSUM_OFFSET
    BY <1>3, <1>5, <1>7, ConcatAt DEF CHECKSUM_OFFSET
  <1>9. IsPrefixOf(mv, HeaderText)  BY <1>3, <1>5, <1>7, ConcatExtends
  <1>10. WholeHeader \in Seq(Byte) /\ IsPrefixOf(HeaderText, WholeHeader)
    BY <1>4, <1>5, <1>8, ConcatAt, ConcatExtends
  <1>11. /\ WholeHeader \o IndexText \in Seq(Byte) /\ IsPrefixOf(WholeHeader, WholeHeader \o IndexText)
         /\ Full \in Seq(Byte) /\ IsPrefixOf(WholeHeader \o IndexText, Full)
    BY <1>6, <1>10, ConcatAt, ConcatExtends DEF Full
  <1>12. IsPrefixOf(HeaderText, Full)  BY <1>8, <1>10, <1>11, PrefixTransitive
  <1>13. IsPrefixOf(mv, Full)  BY <1>7, <1>8, <1>9, <1>11, <1>12, PrefixTransitive
  <1> QED  BY <1>7, <1>8, <1>12, <1>13 DEF mv, a, b

(* A file that was written completely opens, with or without verification. *)
LEMMA WholeFileOpens ==
    ASSUME Typed, FileWritten, Intact, NEW verify \in BOOLEAN
    PROVE  ~FailOpen(verify)
  <1>1. stage = "written" /\ damage = 0 /\ indexLen < U32 /\ stage \notin Unwritten
    BY DEF Intact, Unwritten
  <1>2. file = Full /\ file \in Seq(Byte)  BY <1>1 DEF FileWritten, Typed, TypeOK
  <1>3. indexLen \in Nat /\ IndexSize = indexLen
    BY <1>1, ModFacts, FormatAssumption DEF IndexSize, Typed, TypeOK
  <1>4. Len(data) \in Nat  BY LenProperties DEF Typed, TypeOK
  <1>5. Len(file) = END_OFFSET + (indexLen + CHECKSUM_LEN) + Len(data)
    BY <1>2, <1>3, FullSpelled, Offsets DEF Typed
  <1>6. ASSUME NEW part \in Parts, NEW from \in Nat, NEW n \in Nat,
               Spelled(Full, from, part, None, n)
        PROVE  At(file, from, n) = Bytes(part, None, n)
    <2>1. None \in Contents \cup {None} /\ Spelled(file, from, part, None, n)  BY <1>2, <1>6
    <2> QED  BY <1>2, <2>1, SpelledAt
  <1>7. HeaderReads
    <2>1. Reaches(file, 0, END_OFFSET)  BY <1>3, <1>4, <1>5, Offsets DEF Reaches
    <2>2. At(file, 0, MAGIC_LEN + VERSION_LEN)
            = Bytes("magic", None, MAGIC_LEN) \o Bytes("version", None, VERSION_LEN)
      BY <1>2, FullBegins, PrefixAt DEF Typed
    <2> QED  BY <2>1, <2>2 DEF HeaderReads
  <1>8. Sizes = {indexLen}  BY <1>1, <1>3, <1>7, HeaderIsWritten
  <1>9. HeaderVerifies
    <2>1. At(file, 0, CHECKSUM_OFFSET) = HeaderText  BY <1>2, FullBegins, PrefixAt DEF Typed
    <2>2. "headersum" \in Parts  BY DEF Parts
    <2>3. Spelled(Full, CHECKSUM_OFFSET, "headersum", None, CHECKSUM_LEN)
      BY <2>2, HeaderSpelled, FullSpelled, Offsets DEF Typed
    <2>4. At(file, CHECKSUM_OFFSET, CHECKSUM_LEN) = Bytes("headersum", None, CHECKSUM_LEN)
      BY <1>6, <2>2, <2>3, Offsets
    <2> QED  BY <2>1, <2>4 DEF HeaderVerifies
  <1>10. IndexReads(indexLen)  BY <1>3, <1>4, <1>5, Offsets DEF IndexReads, Reaches
  <1>11. At(file, END_OFFSET, indexLen) = Bytes("index", None, indexLen) /\ IndexVerifies(indexLen)
    <2>1. {"index", "indexsum"} \subseteq Parts /\ END_OFFSET + indexLen \in Nat
      BY <1>3, Offsets DEF Parts
    <2> QED  BY <1>3, <1>6, <2>1, FullSpelled, Offsets DEF Typed, IndexVerifies
  <1>12. Decoded(indexLen) = {index}
    <2> DEFINE t == Bytes("index", None, indexLen)
    <2>1. t \in Seq(Byte) /\ Len(t) = indexLen  BY <1>3, BytesProperties DEF Parts
    <2>2. IsPrefixOf(t, t)  BY <1>3, <2>1 DEF IsPrefixOf
    <2>3. At(t, 0, indexLen) = t  BY <2>1, <2>2, PrefixAt
    <2>4. SubSeq(t, 1, indexLen) = t  BY <1>3, <2>3 DEF At
    <2> HIDE DEF t
    <2>5. SubSeq(At(file, END_OFFSET, indexLen), 1, indexLen) = Bytes("index", None, indexLen)
      BY <1>11, <2>4 DEF t
    <2>6. indexLen >= indexLen  BY <1>3
    <2> QED  BY <2>5, <2>6 DEF Decoded
  <1>13. Readings(indexLen, verify) = {index}  BY <1>9, <1>10, <1>11, <1>12 DEF Readings
  <1> QED  BY <1>8, <1>13 DEF FailOpen

(* What Open puts into the reader. *)
LEMMA OpenHolds ==
    ASSUME Typed, FileWritten, NEW kind \in {"descriptor", "bundle"}, NEW verify \in BOOLEAN,
           Open(kind, verify)
    PROVE  ReaderHolds'
  <1>1. PICK size \in Sizes : \E ix \in Readings(size, verify) :
          reader' = [kind |-> kind, size |-> size, index |-> ix,
                     data |-> IF kind = "bundle"
                              THEN SubSeq(file, DataStart(size) + 1, Len(file)) ELSE << >>,
                     verified |-> verify, whole |-> Intact]
    BY DEF Open
  <1>2. PICK ix \in Readings(size, verify) :
          reader' = [kind |-> kind, size |-> size, index |-> ix,
                     data |-> IF kind = "bundle"
                              THEN SubSeq(file, DataStart(size) + 1, Len(file)) ELSE << >>,
                     verified |-> verify, whole |-> Intact]
    BY <1>1
  <1>3. reader'.kind = kind /\ kind # "none"  BY <1>2
  <1>4. UNCHANGED <<stage, index, indexLen, data, damage>>  BY DEF Open, building
  <1>5. CASE damage # 0
    <2>1. stage \notin Building  BY <1>5 DEF Typed, Shape, Building
    <2> QED  BY <1>3, <1>4, <1>5, <2>1 DEF ReaderHolds, Building
  <1>6. CASE damage = 0
    <2>1. stage \notin Unwritten /\ size = indexLen /\ ix = index
      BY <1>6, IndexIsWritten
    <2>2. stage \notin Building  BY <2>1 DEF Unwritten, Building
    <2>3. reader'.index = index /\ reader'.size = indexLen  BY <1>2, <2>1
    <2>4. ASSUME kind = "bundle"
          PROVE  IsPrefixOf(reader'.data, data) /\ (Intact => Len(reader'.data) = Len(data))
      <3> DEFINE start == DataStart(indexLen)
                 d == SubSeq(file, start + 1, Len(file))
      <3>1. reader'.data = d  BY <1>2, <2>1, <2>4
      <3>2. /\ file \in Seq(Byte) /\ Len(file) \in Nat /\ data \in Seq(Byte) /\ Len(data) \in Nat
            /\ indexLen \in Nat
        BY LenProperties DEF Typed, TypeOK
      <3>3. start \in Nat /\ start <= Len(file)
        <4>1. Reaches(file, END_OFFSET, indexLen + CHECKSUM_LEN)
          BY <2>1 DEF Readings, IndexReads
        <4> QED  BY <3>2, <4>1, Offsets DEF Reaches
      <3>4. Len(file) <= start + Len(data) /\ \A i \in 1..Len(file) : file[i] = Full[i]
        BY <1>6, <2>1, FullSpelled DEF FileWritten, IsPrefixOf, Typed
      <3>5. \A k \in 1..Len(data) : Full[start + k] = data[k]
        BY FullSpelled DEF Typed
      <3> HIDE DEF start
      <3>6. Len(d) = Len(file) - start /\ \A k \in 1..(Len(file) - start) : d[k] = file[start + k]
        <4>1. \A i \in start + 1 .. Len(file) : file[i] \in Byte
          BY <3>2, <3>3, ElementOfSeq
        <4>2. Len(d) = IF start + 1 <= Len(file) THEN Len(file) - (start + 1) + 1 ELSE 0
          BY <3>2, <3>3, <4>1, SubSeqProperties
        <4>3. Len(d) = Len(file) - start  BY <3>2, <3>3, <4>2
        <4> QED  BY <3>2, <3>3, <4>3
      <3> HIDE DEF d
      <3>7. ASSUME NEW k \in 1..Len(d)  PROVE d[k] = data[k]
        <4>1. start + k \in 1..Len(file) /\ k \in 1..Len(data)  BY <3>2, <3>3, <3>4, <3>6
        <4> QED  BY <3>4, <3>5, <3>6, <4>1
      <3>8. IsPrefixOf(d, data)  BY <3>2, <3>3, <3>4, <3>6, <3>7 DEF IsPrefixOf
      <3>9. Intact => Len(d) = Len(data)
        <4>1. Intact => Len(file) = start + Len(data)
          BY <1>6, <2>1, FullSpelled DEF Intact, FileWritten, Typed, start
        <4>2. Len(d) = Len(file) - start  BY <3>6
        <4> HIDE DEF Intact
        <4> QED  BY <3>2, <3>3, <4>1, <4>2
      <3> QED  BY <3>1, <3>8, <3>9
    <2>5. reader'.whole = Intact  BY <1>2
    <2> QED
      BY <1>3, <1>4, <2>2, <2>3, <2>4, <2>5 DEF ReaderHolds, IsPrefixOf, Building
  <1> QED  BY <1>5, <1>6

LEMMA ReaderStep == Typed /\ FileWritten /\ ReaderHolds /\ [Next]_vars => ReaderHolds'
  <1> SUFFICES ASSUME Typed, FileWritten, ReaderHolds, [Next]_vars  PROVE ReaderHolds'
    OBVIOUS
  <1>1. CASE \E kind \in {"descriptor", "bundle"}, verify \in BOOLEAN : Open(kind, verify)
    BY <1>1, OpenHolds
  <1>2. CASE TakeBuilt
    <2>1. /\ reader' = [kind |-> "bundle", size |-> IndexSize, index |-> index, data |-> data,
                        verified |-> FALSE, whole |-> TRUE]
          /\ stage = "built" /\ UNCHANGED <<stage, index, indexLen, data, damage>>
      BY <1>2 DEF TakeBuilt, building
    <2>2. IsPrefixOf(data, data)  BY LenProperties DEF IsPrefixOf, Typed, TypeOK
    <2> QED  BY <2>1, <2>2 DEF ReaderHolds, Building, IsPrefixOf
  <1>3. CASE Close
    BY <1>3 DEF Close, ReaderHolds, NoReader
  <1>4. CASE \/ \E p \in Paths : RemoveEntry(p) \/ \E c \in Contents : InsertEntry(p, c)
             \/ BeginBuild \/ IndexNext \/ BuildHeader \/ PackNext \/ FinishBuild
    <2>1. stage \in Building /\ reader' = reader
      BY <1>4 DEF RemoveEntry, InsertEntry, BeginBuild, IndexNext, BuildHeader, PackNext,
                 FinishBuild, Building
    <2> QED  BY <2>1 DEF ReaderHolds, NoReader
  <1>5. ASSUME UNCHANGED <<index, indexLen, data, damage, reader>>, stage' \in Building => stage \in Building
        PROVE  ReaderHolds'
    BY <1>5 DEF ReaderHolds, IsPrefixOf, NoReader
  <1>6. CASE WritePiece \/ FailWrite
    BY <1>5, <1>6 DEF WritePiece, FailWrite, building, NextStage, Building
  <1>7. CASE Damage
    <2>1. /\ damage' # 0 /\ reader' = reader /\ stage' = stage
      BY <1>7 DEF Damage, Typed, TypeOK
    <2> QED  BY <2>1 DEF ReaderHolds, NoReader, Building
  <1>8. CASE UNCHANGED vars  BY <1>5, <1>8 DEF vars
  <1>9. CASE \E verify \in BOOLEAN : FailOpen(verify)
    BY <1>5, <1>9 DEF FailOpen, building
  <1>10. CASE \E p \in Paths : GetData(p) \/ GetDataChecksum(p)
    BY <1>5, <1>10 DEF GetData, GetDataChecksum, AnswerWith, building
  <1> QED  BY <1>1, <1>2, <1>3, <1>4, <1>6, <1>7, <1>8, <1>9, <1>10 DEF Next
-----------------------------------------------------------------------------
(* Answers                                                                 *)

(* After the build every path that was inserted has its slot and its bytes. *)
LEMMA Laid ==
    ASSUME Typed, IndexBuilt, DataBuilt, stage \notin Building
    PROVE  /\ DOMAIN index = Inserted
           /\ \A p \in Inserted :
                /\ Holds(data, p)
                /\ entries[p] \in Contents
                /\ index[p] \in Slot /\ index[p].len = PackedLen[entries[p]]
  <1>1. Indexed = Len(order) /\ PackedCount = Len(order)
    BY DEF Indexed, PackedCount, Building
  <1>2. order \in Orders  BY DEF Typed, Shape, Building
  <1>3. /\ \A i \in 1..Len(order) : order[i] \in Inserted /\ entries[order[i]] \in Contents
        /\ \A p \in Inserted : \E i \in 1..Len(order) : order[i] = p
    BY <1>2, OrderProperties DEF Typed
  <1>4. DOMAIN index = Inserted
    <2>1. DOMAIN index = {order[i] : i \in 1..Len(order)}  BY <1>1 DEF IndexBuilt
    <2> QED  BY <1>3, <2>1
  <1>5. \A p \in Inserted : index[p] \in Slot  BY <1>4 DEF Typed, TypeOK, IsIndex
  <1>6. ASSUME NEW p \in Inserted
        PROVE  Holds(data, p) /\ entries[p] \in Contents /\ index[p].len = PackedLen[entries[p]]
    <2>1. PICK i \in 1..Len(order) : order[i] = p  BY <1>3
    <2> QED  BY <1>1, <1>3, <2>1 DEF IndexBuilt, DataBuilt
  <1> QED  BY <1>4, <1>5, <1>6

(* Both readers find the data section, or what there is of it, at their base. *)
LEMMA SourceIsData ==
    ASSUME Typed, FileWritten, ReaderHolds, damage = 0, reader.kind # "none"
    PROVE  /\ Source \in Seq(Byte) /\ Base \in Nat
           /\ \A i \in 1..Len(data) : Base + i <= Len(Source) => Source[Base + i] = data[i]
  <1>0. /\ file \in Seq(Byte) /\ reader.data \in Seq(Byte)
        /\ Len(file) \in Nat /\ Len(reader.data) \in Nat /\ Len(data) \in Nat /\ indexLen \in Nat
    BY LenProperties DEF Typed, TypeOK
  <1>1. CASE reader.kind = "bundle"
    <2>1. Source = reader.data /\ Base = 0 /\ IsPrefixOf(reader.data, data)
      BY <1>1 DEF Source, Base, ReaderHolds
    <2> QED  BY <1>0, <2>1 DEF IsPrefixOf
  <1>2. CASE reader.kind = "descriptor"
    <2> DEFINE start == DataStart(indexLen)
    <2>1. Source = file /\ Base = start  BY <1>2 DEF Source, Base, ReaderHolds
    <2>2. start \in Nat  BY <1>0, Offsets
    <2>3. ASSUME NEW i \in 1..Len(data), start + i <= Len(file)  PROVE file[start + i] = data[i]
      <3>1. CASE stage \in Unwritten
        <4>1. Len(file) = 0  BY <3>1 DEF Typed, Shape
        <4> QED  BY <1>0, <2>2, <2>3, <4>1
      <3>2. CASE stage \notin Unwritten
        <4>1. Full[start + i] = data[i]  BY FullSpelled DEF Typed
        <4>2. start + i \in 1..Len(file)  BY <1>0, <2>2, <2>3
        <4> HIDE DEF start
        <4> QED  BY <3>2, <4>1, <4>2 DEF FileWritten, IsPrefixOf
      <3> QED  BY <3>1, <3>2
    <2> HIDE DEF start
    <2> QED  BY <1>0, <2>1, <2>2, <2>3
  <1>3. reader.kind \in {"bundle", "descriptor"}  BY DEF Typed, TypeOK
  <1> QED  BY <1>1, <1>2, <1>3

(* So a part of the data section that is a text is read as that text. *)
LEMMA TextIsRead ==
    ASSUME Typed, FileWritten, ReaderHolds, damage = 0, reader.kind # "none",
           NEW part \in Parts, NEW c \in Contents, NEW from \in Nat, NEW n \in Nat,
           from + n <= Len(data), \A k \in 1..n : data[from + k] = <<part, c, k>>,
           Reaches(Source, Base + from, n)
    PROVE  At(Source, Base + from, n) = Bytes(part, c, n)
  <1>1. /\ Source \in Seq(Byte) /\ Base \in Nat
        /\ \A i \in 1..Len(data) : Base + i <= Len(Source) => Source[Base + i] = data[i]
    BY SourceIsData
  <1>2. Len(Source) \in Nat /\ Len(data) \in Nat  BY <1>1, LenProperties DEF Typed, TypeOK
  <1>3. Base + from + n <= Len(Source)  BY DEF Reaches
  <1>4. ASSUME NEW k \in 1..n  PROVE Source[Base + from + k] = <<part, c, k>>
    <2>1. from + k \in 1..Len(data) /\ Base + (from + k) <= Len(Source)
          /\ Base + (from + k) = Base + from + k
      BY <1>1, <1>2, <1>3
    <2> QED  BY <1>1, <2>1
  <1>5. Spelled(Source, Base + from, part, c, n)  BY <1>4 DEF Spelled
  <1>6. Base + from \in Nat  BY <1>1
  <1> QED  BY <1>1, <1>5, <1>6, SpelledAt

(* get_data and get_data_checksum of a path in the index. *)
LEMMA EntryIsRead ==
    ASSUME Typed, IndexBuilt, DataBuilt, FileWritten, ReaderHolds,
           damage = 0, reader.kind # "none", NEW p \in Inserted
    PROVE  /\ EntryData(index[p]) \subseteq {entries[p], Err}
           /\ EntryChecksum(index[p]) \subseteq {entries[p], Err}
           /\ Len(Source) = Base + Len(data) =>
                EntryData(index[p]) = {entries[p]} /\ EntryChecksum(index[p]) = {entries[p]}
           /\ entries[p] # Err
  <1> DEFINE off == index[p].offset
             len == index[p].len
             c == entries[p]
  <1>1. /\ Holds(data, p) /\ c \in Contents
        /\ off \in Nat /\ len \in Nat /\ len = PackedLen[c]
    BY Laid DEF ReaderHolds, Slot
  <1>2. Len(data) \in Nat  BY LenProperties DEF Typed, TypeOK
  <1>3. PackedLen \in [Contents -> Nat \ {0}] /\ CHECKSUM_LEN \in Nat \ {0}
    BY FormatAssumption DEF CHECKSUM_LEN
  <1>4. off + len + CHECKSUM_LEN <= Len(data)  BY <1>1 DEF Holds, EndOf
  <1>5. {"data", "datasum"} \subseteq Parts  BY DEF Parts
  <1>6. ASSUME Reaches(Source, Base + off, len)
        PROVE  Unpacked(At(Source, Base + off, len)) = {c}
    <2>1. off + len <= Len(data)  BY <1>1, <1>2, <1>3, <1>4
    <2>2. \A k \in 1..len : data[off + k] = <<"data", c, k>>  BY <1>1 DEF Holds
    <2>3. At(Source, Base + off, len) = Bytes("data", c, PackedLen[c])
      <3> HIDE DEF off, len, c
      <3> QED  BY <1>1, <1>5, <1>6, <2>1, <2>2, TextIsRead
    <2>4. ASSUME NEW d \in Contents, Bytes("data", c, PackedLen[c]) = Bytes("data", d, PackedLen[d])
          PROVE  d = c
      BY <1>1, <1>3, <1>5, <2>4, BytesNameContent
    <2> HIDE DEF c
    <2> QED  BY <1>1, <2>3, <2>4 DEF Unpacked
  <1>7. ASSUME Reaches(Source, Base + off + len, CHECKSUM_LEN)
        PROVE  ParsedChecksum(At(Source, Base + off + len, CHECKSUM_LEN)) = {c}
    <2>1. off + len + CHECKSUM_LEN <= Len(data) /\ off + len \in Nat  BY <1>1, <1>4
    <2>2. \A k \in 1..CHECKSUM_LEN : data[off + len + k] = <<"datasum", c, k>>  BY <1>1 DEF Holds
    <2>3. Base \in Nat /\ Base + off + len = Base + (off + len)  BY <1>1, SourceIsData
    <2>4. At(Source, Base + (off + len), CHECKSUM_LEN) = Bytes("datasum", c, CHECKSUM_LEN)
      <3> HIDE DEF off, len, c
      <3> QED  BY <1>1, <1>3, <1>5, <1>7, <2>1, <2>2, <2>3, TextIsRead
    <2>5. ASSUME NEW d \in Contents, Bytes("datasum", c, CHECKSUM_LEN) = Bytes("datasum", d, CHECKSUM_LEN)
          PROVE  d = c
      BY <1>1, <1>3, <1>5, <2>5, BytesNameContent
    <2> HIDE DEF c
    <2> QED  BY <1>1, <2>3, <2>4, <2>5 DEF ParsedChecksum
  <1> HIDE DEF c
  <1>8. EntryData(index[p]) \subseteq {c, Err}  BY <1>6 DEF EntryData
  <1>9. EntryChecksum(index[p]) \subseteq {c, Err}  BY <1>7 DEF EntryChecksum
  <1>10. ASSUME Len(Source) = Base + Len(data)
         PROVE  EntryData(index[p]) = {c} /\ EntryChecksum(index[p]) = {c}
    <2>1. Base \in Nat  BY SourceIsData
    <2>2. Reaches(Source, Base + off, len) /\ Reaches(Source, Base + off + len, CHECKSUM_LEN)
      <3> HIDE DEF off, len
      <3> QED  BY <1>1, <1>2, <1>3, <1>4, <1>10, <2>1 DEF Reaches
    <2> QED  BY <1>6, <1>7, <2>2 DEF EntryData, EntryChecksum
  <1>11. c # Err  BY <1>1, FormatAssumption
  <1> QED  BY <1>8, <1>9, <1>10, <1>11 DEF c

(* A whole bundle has all of the data section. *)
LEMMA WholeLength ==
    ASSUME Typed, FileWritten, ReaderHolds, damage = 0, reader.kind # "none",
           IF reader.kind = "descriptor" THEN Intact ELSE reader.whole
    PROVE  Len(Source) = Base + Len(data)
  <1>1. CASE reader.kind = "descriptor"
    <2>1. file = Full  BY <1>1 DEF Intact, FileWritten, Unwritten
    <2>2. Source = file /\ Base = DataStart(indexLen)  BY <1>1 DEF Source, Base, ReaderHolds
    <2> QED  BY <2>1, <2>2, FullSpelled DEF Typed
  <1>2. CASE reader.kind = "bundle"
    <2>1. Source = reader.data /\ Base = 0 /\ Len(reader.data) = Len(data)
      BY <1>2 DEF Source, Base, ReaderHolds
    <2>2. Len(data) \in Nat  BY LenProperties DEF Typed, TypeOK
    <2> QED  BY <2>1, <2>2
  <1> QED  BY <1>1, <1>2 DEF Typed, TypeOK

LEMMA NoneIsNotErr == None # Err
  <1> SUFFICES ASSUME None = Err  PROVE FALSE
    OBVIOUS
  <1>1. {None, Err, Garbage} = {Err, Garbage}  OBVIOUS
  <1>2. Cardinality({Err, Garbage}) <= 2
    <2>1. IsFiniteSet({Garbage}) /\ Cardinality({Garbage}) = 1  BY FS_Singleton
    <2>2. {Err, Garbage} = {Garbage} \cup {Err}  OBVIOUS
    <2>3. /\ IsFiniteSet({Garbage} \cup {Err})
          /\ Cardinality({Garbage} \cup {Err}) = IF Err \in {Garbage} THEN Cardinality({Garbage})
                                                  ELSE Cardinality({Garbage}) + 1
      BY <2>1, FS_AddElement
    <2> QED  BY <2>1, <2>2, <2>3
  <1>3. Cardinality({None, Err, Garbage}) = 3  BY FormatAssumption
  <1> QED  BY <1>1, <1>2, <1>3

(* What an answer says of its path. *)
LEMMA AnswerGiven ==
    ASSUME Typed, IndexBuilt, DataBuilt, FileWritten, ReaderHolds, NEW p \in Paths,
           GetData(p) \/ GetDataChecksum(p)
    PROVE  AnswerRight'
  <1>1. reader # NoReader /\ UNCHANGED <<entries, stage, damage>> /\ answer'.path = p
    BY DEF GetData, GetDataChecksum, AnswerWith
  <1>2. reader.kind # "none"  BY <1>1 DEF ReaderHolds
  <1>3. stage \notin Building  BY <1>2 DEF ReaderHolds
  <1>4. CASE damage # 0
    BY <1>1, <1>3, <1>4 DEF AnswerRight, AnswersOwnEntry, WholeBundleReads, Building
  <1>5. CASE damage = 0
    <2>1. reader.index = index /\ DOMAIN index = Inserted
      BY <1>2, <1>3, <1>5, Laid DEF ReaderHolds
    <2>2. CASE p \in Inserted
      <3>1. answer'.result \in EntryData(index[p]) \cup EntryChecksum(index[p])
        BY <2>1, <2>2 DEF GetData, GetDataChecksum, AnswerWith
      <3>2. answer'.result \in {entries[p], Err}  BY <1>2, <1>5, <2>2, <3>1, EntryIsRead
      <3>3. answer'.complete => Len(Source) = Base + Len(data)
        BY <1>2, <1>5, WholeLength DEF GetData, GetDataChecksum, AnswerWith
      <3>4. answer'.complete => answer'.result # Err
        <4>1. answer'.complete => \A r \in EntryData(index[p]) \cup EntryChecksum(index[p]) : r # Err
          BY <1>2, <1>5, <2>2, <3>3, EntryIsRead
        <4> QED  BY <3>1, <4>1
      <3> QED  BY <1>1, <1>3, <3>2, <3>4 DEF AnswerRight, AnswersOwnEntry, WholeBundleReads, Building
    <2>3. CASE p \notin Inserted
      <3>1. answer'.result = None
        BY <2>1, <2>3 DEF GetData, GetDataChecksum, AnswerWith
      <3>2. entries[p] = None /\ None # Err  BY <2>3, NoneIsNotErr DEF Inserted
      <3> QED  BY <1>1, <1>3, <3>1, <3>2 DEF AnswerRight, AnswersOwnEntry, WholeBundleReads, Building
    <2> QED  BY <2>2, <2>3
  <1> QED  BY <1>4, <1>5

LEMMA AnswerStep ==
    Typed /\ IndexBuilt /\ DataBuilt /\ FileWritten /\ ReaderHolds /\ AnswerRight /\ [Next]_vars
      => AnswerRight'
  <1> SUFFICES ASSUME Typed, IndexBuilt, DataBuilt, FileWritten, ReaderHolds, AnswerRight, [Next]_vars
               PROVE  AnswerRight'
    OBVIOUS
  <1>1. CASE \E p \in Paths : GetData(p) \/ GetDataChecksum(p)  BY <1>1, AnswerGiven
  <1>2. ASSUME answer'.path = None, answer'.complete => answer'.result # Err  PROVE AnswerRight'
    BY <1>2 DEF AnswerRight, AnswersOwnEntry, WholeBundleReads
  <1>3. CASE TakeBuilt \/ Close \/ \E kind \in {"descriptor", "bundle"}, verify \in BOOLEAN : Open(kind, verify)
    BY <1>2, <1>3, NoneIsNotErr DEF TakeBuilt, Close, Open, OpenAnswer, NoAnswer
  <1>3a. CASE \E verify \in BOOLEAN : FailOpen(verify)
    <2>1. ~Intact  BY <1>3a, WholeFileOpens
    <2> QED  BY <1>2, <1>3a, <2>1 DEF FailOpen, OpenAnswer
  <1>4. CASE \/ \E p \in Paths : RemoveEntry(p) \/ \E c \in Contents : InsertEntry(p, c)
             \/ BeginBuild \/ IndexNext \/ BuildHeader \/ PackNext \/ FinishBuild
    <2>1. stage \in Building /\ answer' = answer
      BY <1>4 DEF RemoveEntry, InsertEntry, BeginBuild, IndexNext, BuildHeader, PackNext,
                 FinishBuild, Building
    <2>2. damage = 0  BY <2>1 DEF Building, Typed, Shape
    <2> QED  BY <1>2, <2>1, <2>2 DEF AnswerRight, WholeBundleReads
  <1>5. ASSUME UNCHANGED <<entries, damage, answer>>, stage' \in Building => stage \in Building
        PROVE  AnswerRight'
    BY <1>5 DEF AnswerRight, AnswersOwnEntry, WholeBundleReads
  <1>6. CASE WritePiece \/ FailWrite
    BY <1>5, <1>6 DEF WritePiece, FailWrite, building, NextStage, Building
  <1>7. CASE Damage
    <2>1. damage' # 0 /\ UNCHANGED <<stage, answer>>  BY <1>7 DEF Damage, Typed, TypeOK
    <2> QED  BY <2>1 DEF AnswerRight, AnswersOwnEntry, WholeBundleReads, Building
  <1>8. CASE UNCHANGED vars  BY <1>5, <1>8 DEF vars
  <1> QED  BY <1>1, <1>3, <1>3a, <1>4, <1>6, <1>7, <1>8 DEF Next

\* Everything the theorems below follow from.
Inductive == Typed /\ IndexBuilt /\ DataBuilt /\ FileWritten /\ ReaderHolds /\ AnswerRight

LEMMA FormatInductive == Spec => []Inductive
  <1>1. Init => Inductive
    <2> SUFFICES ASSUME Init  PROVE Inductive
      OBVIOUS
    <2>1. Typed  BY InitTyped
    <2>2. Indexed = 0 /\ PackedCount = 0  BY DEF Init, Indexed, PackedCount
    <2>3. IndexBuilt /\ DataBuilt  BY <2>2 DEF Init, IndexBuilt, DataBuilt
    <2>4. FileWritten  BY DEF Init, FileWritten, Unwritten
    <2>5. ReaderHolds /\ AnswerRight
      BY DEF Init, ReaderHolds, AnswerRight, AnswersOwnEntry, WholeBundleReads, NoReader, NoAnswer
    <2> QED  BY <2>1, <2>3, <2>4, <2>5 DEF Inductive
  <1>2. Inductive /\ [Next]_vars => Inductive'
    BY StepTyped, IndexStep, DataStep, FileStep, ReaderStep, AnswerStep DEF Inductive
  <1> QED  BY <1>1, <1>2, PTL DEF Spec

(***************************************************************************)
(* A reader answers a path with the entry that was inserted for it or with *)
(* an error: offsets, lengths and bytes agree between the two loops of the *)
(* builder, the writer and both readers, whatever a crash cut off.         *)
(***************************************************************************)
THEOREM ReadersAnswerOwnEntry == Spec => []AnswersOwnEntry
  <1>1. Inductive => AnswersOwnEntry  BY DEF Inductive, AnswerRight
  <1> QED  BY <1>1, FormatInductive, PTL

(***************************************************************************)
(* A bundle that was built or written completely opens, also with its      *)
(* checksums verified, and every path in it can be read, for every index   *)
(* length that fits the header's field.                                    *)
(***************************************************************************)
THEOREM WholeBundlesRead == Spec => []WholeBundleReads
  <1>1. Inductive => WholeBundleReads  BY DEF Inductive, AnswerRight
  <1> QED  BY <1>1, FormatInductive, PTL
-----------------------------------------------------------------------------
(* Verification                                                            *)

(* Where the header's text is read, the size in it is the one written. *)
LEMMA VerifiedHeader ==
    ASSUME Typed, HeaderReads, HeaderVerifies
    PROVE  Sizes = {IndexSize}
  <1> DEFINE n == MAGIC_LEN + VERSION_LEN
             c == Bytes("size", None, INDEX_SIZE_LEN)
             mv == Bytes("magic", None, MAGIC_LEN) \o Bytes("version", None, VERSION_LEN)
  <1>1. file \in Seq(Byte) /\ Len(file) \in Nat  BY LenProperties DEF Typed, TypeOK
  <1>2. n \in Nat /\ CHECKSUM_OFFSET = n + INDEX_SIZE_LEN /\ "size" \in Parts
    BY Offsets DEF CHECKSUM_OFFSET, Parts
  <1>3. Reaches(file, 0, CHECKSUM_OFFSET) /\ Reaches(file, n, INDEX_SIZE_LEN)
    BY <1>1, <1>2, Offsets DEF HeaderReads, Reaches, END_OFFSET
  <1>4. \A k \in 1..CHECKSUM_OFFSET : At(file, 0, CHECKSUM_OFFSET)[k] = file[0 + k]
    <2>1. 0 \in Nat /\ CHECKSUM_OFFSET \in Nat  BY Offsets
    <2> QED  BY <1>3, <2>1, FilePart, Zenon
  <1>5. /\ mv \in Seq(Byte) /\ Len(mv) = n
        /\ c \in Seq(Byte) /\ Len(c) = INDEX_SIZE_LEN
        /\ \A k \in 1..INDEX_SIZE_LEN : c[k] = <<"size", None, k>>
    BY <1>2, FullBegins, Offsets, BytesProperties DEF Typed
  <1>6. HeaderText = mv \o c  BY DEF HeaderText
  <1> HIDE DEF mv, c
  <1>7. \A k \in 1..INDEX_SIZE_LEN : HeaderText[n + k] = c[k]  BY <1>5, <1>6, ConcatAt
  <1>8. ASSUME NEW k \in 1..INDEX_SIZE_LEN  PROVE file[n + k] = <<"size", None, k>>
    <2>1. n + k \in 1..CHECKSUM_OFFSET /\ 0 + (n + k) = n + k  BY <1>2, Offsets
    <2>2. file[n + k] = HeaderText[n + k]  BY <1>4, <2>1 DEF HeaderVerifies
    <2> QED  BY <1>5, <1>7, <2>2
  <1>9. Spelled(file, n, "size", None, INDEX_SIZE_LEN)  BY <1>3, <1>8 DEF Spelled
  <1>10. At(file, n, INDEX_SIZE_LEN) = Bytes("size", None, INDEX_SIZE_LEN)
    <2>1. None \in Contents \cup {None}  OBVIOUS
    <2>2. file \in Seq(Byte) /\ n \in Nat /\ "size" \in Parts /\ INDEX_SIZE_LEN \in Nat
      BY <1>1, <1>2, Offsets
    <2> HIDE DEF n
    <2> QED  BY <1>9, <2>1, <2>2, SpelledAt, ZenonT(30)
  <1> QED  BY <1>10 DEF Sizes

(* An index that verifies is the index that was written. *)
LEMMA VerifiedIndex ==
    ASSUME Typed, NEW size \in Sizes, NEW ix \in Readings(size, TRUE)
    PROVE  size = indexLen /\ ix = index
  <1>1. HeaderReads /\ HeaderVerifies /\ IndexReads(size) /\ IndexVerifies(size)
        /\ ix \in Decoded(size)
    BY DEF Sizes, Readings
  <1>2. size = IndexSize  BY <1>1, VerifiedHeader
  <1>3. indexLen \in Nat /\ size \in Nat
    BY <1>2, ModFacts, FormatAssumption DEF IndexSize, Typed, TypeOK
  <1>4. file \in Seq(Byte) /\ Len(file) \in Nat  BY LenProperties DEF Typed, TypeOK
  <1>5. Reaches(file, END_OFFSET, size)  BY <1>1, <1>3, <1>4, Offsets DEF IndexReads, Reaches
  <1>6. Len(At(file, END_OFFSET, size)) = size
    <2>1. END_OFFSET \in Nat  BY Offsets
    <2> QED  BY <1>3, <1>5, <2>1, FilePart, Zenon
  <1>7. Len(Bytes("index", None, indexLen)) = indexLen  BY <1>3, BytesProperties DEF Parts
  <1>8. size = indexLen  BY <1>1, <1>6, <1>7 DEF IndexVerifies
  <1> DEFINE t == Bytes("index", None, indexLen)
  <1>9. SubSeq(t, 1, indexLen) = t
    <2>1. t \in Seq(Byte) /\ Len(t) = indexLen  BY <1>3, BytesProperties DEF Parts
    <2>2. IsPrefixOf(t, t)  BY <1>3, <2>1 DEF IsPrefixOf
    <2>3. At(t, 0, indexLen) = t  BY <2>1, <2>2, PrefixAt
    <2> QED  BY <1>3, <2>3 DEF At
  <1>10. Decoded(size) = {index}
    <2>1. SubSeq(At(file, END_OFFSET, size), 1, indexLen) = t
      BY <1>1, <1>8, <1>9 DEF IndexVerifies
    <2>2. size >= indexLen  BY <1>3, <1>8
    <2> QED  BY <2>1, <2>2 DEF Decoded
  <1> QED  BY <1>1, <1>8, <1>10

\* What keeps it so: the reader comes after the build, and nothing is built twice.
Verified ==
    /\ reader.verified => reader.index = index /\ reader.size = indexLen
    /\ reader.verified => stage \notin Building

LEMMA VerifiedStep == Typed /\ Verified /\ ReaderHolds /\ [Next]_vars => Verified'
  <1> SUFFICES ASSUME Typed, Verified, ReaderHolds, [Next]_vars  PROVE Verified'
    OBVIOUS
  <1>1. ASSUME NEW kind \in {"descriptor", "bundle"}, NEW verify \in BOOLEAN, Open(kind, verify)
        PROVE  Verified'
    <2>1. /\ \E size \in Sizes : \E ix \in Readings(size, verify) :
                reader'.size = size /\ reader'.index = ix /\ reader'.verified = verify
          /\ UNCHANGED <<stage, index, indexLen>>
      BY <1>1 DEF Open, building
    <2>2. CASE verify
      <3>1. reader'.size = indexLen /\ reader'.index = index  BY <2>1, <2>2, VerifiedIndex
      <3>2. stage \notin Building
        <4>1. HeaderReads  BY <2>1 DEF Sizes
        <4>2. END_OFFSET <= Len(file)  BY <4>1, Offsets DEF HeaderReads, Reaches
        <4>3. Len(<< >>) = 0 /\ END_OFFSET > 0
          BY DEF END_OFFSET, CHECKSUM_OFFSET, MAGIC_LEN, VERSION_LEN, INDEX_SIZE_LEN, CHECKSUM_LEN
        <4> QED  BY <4>2, <4>3, Offsets DEF Typed, Shape, Unwritten, Building
      <3> QED  BY <2>1, <3>1, <3>2 DEF Verified, Building
    <2>3. CASE ~verify  BY <2>1, <2>3 DEF Verified
    <2> QED  BY <2>2, <2>3
  <1>2. CASE TakeBuilt \/ Close
    <2>1. ~reader'.verified  BY <1>2 DEF TakeBuilt, Close, NoReader
    <2> QED  BY <2>1 DEF Verified
  <1>3. CASE \/ \E p \in Paths : RemoveEntry(p) \/ \E c \in Contents : InsertEntry(p, c)
             \/ BeginBuild \/ IndexNext \/ BuildHeader \/ PackNext \/ FinishBuild
    <2>1. stage \in Building /\ reader' = reader
      BY <1>3 DEF RemoveEntry, InsertEntry, BeginBuild, IndexNext, BuildHeader, PackNext,
                 FinishBuild, Building
    <2> QED  BY <2>1 DEF Verified
  <1>4. ASSUME UNCHANGED <<index, indexLen, reader>>, stage' \in Building => stage \in Building
        PROVE  Verified'
    BY <1>4 DEF Verified
  <1>5. CASE WritePiece \/ FailWrite \/ Damage
    BY <1>4, <1>5 DEF WritePiece, FailWrite, Damage, building, NextStage, Building
  <1>6. CASE UNCHANGED vars  BY <1>4, <1>6 DEF vars
  <1>7. CASE \E verify \in BOOLEAN : FailOpen(verify)
    BY <1>4, <1>7 DEF FailOpen, building
  <1>8. CASE \E p \in Paths : GetData(p) \/ GetDataChecksum(p)
    BY <1>4, <1>8 DEF GetData, GetDataChecksum, AnswerWith, building
  <1> QED  BY <1>1, <1>2, <1>3, <1>5, <1>6, <1>7, <1>8 DEF Next

(***************************************************************************)
(* The checksums of header and index, when they are verified, find every   *)
(* byte that went bad in them: what was read is what was written.          *)
(***************************************************************************)
THEOREM VerifiedDescriptorIsWritten == Spec => []VerifiedIsWritten
  <1>1. Init => Verified  BY DEF Init, Verified, NoReader
  <1>2. Inductive /\ Verified /\ [Next]_vars => Verified'  BY VerifiedStep DEF Inductive
  <1>3. Verified => VerifiedIsWritten  BY DEF Verified, VerifiedIsWritten
  <1> QED  BY <1>1, <1>2, <1>3, FormatInductive, PTL DEF Spec
=============================================================================
