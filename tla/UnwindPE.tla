------------------------------ MODULE UnwindPE ------------------------------
(***************************************************************************)
(* The decoding of the pointers of an exception table (unwind-pe.h), as    *)
(* the personality routine uses it: it walks a table that the assembler    *)
(* wrote and reads one encoded value after the other.  A byte is a digit   *)
(* of ByteBits bits (8 in the code; TLC takes 3, so that a word of eight   *)
(* bytes fits in its integers); everything else is in bytes and keeps its  *)
(* size.                                                                   *)
(***************************************************************************)
EXTENDS Integers, Sequences, FiniteSetsExt

CONSTANTS
    ByteBits,   \* bits of a byte
    PtrSizes,   \* sizes of a word (and pointer) considered, in bytes
    Starts,     \* addresses at which a table may start
    Bases,      \* what the context gives as text, data and function bases
    Apple,      \* TRUE if textrel and datarel are not supported
    MaxPad,     \* bound: LEB128 groups the assembler adds to align what follows
    Samples(_, _)   \* the values considered, of a number of bytes, signed or not

ASSUME ConstantsAssumption ==
    /\ ByteBits \in Nat /\ ByteBits > 2
    /\ PtrSizes \subseteq {4, 8}
    /\ Starts \subseteq Nat
    /\ Bases \in [{"textrel", "datarel", "funcrel"} -> Nat]
    /\ Apple \in BOOLEAN
    /\ MaxPad \in Nat

VARIABLES
    ptr,     \* sizeof (void *)
    enc,     \* the encoding of the table
    table,   \* what the assembler wrote: the values, where, and the bytes
    pc,      \* where the reader is: "field", "leb", "rebase", "done", "abort"
    p,       \* the pointer into the table
    u,       \* the address of the value being read
    acc,     \* the local "result"
    shift,   \* the local "shift" of the LEB128 readers
    vals     \* the values returned so far

vars == <<ptr, enc, table, pc, p, u, acc, shift, vals>>
reader == <<ptr, enc, table>>   \* what reading never changes

(***************************************************************************)
(* Encodings: the low nibble is a format, the next three bits say what the *)
(* value is relative to, the last one that it is the address of the value. *)
(***************************************************************************)
Formats == 0 .. 15
absptr == 0
uleb128 == 1
udata2 == 2
udata4 == 3
udata8 == 4
sleb128 == 9
sdata2 == 10
sdata4 == 11
sdata8 == 12

Applications == {"absptr", "pcrel", "textrel", "datarel", "funcrel", "aligned", "x60", "x70"}

Encodings == [format : Formats, application : Applications, indirect : BOOLEAN]
omit == [format |-> 15, application |-> "x70", indirect |-> TRUE]
aligned == [format |-> absptr, application |-> "aligned", indirect |-> FALSE]

Abort == -1   \* the outcome of __gxx_abort

\* B to the power N.
Pow(b, n) == LET pow[k \in 0 .. n] == IF k = 0 THEN 1 ELSE b * pow[k - 1] IN pow[n]

Byte == Pow(2, ByteBits)
More == Byte \div 2          \* 0x80, and one more than the mask 0x7f
Sign == Byte \div 4          \* 0x40
WordBits == ByteBits * ptr
Word == Pow(2, WordBits)

\* Mutant of size_of_encoded_value: eight bytes taken for a pointer.
SizeOfPointers(e) ==
    IF e = omit THEN 0
    ELSE CASE e.format % 8 \in {absptr, udata8} -> ptr
           [] e.format % 8 = udata2 -> 2
           [] e.format % 8 = udata4 -> 4
           [] OTHER -> Abort

size_of_encoded_value(e) ==
    IF e = omit THEN 0
    ELSE CASE e.format % 8 = absptr -> ptr
           [] e.format % 8 = udata2 -> 2
           [] e.format % 8 = udata4 -> 4
           [] e.format % 8 = udata8 -> 8
           [] OTHER -> Abort

base_of_encoded_value(e) ==
    CASE e = omit \/ e.application \in {"absptr", "pcrel", "aligned"} -> 0
      [] e.application \in {"textrel", "datarel"} /\ ~Apple -> Bases[e.application]
      [] e.application = "funcrel" -> Bases["funcrel"]
      [] OTHER -> Abort

(***************************************************************************)
(* The assembler: little-endian integers, LEB128 with at most MaxPad       *)
(* groups more than needed, and null bytes before an aligned pointer.      *)
(***************************************************************************)
IsLeb(e) == e.format \in {uleb128, sleb128}
IsSigned(e) == e.format \in {sleb128, sdata2, sdata4, sdata8}
Width(e) ==
    CASE e.format \in {udata2, sdata2} -> 2
      [] e.format \in {udata4, sdata4} -> 4
      [] e.format \in {udata8, sdata8} -> 8
      [] OTHER -> ptr

\* The values that N bytes hold.
Representable(n, signed) ==
    LET top == Pow(2, ByteBits * n)
    IN  IF signed THEN -(top \div 2) .. top \div 2 - 1 ELSE 0 .. top - 1

ASSUME SamplesAssumption ==
    \A n \in {2, 4, 8}, signed \in BOOLEAN : Samples(n, signed) \subseteq Representable(n, signed)

Data(v, n) == [i \in 1 .. n |-> (v \div Pow(Byte, i - 1)) % Byte]

Groups(v, n) == [i \in 1 .. n |-> ((v \div Pow(More, i - 1)) % More) + (IF i < n THEN More ELSE 0)]

MaxGroups == (WordBits + ByteBits - 2) \div (ByteBits - 1)
Fits(v, n, signed) == IF signed THEN -(Pow(More, n) \div 2) <= v /\ v < Pow(More, n) \div 2
                                ELSE v < Pow(More, n)
FewestGroups(v, signed) == Min({n \in 1 .. MaxGroups : Fits(v, n, signed)} \cup {MaxGroups})

AlignUp(a) == ((a + ptr - 1) \div ptr) * ptr

\* The bytes of value V when it is written at address A, with PAD more groups.
Field(e, v, a, pad) ==
    IF e = aligned THEN [i \in 1 .. AlignUp(a) - a |-> 0] \o Data(v, ptr)
    ELSE IF IsLeb(e)
         THEN LET n == FewestGroups(v, IsSigned(e)) IN Groups(v, Min({n + pad, MaxGroups}))
    ELSE Data(v, Width(e))

\* A table of two values that starts at address A.
Written(e, a, v1, v2, pad) ==
    LET f1 == Field(e, v1, a, pad)
        f2 == Field(e, v2, a + Len(f1), 0)
    IN  [values |-> <<v1, v2>>, fields |-> <<a, a + Len(f1), a + Len(f1) + Len(f2)>>,
         bytes |-> f1 \o f2]

ByteAt(a) == table.bytes[a - table.fields[1] + 1]
Load(a, n) ==
    LET load[i \in 0 .. n] ==
            IF i = 0 THEN 0 ELSE load[i - 1] + ByteAt(a + i - 1) * Pow(Byte, i - 1)
    IN  load[n]

(***************************************************************************)
(* The reader                                                              *)
(***************************************************************************)
Reads(e) == e = aligned \/ e.format \in {absptr, uleb128, sleb128, udata2, udata4, udata8,
                                         sdata2, sdata4, sdata8}

InTable == Len(vals) < Len(table.values)

\* A value has been read: VAL is set and the pointer is returned.
Return(v, next) ==
    /\ vals' = Append(vals, v)
    /\ p' = next
    /\ pc' = IF Len(vals) + 1 = Len(table.values) THEN "done" ELSE "field"

\* Mutant of ReadAborts: base_of_encoded_value has no final abort.
AbortsForFormat ==
    /\ pc = "field" /\ InTable /\ ~Reads(enc)
    /\ pc' = "abort"
    /\ UNCHANGED <<reader, p, u, acc, shift, vals>>

\* An encoding that has no base, or no format.
ReadAborts ==
    /\ pc = "field" /\ InTable
    /\ base_of_encoded_value(enc) = Abort \/ ~Reads(enc)
    /\ pc' = "abort"
    /\ UNCHANGED <<reader, p, u, acc, shift, vals>>

Readable == pc = "field" /\ InTable /\ Reads(enc) /\ base_of_encoded_value(enc) # Abort

\* A whole word, at the next address that is a multiple of its size.
ReadAligned ==
    /\ Readable /\ enc = aligned
    /\ Return([addr |-> Load(AlignUp(p), ptr), deref |-> FALSE], AlignUp(p) + ptr)
    /\ UNCHANGED <<reader, u, acc, shift>>

\* Signed data is extended to a word, unsigned data truncated to one.
Extended(x, n, signed) ==
    IF signed /\ x >= Pow(Byte, n) \div 2 THEN (x - Pow(Byte, n)) % Word ELSE x % Word

ReadFixed ==
    /\ Readable /\ enc # aligned /\ ~IsLeb(enc)
    /\ LET n == Width(enc)
       IN  /\ acc' = Extended(Load(p, n), n, IsSigned(enc))
           /\ p' = p + n
    /\ u' = p
    /\ pc' = "rebase"
    /\ UNCHANGED <<reader, shift, vals>>

StartLeb ==
    /\ Readable /\ IsLeb(enc)
    /\ acc' = 0
    /\ shift' = 0
    /\ u' = p
    /\ pc' = "leb"
    /\ UNCHANGED <<reader, p, vals>>

\* The bits that a last byte B with its sign bit set adds above SHIFTED.
SignExtension(b, shifted) ==
    IF shifted < WordBits /\ (b \div Sign) % 2 = 1 THEN Word - Pow(2, shifted) ELSE 0

\* Mutant of ReadGroup: the shift moves by whole bytes.
ReadGroupOfByte ==
    /\ pc = "leb"
    /\ LET b == ByteAt(p)
       IN  /\ shift' = shift + ByteBits
           /\ acc' = (acc + (b % More) * Pow(2, shift)) % Word
           /\ pc' = IF b < More THEN "rebase" ELSE "leb"
    /\ p' = p + 1
    /\ UNCHANGED <<reader, u, vals>>

\* One iteration of the loop of read_uleb128 or read_sleb128.  A shift by
\* WordBits or more would be undefined: NoUndefinedShift.
ReadGroup ==
    /\ pc = "leb"
    /\ LET b == ByteAt(p)
           shifted == shift + ByteBits - 1
           r == (acc + (b % More) * Pow(2, shift)) % Word
           ends == b < More
       IN  /\ shift' = shifted
           /\ acc' = IF ends /\ IsSigned(enc) THEN r + SignExtension(b, shifted) ELSE r
           /\ pc' = IF ends THEN "rebase" ELSE "leb"
    /\ p' = p + 1
    /\ UNCHANGED <<reader, u, vals>>

\* Mutant of Relocated: relative to the pointer after the value was read.
RelocatedFromNext(r) ==
    IF r = 0 THEN [addr |-> 0, deref |-> FALSE]
    ELSE [addr |-> (r + (IF enc.application = "pcrel" THEN p ELSE base_of_encoded_value(enc))) % Word,
          deref |-> enc.indirect]

\* A null value stays null; any other is relative to its own address or to
\* the base, and may be the address of the value.
Relocated(r) ==
    IF r = 0 THEN [addr |-> 0, deref |-> FALSE]
    ELSE [addr |-> (r + (IF enc.application = "pcrel" THEN u ELSE base_of_encoded_value(enc))) % Word,
          deref |-> enc.indirect]

Rebase ==
    /\ pc = "rebase"
    /\ Return(Relocated(acc), p)
    /\ UNCHANGED <<reader, u, acc, shift>>

Init ==
    /\ ptr \in PtrSizes
    /\ enc \in Encodings
    /\ \E a \in Starts, pad \in 0 .. MaxPad :
          IF enc = aligned \/ Reads(enc)
          THEN \E v1, v2 \in Samples(Width(enc), IsSigned(enc)) :
                  table = Written(enc, a, v1, v2, IF IsLeb(enc) THEN pad ELSE 0)
          ELSE table = [values |-> <<0>>, fields |-> <<a, a + 1>>, bytes |-> <<0>>]
    /\ pc = "field"
    /\ p = table.fields[1]
    /\ u = 0 /\ acc = 0 /\ shift = 0
    /\ vals = <<>>

Next == ReadAborts \/ ReadAligned \/ ReadFixed \/ StartLeb \/ ReadGroup \/ Rebase

\* A running program is scheduled.
Spec == Init /\ [][Next]_vars /\ WF_vars(Next)

(***************************************************************************)
(* Properties                                                              *)
(***************************************************************************)

\* The value that the assembler meant: null, or a distance from the field
\* itself or from the base of the encoding, in words of the target.
Meant(i) ==
    LET v == table.values[i] % Word
        from == CASE enc.application = "pcrel" -> table.fields[i]
                  [] enc.application \in DOMAIN Bases -> Bases[enc.application]
                  [] OTHER -> 0
    IN  IF v = 0 THEN [addr |-> 0, deref |-> FALSE]
        ELSE [addr |-> (v + from) % Word, deref |-> enc.indirect]

\* read_encoded_value returns what was written, whatever its size, sign,
\* number of LEB128 groups, base and indirection, on 32-bit and 64-bit words.
ReadsWhatIsMeant == \A i \in DOMAIN vals : vals[i] = Meant(i)

\* size_of_encoded_value, which the personality routine multiplies by an
\* index to find an entry of the type table, is the distance that reading
\* an entry moves the pointer (aligned entries: if the table is aligned).
SizeIsStride ==
    pc = "done" /\ size_of_encoded_value(enc) # Abort /\ (enc = aligned => table.fields[1] % ptr = 0)
    => p = table.fields[1] + Len(vals) * size_of_encoded_value(enc)

\* No LEB128 reader shifts by the width of a word or more, which C leaves
\* undefined, even for the padded values that assemblers write, as long as a
\* value has no more groups than a word takes (MaxGroups).
NoUndefinedShift == pc = "leb" => shift < WordBits

\* Reading always ends: with all the values or, for an encoding that is not
\* one of the header's, with an abort.
ReadingEnds == <>(pc = (IF Reads(enc) /\ base_of_encoded_value(enc) # Abort THEN "done" ELSE "abort"))
=============================================================================
