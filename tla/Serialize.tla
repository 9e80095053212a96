----------------------------- MODULE Serialize ------------------------------
(***************************************************************************)
(* Byte streams in arrays of words (src/utils/serialize.cairo): a reader   *)
(* and a writer that each keep part of a word between two calls.           *)
(***************************************************************************)
EXTENDS Naturals, Sequences, SequencesExt

CONSTANTS
  BYTE,   \* 2^8; a word has four bytes
  Words,  \* the stream to read, at reader.ptr
  Numbers \* to write as varints

UINT16 == BYTE^2
UINT32 == BYTE^4

ASSUME SerializeAssumption ==
  /\ BYTE \in Nat /\ BYTE > 3
  /\ Words \in Seq(Nat)
  /\ Numbers \subseteq 0 .. UINT32 * UINT32 - 1

\* The laws of powers, of which the provers know nothing.
ASSUME BytePowers ==
  BYTE^0 = 1 /\ \A k \in 0 .. 8 : BYTE^k \in Nat \ {0} /\ BYTE^(k + 1) = BYTE * BYTE^k

\* x_and_y for a mask y = hi - lo of powers of BYTE.
Digits(x, lo, hi) == ((x % hi) \div lo) * lo

byteswap16(x) == (x \div BYTE) + (x % BYTE) * BYTE
byteswap32(x) == byteswap16(x \div UINT16) + byteswap16(x % UINT16) * UINT16

-----------------------------------------------------------------------------
(* Reader: buf holds the rest of a word, and is less than cur.  A read      *)
(* returns the reader after it and its result.                              *)

init_reader == [cur |-> 1, buf |-> 0, ptr |-> 1]

Read(cur, buf, ptr, value) == [reader |-> [cur |-> cur, buf |-> buf, ptr |-> ptr], value |-> value]

read_uint8(words, reader) ==
  LET r == IF reader.cur = 1
             THEN [cur |-> UINT32, buf |-> words[reader.ptr] % UINT32, ptr |-> reader.ptr + 1]
             ELSE reader
      cur == r.cur \div BYTE
      top == Digits(r.buf, cur, r.cur)
  IN  Read(cur, r.buf - top, r.ptr, top \div cur)

peek_uint8(words, reader) ==
  IF reader.cur = 1 THEN Digits(words[reader.ptr], BYTE^3, UINT32) \div BYTE^3
  ELSE (Digits(reader.buf, reader.cur \div BYTE, reader.cur) * BYTE) \div reader.cur

\* A rest of one byte, or none, is not enough.
read_uint16_endian(words, reader) ==
  IF reader.cur \in {1, BYTE}
    THEN LET buf == (words[reader.ptr] % UINT32) + reader.buf * UINT32
             top == Digits(buf, UINT16 * reader.cur, UINT32 * reader.cur)
         IN  Read(reader.cur * UINT16, buf - top, reader.ptr + 1, top \div (UINT16 * reader.cur))
    ELSE LET cur == reader.cur \div UINT16
             top == Digits(reader.buf, cur, reader.cur)
         IN  Read(cur, reader.buf - top, reader.ptr, (top * UINT16) \div reader.cur)

read_uint32_endian(words, reader) ==
  LET buf_64 == reader.buf * UINT32 + (words[reader.ptr] % UINT32)
      top == Digits(buf_64, reader.cur, UINT32 * reader.cur)
  IN  Read(reader.cur, buf_64 - top, reader.ptr + 1, top \div reader.cur)

ReadUint(words, reader, size) ==
  CASE size = 1 -> read_uint8(words, reader)
    [] size = 2 -> read_uint16_endian(words, reader)
    [] size = 4 -> read_uint32_endian(words, reader)

-----------------------------------------------------------------------------
(* Writer: buf holds the bytes of the next word, in their places above cur. *)
(* Words that were written are in out.                                      *)

init_writer == [cur |-> UINT32, buf |-> 0, out |-> << >>]

Writer(cur, buf, out) == [cur |-> cur, buf |-> buf, out |-> out]

write_uint8(writer, byte) ==
  IF writer.cur = BYTE THEN Writer(UINT32, 0, Append(writer.out, writer.buf + byte))
  ELSE LET cur == writer.cur \div BYTE
       IN  Writer(cur, writer.buf + byte * cur, writer.out)

write_uint16_endian(writer, value) ==
  IF writer.cur \in {UINT16, BYTE}
    THEN LET places == UINT16 \div writer.cur
             buf == value + writer.buf * places
             top == Digits(buf, places, UINT32 * places)
         IN  Writer(writer.cur * UINT16, buf - top, Append(writer.out, top \div places))
    ELSE Writer(writer.cur \div UINT16, (value * writer.cur) \div UINT16 + writer.buf, writer.out)

\* Mutant: the rest is left where it was cut off.
write_uint32_unshifted(writer, source) ==
  LET places == UINT32 \div writer.cur
      buf == writer.buf * places + source
      top == Digits(buf, places, UINT32 * places)
  IN  Writer(writer.cur, buf - top, Append(writer.out, top \div places))

write_uint32_endian(writer, source) ==
  LET places == UINT32 \div writer.cur
      buf == writer.buf * places + source
      top == Digits(buf, places, UINT32 * places)
  IN  Writer(writer.cur, writer.buf * UINT32 + source * writer.cur - top * writer.cur,
             Append(writer.out, top \div places))

WriteUint(writer, size, value) ==
  CASE size = 1 -> write_uint8(writer, value)
    [] size = 2 -> write_uint16_endian(writer, value)
    [] size = 4 -> write_uint32_endian(writer, value)

\* flush_writer
Flushed(writer) == IF writer.cur = UINT32 THEN writer.out ELSE Append(writer.out, writer.buf)
-----------------------------------------------------------------------------
(* Integers of variable length: the last three bytes mark longer ones.      *)

NonCanonical == << >>

Pair(words, reader, size) ==
  LET lo == ReadUint(words, reader, size)
      hi == ReadUint(words, lo.reader, size)
      swap(x) == CASE size = 1 -> x [] size = 2 -> byteswap16(x) [] size = 4 -> byteswap32(x)
  IN  [lo |-> swap(lo.value), hi |-> swap(hi.value)]

read_varint(words, reader) ==
  LET first == read_uint8(words, reader)
      pair(size) == Pair(words, first.reader, size)
      Value(size) == pair(size).lo + pair(size).hi * BYTE^size
  IN  CASE first.value = BYTE - 1 -> IF pair(4).hi = 0 THEN NonCanonical ELSE <<Value(4)>>
        [] first.value = BYTE - 2 -> IF pair(2).hi = 0 THEN NonCanonical ELSE <<Value(2)>>
        [] first.value = BYTE - 3 ->
             IF pair(1).lo < BYTE - 3 /\ pair(1).hi = 0 THEN NonCanonical ELSE <<Value(1)>>
        [] OTHER -> <<first.value>>

\* Mutant: the bytes of a long integer are not swapped.
write_varint_unswapped(writer, source) ==
  LET after(mark) == write_uint8(writer, mark) IN
  IF source < BYTE THEN after(source)
  ELSE IF source < UINT16 THEN write_uint16_endian(after(BYTE - 3), byteswap16(source))
  ELSE IF source < UINT32 THEN write_uint32_endian(after(BYTE - 2), source)
  ELSE write_uint32_endian(
         write_uint32_endian(after(BYTE - 1), source % UINT32), source \div UINT32)

write_varint(writer, source) ==
  LET after(mark) == write_uint8(writer, mark) IN
  IF source < BYTE THEN after(source)
  ELSE IF source < UINT16 THEN write_uint16_endian(after(BYTE - 3), byteswap16(source))
  ELSE IF source < UINT32 THEN write_uint32_endian(after(BYTE - 2), byteswap32(source))
  ELSE write_uint32_endian(
         write_uint32_endian(after(BYTE - 1), byteswap32(source % UINT32)),
         byteswap32(source \div UINT32))

VARIABLES
  source,   \* a number written as a varint
  skipped,  \* how many bytes of a word are before it
  encoding  \* the words it is in, none before it is written

varintVars == <<source, skipped, encoding>>

VarintInit == source = 0 /\ skipped = 0 /\ encoding = << >>

WriteVarint ==
  /\ source' \in Numbers /\ skipped' \in 0 .. 3
  /\ encoding' = Flushed(write_varint(Writer(BYTE^(4 - skipped'), 0, << >>), source'))

VarintSpec == VarintInit /\ [][WriteVarint]_varintVars

\* The reader of the words that hold it, when it comes to the varint.
AtVarint ==
  LET cur == BYTE^(4 - skipped)
  IN  IF skipped = 0 THEN init_reader ELSE [cur |-> cur, buf |-> encoding[1] % cur, ptr |-> 2]

\* The numbers write_varint takes for one byte and read_varint for a mark, and
\* numbers of two bytes that begin at the last byte of a word.
Misread(number, before) ==
  number \in BYTE - 3 .. BYTE - 1 \/ (before = 2 /\ number \in BYTE .. UINT16 - 1)

\* Any other number is read as it was written, from whichever byte of a word its
\* varint begins.
VarintRoundTrip ==
  encoding # << >> /\ ~Misread(source, skipped) => read_varint(encoding, AtVarint) = <<source>>

-----------------------------------------------------------------------------
(* A program that reads the stream and writes it again, in other pieces.    *)

VARIABLES
  input, output,  \* a reader and a writer
  taken,    \* the bytes it has read
  written,  \* how many of them it has written
  torn      \* history: a write of two bytes began at the last byte of a word

streamVars == <<input, output, taken, written, torn>>

Sizes == {1, 2, 4}

\* The bytes of a number, the highest first; the number of some bytes in a row; and
\* the bytes of words.
BytesOf(value, size) == [k \in 1 .. size |-> (value \div BYTE^(size - k)) % BYTE]
ValueOf(bytes, from, size) ==
  LET value[k \in 0 .. size] == IF k = 0 THEN 0 ELSE value[k - 1] * BYTE + bytes[from + k]
  IN  value[size]

Bytes(words) == [k \in 1 .. 4 * Len(words) |-> BytesOf(words[(k + 3) \div 4], 4)[((k - 1) % 4) + 1]]

Stream == Bytes(Words)

StreamInit ==
  /\ input = init_reader /\ output = init_writer
  /\ taken = << >> /\ written = 0 /\ torn = FALSE

ReadNext(size) ==
  /\ Len(taken) + size <= Len(Stream)
  /\ LET r == ReadUint(Words, input, size) IN
     input' = r.reader /\ taken' = taken \o BytesOf(r.value, size)
  /\ UNCHANGED <<output, written, torn>>

WriteNext(size) ==
  /\ written + size <= Len(taken)
  /\ output' = WriteUint(output, size, ValueOf(taken, written, size))
  /\ written' = written + size
  /\ torn' = (torn \/ (size = 2 /\ output.cur = BYTE))
  /\ UNCHANGED <<input, taken>>

StreamNext == \E size \in Sizes : ReadNext(size) \/ WriteNext(size)

StreamSpec == StreamInit /\ [][StreamNext]_streamVars

-----------------------------------------------------------------------------
\* In whatever pieces the stream is read before, the next read and the next peek
\* begin at the next byte; and the words that are written have the bytes in their
\* order, zeros behind them.  That fails only behind a write of two bytes that
\* begins at the last byte of a word, whose second byte goes to the wrong end of the
\* next: no part of the program that is in use writes two bytes.
StreamIsCopied ==
  /\ taken = SubSeq(Stream, 1, Len(taken))
  /\ Len(taken) < Len(Stream) => peek_uint8(Words, input) = Stream[Len(taken) + 1]
  /\ ~torn =>
       Bytes(Flushed(output)) =
         [k \in 1 .. 4 * ((written + 3) \div 4) |-> IF k <= written THEN taken[k] ELSE 0]
=============================================================================
