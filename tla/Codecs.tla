------------------------------- MODULE Codecs -------------------------------
(***************************************************************************)
(* The byte codecs of src/storage_engine.c, as operators on sequences of   *)
(* bytes: the LZ4-style and the run-length coder with their decoders, page *)
(* compression on top of the first, and the null bitmap of records.  The   *)
(* numbers of the format are parameters, so that every limit of it is      *)
(* reached by short inputs.  The four bytes of the original size count as  *)
(* one element.                                                            *)
(***************************************************************************)
EXTENDS Integers, Sequences

CONSTANTS MinMatch,   \* 4: shortest match worth a token
          Nibble,     \* 15: longest match a token holds, a power of two - 1
          Window,     \* 255: search window, longest match, largest byte
          MaxRun,     \* 255: longest run
          PageBytes,  \* PAGE_SIZE_SE
          COMPRESSION_THRESHOLD, Margin  \* Margin: 64

MatchFlag == 128   \* 0x80

ASSUME CodecAssumption ==
  /\ MinMatch \in Nat \ {0} /\ MaxRun \in Nat \ {0}
  /\ Window \in Nat /\ Nibble \in 0 .. Window /\ MatchFlag % (Nibble + 1) = 0
  /\ PageBytes \in Nat /\ COMPRESSION_THRESHOLD \in Nat /\ Margin \in Nat

Least(a, b) == IF a < b THEN a ELSE b
Shortest(S) == CHOOSE n \in S : \A m \in S : n <= m

-----------------------------------------------------------------------------
(* LZ4-style coder.  pos counts the bytes already coded; the loops' states are
   functions of the number of passes. *)

\* The match at the earlier position i: it stops at pos and at the input's end.
MatchLen(src, i, pos) ==
  LET most == Least(Window, Least(pos - i, Len(src) - pos))
  IN  Shortest({n \in 0 .. most : n = most \/ src[i + n + 1] # src[pos + n + 1]})

\* The longest match of at least MinMatch bytes, the earliest of equals.
BestMatch(src, pos) ==
  LET start == IF pos > Window THEN pos - Window ELSE 0
      len == [i \in start .. pos - 1 |-> MatchLen(src, i, pos)]
      good == {i \in start .. pos - 1 : len[i] >= MinMatch}
      best == CHOOSE i \in good : \A j \in good : len[j] < len[i] \/ (len[j] = len[i] /\ i <= j)
  IN  IF good = {} THEN [len |-> 0, offset |-> 0]
      ELSE [len |-> len[best], offset |-> pos - best]

MatchBytes(m) ==
  <<MatchFlag + Least(m.len, Nibble), m.offset>>
    \o (IF m.len > Nibble THEN <<m.len - Nibble>> ELSE <<>>)

LzPass(src, cap, s) ==
  LET m == BestMatch(src, s.pos)
      room == Len(s.dst) + (IF m.len >= MinMatch THEN 3 ELSE 2) <= cap
  IN  IF s.pos >= Len(src) \/ Len(s.dst) >= cap - 1 \/ ~room THEN s
      ELSE IF m.len >= MinMatch
           THEN [pos |-> s.pos + m.len, dst |-> s.dst \o MatchBytes(m)]
           ELSE [pos |-> s.pos + 1, dst |-> s.dst \o <<0, src[s.pos + 1]>>]
LzRun(src, cap) ==
  LET run[k \in 0 .. Len(src)] ==
        IF k = 0 THEN [pos |-> 0, dst |-> <<Len(src)>>] ELSE LzPass(src, cap, run[k - 1])
  IN  run
compress_lz4(src, cap) == LzRun(src, cap)[Len(src)].dst

\* Copy n bytes from offset back in the output; a byte before its start is
\* left as it was (0 here).
CopyByte(dst, offset, size) ==
  IF Len(dst) >= size THEN dst
  ELSE Append(dst, IF Len(dst) >= offset THEN dst[Len(dst) - offset + 1] ELSE 0)
CopyBack(dst, offset, n, size) ==
  LET copy[k \in 0 .. n] == IF k = 0 THEN dst ELSE CopyByte(copy[k - 1], offset, size)
  IN  copy[n]

\* match_len is a byte, and so is its sum with the length byte.
UnLzPass(src, size, s) ==
  LET base == src[s.at + 1] % (Nibble + 1)
      long == base = Nibble /\ s.at + 2 < Len(src)
      n == IF long THEN (base + src[s.at + 3]) % (Window + 1) ELSE base
  IN  IF s.at + 1 >= Len(src) \/ Len(s.out) >= size THEN s
      ELSE IF src[s.at + 1] >= MatchFlag
           THEN [at |-> s.at + (IF long THEN 3 ELSE 2),
                 out |-> CopyBack(s.out, src[s.at + 2], n, size)]
           ELSE [at |-> s.at + 2, out |-> Append(s.out, src[s.at + 2])]
UnLzRun(src) ==
  LET run[k \in 0 .. Len(src)] ==
        IF k = 0 THEN [at |-> 1, out |-> <<>>] ELSE UnLzPass(src, src[1], run[k - 1])
  IN  run
decompress_lz4(src, cap) == IF src[1] > cap THEN <<>> ELSE UnLzRun(src)[Len(src)].out

-----------------------------------------------------------------------------
(* Run-length coder. *)

RunLen(src, pos) ==
  Shortest({n \in 1 .. MaxRun : n = MaxRun \/ pos + n >= Len(src) \/ src[pos + n + 1] # src[pos + 1]})

RlePass(src, cap, s) ==
  IF s.pos >= Len(src) \/ Len(s.dst) + 2 > cap THEN s
  ELSE [pos |-> s.pos + RunLen(src, s.pos),
        dst |-> s.dst \o <<RunLen(src, s.pos), src[s.pos + 1]>>]
RleRun(src, cap) ==
  LET run[k \in 0 .. Len(src)] ==
        IF k = 0 THEN [pos |-> 0, dst |-> <<Len(src)>>] ELSE RlePass(src, cap, run[k - 1])
  IN  run
compress_rle(src, cap) == RleRun(src, cap)[Len(src)].dst

UnRlePass(src, size, s) ==
  IF s.at + 1 >= Len(src) \/ Len(s.out) >= size THEN s
  ELSE [at |-> s.at + 2,
        out |-> s.out \o [i \in 1 .. Least(src[s.at + 1], size - Len(s.out)) |-> src[s.at + 2]]]
UnRleRun(src) ==
  LET run[k \in 0 .. Len(src)] ==
        IF k = 0 THEN [at |-> 1, out |-> <<>>] ELSE UnRlePass(src, src[1], run[k - 1])
  IN  run
decompress_rle(src, cap) == IF src[1] > cap THEN <<>> ELSE UnRleRun(src)[Len(src)].out

-----------------------------------------------------------------------------
(* Page compression: the data part of a page, records of free_space_end and
   above.  What the code of the compressed form leaves of the old bytes stays
   behind it, and decompression is given all of them. *)

(* Mutant: the output buffer is half a page, and the coder stops at its end. *)
PackedShort(data) == compress_lz4(data, PageBytes \div 2)

Packed(data) == compress_lz4(data, PageBytes)
slotted_page_compress(data) ==
  LET packed == Packed(data)
  IN  IF Len(data) >= COMPRESSION_THRESHOLD /\ Len(packed) < Len(data) - Margin
      THEN [compressed |-> TRUE, data |-> packed \o SubSeq(data, Len(packed) + 1, Len(data))]
      ELSE [compressed |-> FALSE, data |-> data]

slotted_page_decompress(pg) ==
  IF ~pg.compressed THEN pg.data
  ELSE LET d == decompress_lz4(pg.data, PageBytes)
       IN  d \o SubSeq(pg.data, Len(d) + 1, Len(pg.data))

-----------------------------------------------------------------------------
(* Null bitmap of a record: field i is bit i % 8 of byte i \div 8. *)

var_record_create(n) == [b \in 0 .. ((n + 7) \div 8) - 1 |-> {}]
var_record_set_null(bm, i) == [bm EXCEPT ![i \div 8] = @ \cup {i % 8}]
var_record_is_null(bm, n, i) == i < 0 \/ i >= n \/ (i % 8) \in bm[i \div 8]

-----------------------------------------------------------------------------

\* The match lengths the format has no code for: exactly Nibble bytes, for which
\* the coder writes no length byte and the decoder reads one.  It reads the next
\* token; behind the last one, the byte that the compressed form left of the
\* page, which does no harm unless the sum exceeds a byte.
Ambiguous(src) ==
  \E k \in 0 .. Len(src) :
    LET pos == LzRun(src, PageBytes)[k].pos
    IN  /\ pos < Len(src) /\ BestMatch(src, pos).len = Nibble
        /\ \/ pos + Nibble < Len(src)
           \/ Nibble + src[Len(Packed(src)) + 1] > Window

(* What is compressed comes back: a run-length coded sequence always, as long
   as the coder had room; a compressed page always, the room included, because
   a form cut short by the page size is never chosen.  The exception of the
   code is a match of exactly Nibble bytes (see Ambiguous). *)
CodecRoundTrip(src) ==
  LET page == slotted_page_compress(src)
  IN  /\ decompress_rle(compress_rle(src, 2 * Len(src) + 1), Len(src)) = src
      /\ (page.compressed => ~Ambiguous(src)) => slotted_page_decompress(page) = src
=============================================================================
