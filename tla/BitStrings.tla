----------------------------- MODULE BitStrings -----------------------------
(***************************************************************************)
(* The bit operations of util.c on byte strings: functions from 0, 1, ...  *)
(* to bytes.  Bit 0 is the most significant bit of byte 0.                 *)
(*                                                                         *)
(* The code works on a DWORD or a QWORD that it loads from the string and  *)
(* byte-swaps, so that bit p of the string, counted from the first byte    *)
(* loaded, is bit 31 - p or 63 - p of the word.  Here words stay strings   *)
(* of 4 or 8 bytes and a word's bits are numbered from its lowest one, as  *)
(* the code's shifts and masks number them.                                *)
(***************************************************************************)
EXTENDS Integers, FiniteSetsExt

BITS_PER_SYMBOL == 5
FANOUT == 2^BITS_PER_SYMBOL

BitOf(byte, n) == (byte \div 2^n) % 2

(* Bit n, from the lowest, of the big-endian word of the given bytes.      *)
WordBit(word, bytes, n) == BitOf(word[bytes - 1 - n \div 8], n % 8)

(* The number in bits offset, ..., offset + size - 1 of the word.          *)
WordField(word, bytes, offset, size) ==
  LET value[k \in 0..size] ==
        IF k = 0 THEN 0 ELSE 2 * value[k - 1] + WordBit(word, bytes, offset + size - k)
  IN  value[size]

Load(string, first, bytes) == [i \in 0..(bytes - 1) |-> string[first + i]]

-----------------------------------------------------------------------------
dword_start_byte(start_bit, num_bits) ==
  LET byte == (start_bit + num_bits - 1) \div 8 - 3
  IN  IF byte < 0 THEN 0 ELSE byte

(* Where the bits end in the DWORD: the shift that brings them down.       *)
dword_offset(start_bit, num_bits) ==
  32 - start_bit + dword_start_byte(start_bit, num_bits) * 8 - num_bits

extract_bits(string, start_bit, num_bits) ==
  WordField(Load(string, dword_start_byte(start_bit, num_bits), 4), 4,
            dword_offset(start_bit, num_bits), num_bits)

put_bits(string, start_bit, num_bits, bits) ==
  LET first  == dword_start_byte(start_bit, num_bits)
      offset == dword_offset(start_bit, num_bits)
      bit(n) == IF n \in offset..(offset + num_bits - 1)
                THEN BitOf(bits, n - offset)
                ELSE WordBit(Load(string, first, 4), 4, n)
      byte(i) == SumSet({bit(8 * (3 - i) + n) * 2^n : n \in {m \in 0..7 : bit(8 * (3 - i) + m) = 1}})
  IN  [i \in DOMAIN string |-> IF i \in first..(first + 3) THEN byte(i - first) ELSE string[i]]

(* Mutant: only the bytes that are wholly within num_bits.                 *)
copy_whole_bytes(dest, src, src_offset, num_bits) ==
  [i \in DOMAIN dest |-> IF 8 * (i + 1) <= num_bits THEN extract_bits(src, src_offset + 8 * i, 8) ELSE dest[i]]

(* A last byte is copied whenever pos has not passed num_bits, a whole     *)
(* number of bytes included; the code after the loop never runs.           *)
copy_bits(dest, src, src_offset, num_bits) ==
  [i \in DOMAIN dest |-> IF 8 * i <= num_bits THEN extract_bits(src, src_offset + 8 * i, 8) ELSE dest[i]]

-----------------------------------------------------------------------------
get_bit(string, bit) == BitOf(string[bit \div 8], 7 - (bit % 8))

set_bit(string, bit, value) ==
  [string EXCEPT ![bit \div 8] = @ + (value - get_bit(string, bit)) * 2^(7 - (bit % 8))]

(* The word holds bit b of the string at 63 - b; the mask clears the bits  *)
(* at end and after it, and the lowest bit that is left is the last one.   *)
last_bit_before(string, end) ==
  LET left == {n \in 0..63 : n > 63 - end /\ WordBit(Load(string, 0, 8), 8, n) = 1}
  IN  IF left = {} THEN -1 ELSE 63 - Min(left)
=============================================================================
