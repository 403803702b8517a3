----------------------------- MODULE KeySymbols -----------------------------
(***************************************************************************)
(* A key as symbols of five bits, and the prefetcher that hashes its       *)
(* prefixes ahead of the descent (prefetcher_start, prefetcher_step,       *)
(* descend).                                                               *)
(*                                                                         *)
(* The trie takes the symbols of a key in two ways: one at a time          *)
(* (get_string_symbol, for the splitting of leaves), and eight at a time   *)
(* from QWORDs that may begin before the key or end behind it              *)
(* (key_to_symbols, for every descent).  A hash is the prefix it hashes:   *)
(* PrefixHash has the arithmetic.                                          *)
(***************************************************************************)
EXTENDS BitStrings, Sequences

CONSTANTS
  MAX_KEY_BYTES,
  Keys,        \* the keys that are descended
  Places,      \* the addresses where a key may begin
  Fillers,     \* the bytes that may be around it
  NULL

SYMBOL_END == 0
PAGE_SIZE == 4096
MAX_KEY_SYMBOLS == (MAX_KEY_BYTES * 8 + BITS_PER_SYMBOL - 1) \div BITS_PER_SYMBOL

(* prefix_hashes is aligned, so the array of symbols is followed by up to  *)
(* seven bytes that nothing else uses.                                     *)
SymbolBytes == ((MAX_KEY_SYMBOLS + 7) \div 8) * 8

(* The END symbol of a longest key is one past the array.  It finds room   *)
(* behind it unless BITS_PER_SYMBOL divides MAX_KEY_BYTES (256 in the      *)
(* code).                                                                  *)
ASSUME KeysAssumption ==
  /\ MAX_KEY_BYTES \in Nat /\ MAX_KEY_BYTES % BITS_PER_SYMBOL # 0
  /\ \A k \in Keys : Len(k) <= MAX_KEY_BYTES /\ \A i \in DOMAIN k : k[i] \in 0..255
  /\ Places \subseteq Nat /\ Fillers \subseteq 0..255

VARIABLES
  input,        \* the key, its address and what is around it
  prefetcher,
  prefix_len,   \* of the finger
  descended     \* the symbols and the hash the finger has been given

key_vars == <<input, prefetcher, prefix_len, descended>>

-----------------------------------------------------------------------------
num_key_symbols(size) == (size * 8 + BITS_PER_SYMBOL - 1) \div BITS_PER_SYMBOL + 1

first_byte_idx(symbol_idx) == (symbol_idx * BITS_PER_SYMBOL) \div 8

(* The five bits of a symbol, from two bytes, the second zero behind the   *)
(* end of the key.                                                         *)
SymbolBits(size, bytes, symbol_idx) ==
  LET first == first_byte_idx(symbol_idx)
      second_byte == IF first + 1 < size THEN bytes[first + 2] ELSE 0
      word == bytes[first + 1] * 256 + second_byte
      offset == (symbol_idx * BITS_PER_SYMBOL) % 8
  IN  (word \div 2^(16 - BITS_PER_SYMBOL - offset)) % FANOUT

(* Mutant: symbols are numbered from the END symbol's number.              *)
string_symbol_from_zero(size, bytes, symbol_idx) ==
  IF first_byte_idx(symbol_idx) >= size THEN SYMBOL_END ELSE SymbolBits(size, bytes, symbol_idx)

get_string_symbol(size, bytes, symbol_idx) ==
  IF first_byte_idx(symbol_idx) >= size THEN SYMBOL_END ELSE SymbolBits(size, bytes, symbol_idx) + 1

SymbolsOf(key) == [i \in 0..(num_key_symbols(Len(key)) - 1) |-> get_string_symbol(Len(key), key, i)]

(* Negative, zero or positive, as memcmp's result or the sizes say.        *)
kv_key_compare_to(key, bytes) ==
  LET differ == {i \in DOMAIN key \cap DOMAIN bytes : key[i] # bytes[i]}
  IN  IF differ # {} THEN key[Min(differ)] - bytes[Min(differ)] ELSE Len(key) - Len(bytes)

-----------------------------------------------------------------------------
(* Memory: the key at its address and other bytes around it.               *)
Memory(in, address) ==
  IF address \in in.place..(in.place + Len(in.key) - 1) THEN in.key[address - in.place + 1] ELSE in.filler

(* The first address of the QWORD that is read for the rest of a key.      *)
QwordAddress(from, size) ==
  IF size < 8 /\ from % PAGE_SIZE > 8 THEN from - 8 + size ELSE from

(* Mutant: the QWORD as it is in memory, where the key's bytes are         *)
(* followed by whatever is there.                                          *)
read_qword_unfilled(in, from, size) ==
  [i \in 0..7 |-> Memory(in, from + i)]

(* The bytes of the rest of the key, then zeros.  A QWORD that began       *)
(* before it is shifted; one that began with it loses its high bytes.      *)
read_qword_zfill(in, from, size) ==
  LET read == QwordAddress(from, size)
      skip == IF size < 8 /\ from % PAGE_SIZE > 8 THEN 8 - size ELSE 0
  IN  [i \in 0..7 |-> IF i < size THEN Memory(in, read + skip + i) ELSE 0]

Qwords(size) == 0..((size + BITS_PER_SYMBOL - 1) \div BITS_PER_SYMBOL - 1)

(* Each QWORD: its first five bytes as eight symbols, most significant     *)
(* first.                                                                  *)
key_to_symbols(in, symbols) ==
  [i \in DOMAIN symbols |->
     LET from == BITS_PER_SYMBOL * (i \div 8)
         qword == read_qword_zfill(in, in.place + from, Len(in.key) - from)
     IN  IF i \div 8 \in Qwords(Len(in.key))
         THEN WordField(qword, 8, 64 - BITS_PER_SYMBOL * ((i % 8) + 1), BITS_PER_SYMBOL) + 1
         ELSE symbols[i]]

accumulate_hash(hash, symbol) == Append(hash, symbol)
HASH_START_VALUE == <<>>

(* prefetch_prefix_hash lies behind the last of the prefix hashes: a       *)
(* longest key has its last hash there.                                    *)
SetHash(p, pos, hash) ==
  [p EXCEPT !.prefetch_prefix_hash = hash,
            !.prefix_hashes = [i \in DOMAIN @ |-> IF i = pos THEN hash ELSE @[i]]]

PrefixHashAt(p, pos) ==
  IF pos = MAX_KEY_SYMBOLS THEN p.prefetch_prefix_hash ELSE p.prefix_hashes[pos]

prefetcher_step(p) ==
  IF p.prefetch_pos < p.num_key_symbols
  THEN LET hash == accumulate_hash(p.prefetch_prefix_hash, p.key_symbols[p.prefetch_pos])
       IN  [SetHash(p, p.prefetch_pos, hash) EXCEPT !.prefetch_pos = @ + 1]
  ELSE p

prefetcher_start(p, in) ==
  LET num == num_key_symbols(Len(in.key))
      begun == [p EXCEPT !.num_key_symbols = num,
                         !.key_symbols = [key_to_symbols(in, p.key_symbols) EXCEPT ![num - 1] = SYMBOL_END],
                         !.prefetch_prefix_hash = HASH_START_VALUE,
                         !.prefetch_pos = 0]
      after[i \in 0..4] == IF i = 0 THEN begun ELSE prefetcher_step(after[i - 1])
  IN  after[4]

-----------------------------------------------------------------------------
(* The prefetcher is on the stack, with what was there before.             *)
Uninitialized ==
  [key_symbols |-> [i \in 0..(SymbolBytes - 1) |-> FANOUT], prefix_hashes |-> [i \in 0..(MAX_KEY_SYMBOLS - 1) |-> NULL],
   prefetch_prefix_hash |-> NULL, prefetch_pos |-> 0, num_key_symbols |-> 0]

KeyIdle ==
  /\ input = NULL /\ prefetcher = Uninitialized
  /\ prefix_len = 0 /\ descended = [symbols |-> <<>>, hash |-> HASH_START_VALUE]

KeyInit ==
  /\ input \in [key : Keys, place : Places, filler : Fillers]
  /\ prefetcher = prefetcher_start(Uninitialized, input)
  /\ prefix_len = 0 /\ descended = [symbols |-> <<>>, hash |-> HASH_START_VALUE]

(* One symbol of descend's loop: a step of the prefetcher, then the        *)
(* finger goes down by the key's next symbol and its hash.                 *)
descend ==
  /\ input # NULL
  /\ \A i \in DOMAIN descended.symbols : descended.symbols[i] # SYMBOL_END
  /\ prefetcher' = prefetcher_step(prefetcher)
  /\ descended' = [symbols |-> Append(descended.symbols, prefetcher'.key_symbols[prefix_len]),
                   hash |-> PrefixHashAt(prefetcher', prefix_len)]
  /\ prefix_len' = prefix_len + 1
  /\ UNCHANGED input

KeyNext == descend

-----------------------------------------------------------------------------
PagesOf(first, last) == (first \div PAGE_SIZE)..(last \div PAGE_SIZE)

(* Whatever lies around the key and wherever it lies on its page, the      *)
(* descent takes the symbols get_string_symbol gives, with the hash of     *)
(* the prefix up to each, END as the last; and key_to_symbols reads no     *)
(* page that holds nothing of the key.  (descend and split_leaf place a    *)
(* key by the two readings: they must be the same.)                        *)
SymbolsAgree ==
  input # NULL =>
    /\ \A i \in DOMAIN descended.symbols :
         descended.symbols[i] = get_string_symbol(Len(input.key), input.key, i - 1)
    /\ descended.hash = descended.symbols
    /\ \A q \in Qwords(Len(input.key)) :
         LET from == input.place + BITS_PER_SYMBOL * q
             read == QwordAddress(from, Len(input.key) - BITS_PER_SYMBOL * q)
         IN  PagesOf(read, read + 7) \subseteq PagesOf(input.place, input.place + Len(input.key) - 1)

(* Keys are in the order of their symbols exactly when they are in the     *)
(* order of their bytes, the padding of the last symbol and a key that is  *)
(* a prefix of another included.  (The trie is ordered by symbols; the     *)
(* leaf list, iterators and ct_verify_trie compare bytes with              *)
(* kv_key_compare.)                                                        *)
SymbolOrderIsKeyOrder ==
  input # NULL /\ prefix_len = 0 =>
    \A other \in Keys :
      LET s == SymbolsOf(input.key)
          t == SymbolsOf(other)
          differ == {i \in DOMAIN s \cap DOMAIN t : s[i] # t[i]}
      IN  /\ differ = {} <=> input.key = other
          /\ differ # {} =>
               (s[Min(differ)] < t[Min(differ)] <=> kv_key_compare_to(input.key, other) < 0)
=============================================================================
