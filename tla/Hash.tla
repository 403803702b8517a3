-------------------------------- MODULE Hash ---------------------------------
(***************************************************************************)
(* Where an entry may be stored: the pair of buckets of a prefix hash      *)
(* (main.c).  A hash is abstracted to its two parts, the primary bucket    *)
(* hash_to_bucket(x) and the tag hash_to_tag(x).                           *)
(***************************************************************************)
EXTENDS Integers

CONSTANTS
  num_buckets,       \* buckets of the table
  Tags,              \* 0 .. 2^TAG_BITS - 1 in the code
  bucket_mix_table   \* tag -> distance between the two buckets of a pair

ASSUME NumBucketsAssumption == num_buckets \in Nat \ {0}

(* init_bucket_mix_table draws the table from a fixed seed.  Zero is in    *)
(* the range it draws from, but for no table size ct_alloc makes (all are  *)
(* multiples of 64) is one of the sixteen values zero.                     *)
ASSUME MixTableAssumption ==
  bucket_mix_table \in [Tags -> 1..(num_buckets - 1)]

ASSUME TagAssumption == 0 \in Tags

Buckets == 0..(num_buckets - 1)
Hashes == [bucket : Buckets, tag : Tags]

(* The secondary bucket, given the primary one.                            *)
mix_bucket(bucket, tag) ==
  LET result == bucket - bucket_mix_table[tag]
  IN  IF result < 0 THEN result + num_buckets ELSE result

(* The primary bucket, given the secondary one.                            *)
unmix_bucket(bucket, tag) ==
  LET result == bucket + bucket_mix_table[tag]
  IN  IF result >= num_buckets THEN result - num_buckets ELSE result

(* The other bucket of an entry that is now in this bucket.                *)
alternate_bucket(entry, bucket) ==
  IF entry.secondary THEN unmix_bucket(bucket, entry.tag)
                     ELSE mix_bucket(bucket, entry.tag)
=============================================================================
