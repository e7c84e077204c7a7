------------------------------- MODULE PtrWord -------------------------------
(***************************************************************************)
(* The word of utils/ptr.rs that holds a TaggedPtr: a usize with the       *)
(* pointer in the upper bits and the tag in the lower.  The pointer has    *)
(* UNUSED_MOST_SIGNIFICANT_BITS bits less than a usize; these are copies   *)
(* of its sign bit.  AssistProtocol has the pointer and the tag as the     *)
(* fields of a record; that the word does the same is proved in            *)
(* AssistProofs.                                                           *)
(***************************************************************************)
EXTENDS Integers

CONSTANTS
  TAGS,           \* 2 ^ UNUSED_MOST_SIGNIFICANT_BITS
  HALF_ADDRESSES  \* addresses with sign bit 0: 2 ^ (usize::BITS - 16) / 2

ASSUME WordAssumption == TAGS \in Nat \ {0} /\ HALF_ADDRESSES \in Nat \ {0}

HALF  == HALF_ADDRESSES * TAGS
WORDS == 2 * HALF

(* The addresses that can be packed, those of the lower and of the upper   *)
(* half of the address space.                                              *)
Addresses == (0 .. HALF_ADDRESSES - 1) \cup (WORDS - HALF_ADDRESSES .. WORDS - 1)

(* The assertion of TaggedPtr::new.                                        *)
MayPack(tag) == tag \div TAGS = 0

\* The lower bits of the shifted pointer are 0: `|` adds.
Pack(ptr, tag) == ((ptr * TAGS) % WORDS) + tag

(* `as isize`, in two's complement.                                        *)
Signed(word) == IF word < HALF THEN word ELSE word - WORDS

(* ptr: the shift extends the sign, and the cast takes it back to a usize. *)
PtrOf(word) == (Signed(word) \div TAGS) % WORDS

TagOf(word) == word % TAGS

(* fetch_add_tag wraps, and carries from the tag into the pointer.         *)
FetchAddWord(word, tag) == (word + tag) % WORDS
=============================================================================
