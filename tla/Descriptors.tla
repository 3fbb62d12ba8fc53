---------------------------- MODULE Descriptors ----------------------------
(* The io functions of inc/descriptors.h as sequences of the calls they make *)
(* on an iox object, and the factory of src/src/descriptors.cpp.  A loop and *)
(* a choice by what has been read are calls that are replaced by others when *)
(* their turn comes.                                                         *)
EXTENDS Integers, Sequences

CONSTANTS Bits,           \* the width of a number of the code: itself
          ServiceListTag, CableTag, AdaptationTag   \* 0x41, 0x44, 0x70

Uint(n, name) == [op |-> "uint", size |-> Bits[n], name |-> name, hint |-> "FORMAT_HINT_DEC"]
UintHex(n, name) == [Uint(n, name) EXCEPT !.hint = "FORMAT_HINT_HEX"]
\* every number that is required has all its bits set
UintReq(n, name) == [Uint(n, name) EXCEPT !.op = "uint_req"]
BlockBegin(n) == [op |-> "named_block_begin", size |-> Bits[n]]
BlockEnd(member) == [op |-> "named_block_end", member |-> member]
VectorIo(item) == [op |-> "vector_io", item |-> item]
ShortStringIo(name) == [op |-> "short_string_io", name |-> name]
FixedStringIo(num_chars, name) ==
  [op |-> "fixed_string_io", num_chars |-> num_chars, name |-> name]

----------------------------------------------------------------------------
\* the tag is written by each descriptor's io, but read by the vector's
DescriptorVectorIo == VectorIo(<<[op |-> "tag"], [op |-> "descriptor_factory"]>>)

\* slip for mutation: an item that reads nothing
ServiceOfNothing == <<>>

Service == <<Uint(16, "service_id"), Uint(8, "service_type")>>

Content(tag) ==
  CASE tag = ServiceListTag ->
         <<BlockBegin(8), VectorIo(Service), BlockEnd("length")>>
    [] tag = CableTag ->
         <<BlockBegin(8), UintHex(32, "frequency"), UintReq(12, "reserved_future_use"),
           Uint(4, "FEC_outer"), Uint(8, "modulation"), Uint(28, "symbol_rate"),
           Uint(4, "FEC_inner"), BlockEnd("length")>>
    [] tag = AdaptationTag ->
         <<BlockBegin(8), Uint(8, "adaptation_field_data_identifier"), BlockEnd("length")>>
    [] OTHER ->
         <<Uint(8, "length"), [op |-> "data"]>>

Item == <<ShortStringIo("item_description"), ShortStringIo("item")>>

ExtendedEvent ==
  <<Uint(8, "descriptor_tag"), Uint(8, "descriptor_length"), Uint(4, "descriptor_number"),
    Uint(4, "last_descriptor_number"), FixedStringIo(3, "ISO_639_language_code"),
    BlockBegin(8), VectorIo(Item), BlockEnd("length_of_items"), ShortStringIo("text")>>
=============================================================================
