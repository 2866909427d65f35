------------------------------ MODULE RssData ------------------------------
(***************************************************************************)
(* The in-memory feed of src/rss/Data.zig: a list of channels, each with   *)
(* one optional text per channel property and a list of items, each with   *)
(* one optional text per item property.  Parsing, the cache file and the   *)
(* merge all work on these values.                                         *)
(*                                                                         *)
(* A property is identified with its tag name (Property.tagName is         *)
(* injective), an absent value with Null.                                  *)
(***************************************************************************)
EXTENDS Integers, Sequences

CONSTANTS
  ChannelProps,  \* Channel.Property: the properties a channel can have
  ItemProps,     \* Item.Property: the properties an item can have
  Char,          \* the characters texts are made of
  Null           \* an optional that is not set

Text == Seq(Char)

ASSUME NullAssumption == Null \notin Text

Item == [ItemProps -> Text \cup {Null}]
Channel == [props : [ChannelProps -> Text \cup {Null}], items : Seq(Item)]

EmptyItem == [p \in ItemProps |-> Null]
EmptyChannel == [props |-> [p \in ChannelProps |-> Null], items |-> <<>>]
=============================================================================
