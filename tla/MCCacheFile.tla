---------------------------- MODULE MCCacheFile ----------------------------
(* Instances of CacheFile for TLC: feeds below, at and above limits of two *)
(* channels, two items each and values of two characters.                  *)
EXTENDS CacheFile

CONSTANTS a, b

Chars == {a, b}

ChannelsOf(Titles, Links, Lists) ==
  {[props |-> ("title" :> t @@ "link" :> l), items |-> s] :
     t \in Titles, l \in Links, s \in Lists}

ItemsOf(Titles, Guids) ==
  {"title" :> t @@ "guid" :> g : t \in Titles, g \in Guids}

(* No item, one or two of them with every property absent, empty or set,   *)
(* and more items or longer values than read takes.                        *)
ItemLists ==
  {<<>>} \cup {<<i>> : i \in ItemsOf({Null, <<>>, <<a>>}, {Null, <<b>>, <<b, a, b>>})}
         \cup {<<i, j>> : i \in ItemsOf({<<a>>}, {<<b>>}), j \in ItemsOf({Null, <<b>>}, {Null, <<a>>})}
         \cup {<<i, i, i>> : i \in ItemsOf({Null}, {<<b>>})}

(* One channel, two of them, or more than read takes.                      *)
AllFeeds ==
  {<<>>} \cup {<<c>> : c \in ChannelsOf({Null, <<>>, <<a>>}, {Null, <<b, a>>}, ItemLists)}
         \cup {<<c>> : c \in ChannelsOf({<<a, b, b>>}, {Null}, {<<>>})}
         \cup {<<c, d>> : c \in ChannelsOf({<<a>>}, {<<b>>}, ItemLists),
                          d \in ChannelsOf({Null, <<b>>}, {Null}, {<<>>})}
         \cup {<<c, c, c>> : c \in ChannelsOf({<<a>>}, {Null}, {<<>>})}
=============================================================================
