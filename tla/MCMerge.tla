------------------------------ MODULE MCMerge ------------------------------
(* Instances of Merge for TLC: feeds of at most two channels and two items *)
(* each, with every way a date or a guid can be missing; and channels of   *)
(* one item again and again, as many as fit the reserved indices and one   *)
(* more: five times five pairs are more than 5 + 2 + InitCapacity.         *)
EXTENDS Merge

Days == {1, 2}

ItemLists(Items) == UNION {[1..n -> Items] : n \in 0..2}

(* Every item list, in one channel.                                        *)
OneChannel ==
  {<<[title |-> "t", last_build_date |-> 1, items |-> s]>> :
     s \in ItemLists([guid : {"g", "h", Null}, pub_date : Days \cup {Null, Bad}])}

(* One or two channels of every title and build date, with a few items.    *)
FewItems == {<<>>, <<[guid |-> "g", pub_date |-> 1]>>,
             <<[guid |-> "h", pub_date |-> 2], [guid |-> "g", pub_date |-> 1]>>,
             <<[guid |-> Null, pub_date |-> 1]>>}
ManyChannels ==
  UNION {[1..n -> [title : Title \cup {Null}, last_build_date : {1, 2, Bad, Null},
                   items : FewItems]] : n \in 0..1} \cup
  {<<c, d>> : c \in [title : Title \cup {Null}, last_build_date : {1, 2}, items : FewItems],
              d \in [title : Title \cup {Null}, last_build_date : {1, 2},
                     items : {list \in FewItems : Len(list) # 1}]}

(* The same item four or five times.                                       *)
Again(n) == [i \in 1..n |-> [guid |-> "again", pub_date |-> 1]]
Repeated == {<<[title |-> "t", last_build_date |-> 1, items |-> Again(n)]>> : n \in {4, 5}}

SmallFeeds == OneChannel \cup ManyChannels \cup Repeated
=============================================================================
