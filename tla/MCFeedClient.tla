---------------------------- MODULE MCFeedClient ----------------------------
(* Instances of FeedClient for TLC: texts of at most two characters.       *)
EXTENDS FeedClient

Word == {<<"a">>, <<" ">>}
Words == {<<"a">>, <<" ", "b">>}
=============================================================================
