---------------------------- MODULE FeedBuilder ----------------------------
(***************************************************************************)
(* What parsing promises about the feed it leaves in Parse.data, whatever  *)
(* the document: channels and items are only ever added at the end, a      *)
(* property is set at most once, in the channel or item added last, and    *)
(* nothing changes once the document has been accepted or rejected.        *)
(***************************************************************************)
EXTENDS RssData

VARIABLES channels, verdict

vars == <<channels, verdict>>

Init == channels = <<>> /\ verdict = "open"

AddChannel == channels' = Append(channels, EmptyChannel)

AddItem ==
  /\ channels # <<>>
  /\ channels' = [channels EXCEPT ![Len(channels)].items = Append(@, EmptyItem)]

SetChannelProperty(p) ==
  LET n == Len(channels)
      v == channels'[n].props[p]
  IN /\ n > 0
     /\ channels[n].props[p] = Null
     /\ v \in Text
     /\ channels' = [channels EXCEPT ![n].props[p] = v]

SetItemProperty(p) ==
  LET n == Len(channels)
      m == Len(channels[n].items)
      v == channels'[n].items[m][p]
  IN /\ n > 0
     /\ m > 0
     /\ channels[n].items[m][p] = Null
     /\ v \in Text
     /\ channels' = [channels EXCEPT ![n].items[m][p] = v]

Build ==
  /\ verdict = "open"
  /\ verdict' = "open"
  /\ \/ AddChannel
     \/ AddItem
     \/ \E p \in ChannelProps : SetChannelProperty(p)
     \/ \E p \in ItemProps : SetItemProperty(p)

Decide ==
  /\ verdict = "open"
  /\ verdict' \in {"accepted", "rejected"}
  /\ UNCHANGED channels

Next == Build \/ Decide

Spec == Init /\ [][Next]_vars
=============================================================================
