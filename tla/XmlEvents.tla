----------------------------- MODULE XmlEvents ------------------------------
(***************************************************************************)
(* What expat promises of the order of the handler calls for elements and  *)
(* namespaces, whatever happens inside (lib/expat/lib/expat.h): elements   *)
(* nest, an end call has the name of its start call, the namespace         *)
(* declarations of an element are reported before its start and withdrawn  *)
(* after its end, the last one first, and a document has one root element. *)
(***************************************************************************)
EXTENDS Sequences, SequencesExt

CONSTANTS Names, NsPrefixes

VARIABLES
  document,   \* whether a document is parsed, rather than an external entity
  open,       \* the elements started and not ended, with the prefixes each declares
  declared,   \* prefixes reported for an element that is not started yet
  withdrawn,  \* prefixes still to be withdrawn of the element just ended
  over,       \* whether the root element of a document has ended
  called      \* the handler call of the last step, if it made one

eventVars == <<document, open, declared, withdrawn, over, called>>

EventsInit ==
  /\ document \in BOOLEAN
  /\ open = <<>> /\ declared = <<>> /\ withdrawn = <<>>
  /\ over = FALSE
  /\ called = <<"none">>

Declare(prefix) ==
  /\ ~over /\ withdrawn = <<>>
  /\ declared' = <<prefix>> \o declared
  /\ called' = <<"declare", prefix>>
  /\ UNCHANGED <<document, open, withdrawn, over>>

Start(name) ==
  /\ ~over /\ withdrawn = <<>>
  /\ open' = Append(open, [name |-> name, prefixes |-> declared])
  /\ declared' = <<>>
  /\ called' = <<"start", name>>
  /\ UNCHANGED <<document, withdrawn, over>>

End ==
  /\ open # <<>> /\ declared = <<>> /\ withdrawn = <<>>
  /\ open' = Front(open)
  /\ withdrawn' = Last(open).prefixes
  /\ over' = (document /\ Len(open) = 1)
  /\ called' = <<"end", Last(open).name>>
  /\ UNCHANGED <<document, declared>>

Withdraw ==
  /\ withdrawn # <<>>
  /\ withdrawn' = Tail(withdrawn)
  /\ called' = <<"withdraw", Head(withdrawn)>>
  /\ UNCHANGED <<document, open, declared, over>>

(* Text and the marks of CDATA sections stand in the root element; comments*)
(* and instructions may also follow it.                                    *)
Other(kind) ==
  /\ declared = <<>> /\ withdrawn = <<>>
  /\ over => kind = "misc"
  /\ called' = <<kind>>
  /\ UNCHANGED <<document, open, declared, withdrawn, over>>

(* A start tag is given up for an error: what it declared is withdrawn if  *)
(* it is an empty-element tag.                                             *)
GiveUp ==
  /\ declared # <<>>
  /\ declared' = <<>>
  /\ called' \in {<<"none">>, <<"withdraw">> \o declared}
  /\ UNCHANGED <<document, open, withdrawn, over>>

NoCall == called' = <<"none">> /\ UNCHANGED <<document, open, declared, withdrawn, over>>

EventsNext ==
  \/ \E prefix \in NsPrefixes : Declare(prefix)
  \/ \E name \in Names : Start(name)
  \/ \E kind \in {"data", "openCdata", "closeCdata", "entity", "misc"} : Other(kind)
  \/ End \/ Withdraw \/ GiveUp \/ NoCall
EventsSpec == EventsInit /\ [][EventsNext]_eventVars
=============================================================================
