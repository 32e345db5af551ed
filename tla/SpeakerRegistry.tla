--------------------------- MODULE SpeakerRegistry ---------------------------
(***************************************************************************)
(* What the config entries promise: a book of speakers under unique ids.   *)
(* An id has one address at a time.  A speaker first entered under another *)
(* id may later be identified by its serial, unless that is in the book    *)
(* already; a serial, once in the book, only leaves it with its speaker.   *)
(***************************************************************************)
EXTENDS Functions

CONSTANTS
  Ids,       \* what a speaker may be entered under
  SerialIds, \* those of them that are serials
  Hosts      \* addresses

VARIABLE book   \* from the ids in use to addresses

Init == book \in UNION {[S -> Hosts] : S \in SUBSET (Ids \ SerialIds)}

\* A speaker is entered, or an entered one has a new address.
Enter(i, h) ==
  book' = [j \in DOMAIN book \cup {i} |-> IF j = i THEN h ELSE book[j]]

Identify(i, s) ==
  /\ i \in DOMAIN book \ SerialIds
  /\ s \in SerialIds \ DOMAIN book
  /\ book' = [j \in (DOMAIN book \ {i}) \cup {s} |-> book[IF j = s THEN i ELSE j]]

Forget(i) == book' = Restrict(book, DOMAIN book \ {i})

Next ==
  \/ \E i \in Ids, h \in Hosts : Enter(i, h)
  \/ \E i \in Ids, s \in SerialIds : Identify(i, s)
  \/ \E i \in Ids : Forget(i)

Spec == Init /\ [][Next]_book
=============================================================================
