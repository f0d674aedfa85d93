---------------------------- MODULE MCTranscript ----------------------------
(***************************************************************************)
(* The instances of Transcript that TLC checks: every source of up to      *)
(* MaxItems items, with two names, whose first and third item end a line;  *)
(* and documents that begin with a marker, and in which another character  *)
(* ends a line behind the second item.                                     *)
(***************************************************************************)
EXTENDS Transcript

CONSTANTS a, b, MaxItems

Shapes(tag, texts) == {[tag |-> tag, runs |-> t] : t \in texts}
Opening == {<<n, Said>> : n \in Bold}

Items3 ==
  Shapes("p", {<<>>, <<Said>>, <<a>>, <<Said, b, Said, a>>} \cup Opening)
    \cup Shapes("h6", {<<Said>>})
    \cup Shapes("line", {<<Said>>, <<a, Said>>, <<Said, b>>})

Items2 ==
  Shapes("p", {<<>>, <<Said>>, <<a, Said>>, <<Said, b>>, <<Blank, Said>>})
    \cup Shapes("P", {<<b, Mark>>})
    \cup Shapes("line", {<<Mark>>, <<a, Said>>})
    \cup {[tag |-> "mp", runs |-> <<>>, name |-> n] : n \in Name \cup {None}}

Document(items, ends) == [era |-> "sprs2", items |-> items, lines |-> {1, 3}, others |-> ends]

MCSources ==
  {[era |-> "sprs3", items |-> s] : s \in BoundedSeq(Items3, MaxItems)}
    \cup {Document(s, {}) : s \in BoundedSeq(Items2, MaxItems)}

MCOtherEnds ==
  {Document(s, {2}) :
     s \in {items \in BoundedSeq(Items2, MaxItems) : items # <<>> /\ items[1].tag = "mp"}}
=============================================================================
