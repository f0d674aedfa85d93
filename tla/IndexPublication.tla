-------------------------- MODULE IndexPublication --------------------------
(***************************************************************************)
(* IndexPublication: what the index files and their reader promise to the  *)
(* server's clients, with no files in it.  Whole indexes are published one *)
(* after the other, by one atomic step each; the reader's view moves only  *)
(* to what is published at that moment.  So a view is never half an index, *)
(* never a mix of two and never one that had already been replaced when    *)
(* the reader turned to it.                                                *)
(***************************************************************************)
CONSTANTS Day, Build, NoBuild

VARIABLES published,  \* the index in service
          view        \* the index queries are answered from

Nothing == [build |-> NoBuild, reports |-> {}]
Index == [build : Build, reports : SUBSET Day]

Init == published = Nothing /\ view = Nothing

\* A whole index is put in the place of the one in service.
Publish == published' \in Index \ {view} /\ view' = view

\* There is no index any more.
Withdraw == published' = Nothing /\ view' = view

\* The reader turns to the index in service.
Follow == view' = published /\ published' = published

\* The reader stops, or finds nothing to read.
Blank == view' = Nothing /\ published' = published

Next == Publish \/ Withdraw \/ Follow \/ Blank

Spec == Init /\ [][Next]_<<published, view>>
=============================================================================
