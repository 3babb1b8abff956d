----------------------------- MODULE MCQueries ------------------------------
(* Three memories, for a session that is cut and a list that is cut; a text *)
(* found by its words and a text found by its vector.  A query runs against *)
(* the writes to the tables it reads, since it cannot tell others.          *)
EXTENDS Queries

CONSTANTS Word, Near, S1

WordScores == [text \in Texts |-> IF text = Word THEN 1 ELSE 0]
Cosines == [text \in Texts |-> IF text = Near THEN 2 ELSE 1]

Tells(kinds, texts, in, here, bound) ==
  [kinds |-> kinds, texts |-> texts, sessions |-> in, here |-> here, bound |-> bound]

VisibleWrites ==
  [query \in Query |->
     CASE query = "search"   ->
            Tells({"add", "update", "supersede", "forget", "embed"}, Texts, {S1}, {TRUE}, 5)
       [] query = "context"  ->
            Tells({"add", "supersede", "forget", "summary"}, {Word}, {S1}, BOOLEAN, 5)
       [] query = "enrich"   ->
            Tells({"add", "update", "supersede", "forget"}, Texts, {}, {}, 4)
       [] query = "history"  ->
            Tells({"add", "update", "supersede", "forget", "observe"}, Texts, {S1}, BOOLEAN, 4)
       [] query = "timeline" ->
            Tells({"add", "forget", "observe"}, {Word}, {S1}, BOOLEAN, 5)
       [] query = "export"   ->
            Tells({"add", "forget", "observe"}, {Word}, SessionIds, BOOLEAN, 4)
       [] query = "verify"   ->
            Tells({"add", "update", "supersede", "forget"}, Texts, {}, {}, 5)]
=============================================================================
