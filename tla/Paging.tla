------------------------------- MODULE Paging -------------------------------
(***************************************************************************)
(* Pages of a sorted list and the cursors that join them                   *)
(* (governance-query/src/cursor.js), shared by the lists of knowledge,     *)
(* snapshots and test plans.  A list is read anew for every page; between  *)
(* two pages anything may change.                                          *)
(*                                                                         *)
(* An item is the key of an entry and the value it is sorted by.  A cursor *)
(* names the query (project, filter, sort field and direction, not the     *)
(* page limit) and the last item shown; << >> stands for no cursor.        *)
(***************************************************************************)
EXTENDS Naturals, Sequences, FiniteSets, SequencesExt

NoCursor == << >>

\* A field of a request that was not sent.
Absent == "absent"

DefaultPageLimit == 25
MaxPageLimit == 100

PageLimit(input) == IF input = 0 THEN DefaultPageLimit ELSE input

ValidPageLimit(input) == PageLimit(input) \in 1..MaxPageLimit

Item(key, value) == [key |-> key, value |-> value]

\* The members of a finite set as a list, in an order that is total on them.
Sorted(items, before) ==
  [n \in 1..Cardinality(items) |->
     CHOOSE i \in items : Cardinality({j \in items : <<j, i>> \in before}) = n - 1]

\* Wrong variant: the last item shown is found again by its key alone.
AnchoredByKey(items, cursor) == {i \in DOMAIN items : items[i].key = cursor[1].last.key}

\* Where the last item shown stands now, if it still stands where it was sorted.
Anchored(items, cursor) == {i \in DOMAIN items : items[i] = cursor[1].last}

Mismatched(cursor, query) == cursor # NoCursor /\ cursor[1].query # query

Stale(items, cursor) == cursor # NoCursor /\ Anchored(items, cursor) = {}

\* The page after the cursor and the cursor of the page after that.
Paginate(items, query, limit, cursor) ==
  LET start == IF cursor = NoCursor THEN 0 ELSE CHOOSE i \in Anchored(items, cursor) : TRUE
      end == IF start + limit < Len(items) THEN start + limit ELSE Len(items)
  IN  [items |-> SubSeq(items, start + 1, end),
       nextCursor |-> IF end < Len(items) THEN <<[query |-> query, last |-> items[end]]>>
                      ELSE NoCursor]

-----------------------------------------------------------------------------
(* A client that follows a list from page to page.                         *)

\* stage is where it stands, list what it asks for, seen the keys shown to it
\* and steady the keys that were listed and have not changed since it began.
NoWalk == [stage |-> "none", list |-> "none", cursor |-> NoCursor, seen |-> << >>, steady |-> {}]

\* The walk after one answer.
Walked(walk, items, query, limit, cursor) ==
  CASE ~ ValidPageLimit(limit) -> [walk EXCEPT !.stage = "refused"]
    [] ValidPageLimit(limit) /\ Mismatched(cursor, query) -> [walk EXCEPT !.stage = "refused"]
    [] ValidPageLimit(limit) /\ ~ Mismatched(cursor, query) /\ Stale(items, cursor) ->
         [walk EXCEPT !.stage = "stale"]
    [] OTHER ->
         LET page == Paginate(items, query, PageLimit(limit), cursor) IN
         [walk EXCEPT !.stage = IF page.nextCursor = NoCursor THEN "ended" ELSE "paging",
                      !.cursor = page.nextCursor,
                      !.seen = @ \o [i \in DOMAIN page.items |-> page.items[i].key]]

TimesSeen(walk, key) == Cardinality({i \in DOMAIN walk.seen : walk.seen[i] = key})

\* What stayed as it was is shown once by a walk that ends and never twice by
\* one under way.
ShowsSteadyOnce(walk) ==
  \A key \in walk.steady :
    /\ TimesSeen(walk, key) <= 1
    /\ walk.stage = "ended" => TimesSeen(walk, key) = 1
=============================================================================
