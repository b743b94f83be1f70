------------------------------- MODULE PageWalk -------------------------------
(***************************************************************************)
(* findPage over a collection that changes: a client walks it by cursors,  *)
(* forward and back, or jumps to pages by number, in hops of one page from *)
(* the first page or from the nearest bookmark.                            *)
(*                                                                         *)
(* A document is its _id and one sort value, which may be missing or null. *)
(* A cursor is JSON, in which a missing value becomes null.  The server's  *)
(* comparisons are external: in a sort missing and null are equal, in an   *)
(* expression missing is less than null; {f: null} matches both.           *)
(***************************************************************************)
EXTENDS Integers, Sequences, FiniteSets, SequencesExt

CONSTANTS Ids,       \* the _id values, integers
          Numbers,   \* the sort values that are numbers, above Null
          Sorts,     \* the sorts: the directions of the sort field and of _id
          Limits,    \* the page sizes
          MaxPage,   \* bound: the highest page asked for
          MaxChanges \* bound: writes of others and of this program

Missing == 0
Null == 1
Absent == -1         \* no such document

ASSUME PageAssumption == /\ Ids \subseteq Int /\ IsFiniteSet(Ids) /\ Numbers \subseteq Nat \ {Missing, Null}
                         /\ Sorts \subseteq [f : {1, -1}, id : {1, -1}]
                         /\ Limits \subseteq Nat \ {0} /\ MaxPage \in Nat /\ MaxChanges \in Nat

VARIABLES
  docs,      \* the sort value of each document, or Absent
  sort,      \* the directions of the sort field and of _id: 1 or -1
  limit,     \* the page size
  walk,      \* the page the client is on, and its next and previous ones
  sweep,     \* history: what was read in one direction since it last turned
  jump,      \* a findPage by number under way, and whether it warms a bookmark
  bookmarks, \* page -> the cached end cursor of that page
  changes,   \* the writes so far
  steady     \* history: the documents that nobody wrote since the sweep began

pageVars == <<docs, sort, limit, walk, sweep, jump, bookmarks, changes, steady>>

-----------------------------------------------------------------------------
(* Cursors and queries.                                                    *)

CursorValue(v) == IF v = Missing THEN Null ELSE v
Cursor(i) == <<CursorValue(docs[i]), i>>                   \* getSortValues, encodeCursor
Compare(a, b, d) == IF d = 1 THEN a < b ELSE a > b
Before(k, l, s) == \/ Compare(k[1], l[1], s.f)
                   \/ k[1] = l[1] /\ Compare(k[2], l[2], s.id)
Reversed(s) == [f |-> -s.f, id |-> -s.id]

\* Mutated form of Operand: the field is compared as it is.
OperandPlain(v, c) == v

\* For a null cursor the field is read through $ifNull.
Operand(v, c) == IF c = Null THEN CursorValue(v) ELSE v

\* The documents strictly after cursor c in order s.
CursorFilter(c, s) == {i \in Ids : docs[i] # Absent /\
  \/ Compare(c[1], Operand(docs[i], c[1]), s.f)
  \/ CursorValue(docs[i]) = c[1] /\ Compare(c[2], i, s.id)}

Present == {i \in Ids : docs[i] # Absent}
Matching(c, s) == IF c = <<>> THEN Present ELSE CursorFilter(c, s)

\* Some documents in an order: the n-th has n - 1 of them before it.
Rank(i, S, s) == Cardinality({j \in S : Before(Cursor(j), Cursor(i), s)})
Rows(S, s) == [n \in 1..Cardinality(S) |-> CHOOSE i \in S : Rank(i, S, s) = n - 1]

\* One read of limit + 1 rows, of which the last one only says there are more.
PageAt(c, s, skip) ==
  LET rows == Rows(Matching(c, s), s)
  IN  [items |-> SubSeq(rows, skip + 1, IF Len(rows) > skip + limit THEN skip + limit ELSE Len(rows)),
       more  |-> Len(rows) > skip + limit]
StartCursor(items) == IF items = <<>> THEN <<>> ELSE Cursor(items[1])
EndCursor(items) == IF items = <<>> THEN <<>> ELSE Cursor(items[Len(items)])

-----------------------------------------------------------------------------
Closed == [start |-> <<>>, end |-> <<>>, next |-> FALSE, prev |-> FALSE]
NoSweep == [dir |-> "none", from |-> <<>>, seen |-> <<>>, done |-> FALSE]
NoJump == [at |-> "idle", page |-> 0, current |-> 0, items |-> <<>>, end |-> <<>>,
           warm |-> FALSE, since |-> 0]

CursorKeys == (Nat \ {Missing}) \X Int
Cursors == {<<>>} \cup CursorKeys                         \* <<>>: no cursor

PageTypeOK ==
  /\ docs \in [Ids -> {Absent, Missing, Null} \cup Numbers]
  /\ sort \in Sorts /\ limit \in Limits /\ changes \in 0..MaxChanges /\ steady \subseteq Ids
  /\ walk \in [start : Cursors, end : Cursors, next : BOOLEAN, prev : BOOLEAN]
  /\ sweep \in [dir : {"none", "after", "before"}, from : Cursors, seen : Seq(Ids), done : BOOLEAN]
  /\ jump \in [at : {"idle", "hop", "done"}, page : 0..MaxPage, current : 0..MaxPage,
                items : Seq(Ids), end : Cursors, warm : BOOLEAN, since : 0..MaxChanges]
  /\ DOMAIN bookmarks \subseteq 1..MaxPage
  /\ \A b \in DOMAIN bookmarks : bookmarks[b] \in [cursor : CursorKeys, since : 0..MaxChanges]

PageInit == /\ docs \in [Ids -> {Absent, Missing, Null} \cup Numbers]
            /\ sort \in Sorts /\ limit \in Limits
            /\ walk = Closed /\ sweep = NoSweep /\ jump = NoJump
            /\ bookmarks = <<>> /\ changes = 0 /\ steady = Ids

-----------------------------------------------------------------------------
(* Walking by cursor.                                                      *)

\* A page in the direction of the sweep adds to it; the other way begins one.
Swept(dir, cursor, got) ==
  /\ sweep' = IF sweep.dir = dir
              THEN [sweep EXCEPT !.seen = @ \o got.items, !.done = ~got.more]
              ELSE [dir |-> dir, from |-> cursor, seen |-> got.items, done |-> ~got.more]
  /\ steady' = IF sweep.dir = dir THEN steady ELSE Ids

\* The first page: a sweep from the beginning.
Open ==
  /\ sweep.dir = "none" /\ jump.at = "idle"
  /\ LET got == PageAt(<<>>, sort, 0) IN
     /\ walk' = [start |-> StartCursor(got.items), end |-> EndCursor(got.items),
                 next |-> got.more, prev |-> FALSE]
     /\ Swept("after", <<>>, got)
  /\ UNCHANGED <<docs, sort, limit, jump, bookmarks, changes>>

GoAfter ==
  /\ walk.next /\ walk.end # <<>>
  /\ LET got == PageAt(walk.end, sort, 0) IN
     /\ walk' = [start |-> StartCursor(got.items), end |-> EndCursor(got.items),
                 next |-> got.more, prev |-> TRUE]
     /\ Swept("after", walk.end, got)
  /\ UNCHANGED <<docs, sort, limit, jump, bookmarks, changes>>

\* The rows are read in the reversed order and turned round.
GoBefore ==
  /\ walk.prev /\ walk.start # <<>>
  /\ LET got == PageAt(walk.start, Reversed(sort), 0)
         items == Reverse(got.items) IN
     /\ walk' = [start |-> StartCursor(items), end |-> EndCursor(items),
                 next |-> TRUE, prev |-> got.more]
     /\ Swept("before", walk.start, got)
  /\ UNCHANGED <<docs, sort, limit, jump, bookmarks, changes>>

-----------------------------------------------------------------------------
(* Pages by number.                                                        *)

\* The nearest bookmark below the page, for pages above the second.
Nearest(page) ==
  LET below == {b \in DOMAIN bookmarks : page > 2 /\ b < page}
  IN  IF below = {} THEN 0 ELSE CHOOSE b \in below : \A c \in below : c <= b

\* The page that is read from the end cursor of page b.
PageRead(b) == b + 1

JumpCall(page, warm) ==
  /\ jump.at # "hop" /\ sweep.dir = "none"
  /\ LET b == Nearest(page)
         got == PageAt(IF b = 0 THEN <<>> ELSE bookmarks[b].cursor, sort, 0) IN
     jump' = [at |-> IF PageRead(b) = page THEN "done" ELSE "hop", page |-> page,
              current |-> PageRead(b), items |-> got.items, end |-> EndCursor(got.items),
              warm |-> warm, since |-> IF b = 0 THEN changes ELSE bookmarks[b].since]
  /\ UNCHANGED <<docs, sort, limit, walk, sweep, bookmarks, changes, steady>>

\* The next page is read after the last row of this one; past the last page
\* the call answers with what it has.
Hop ==
  /\ jump.at = "hop"
  /\ LET got == PageAt(jump.end, sort, 0) IN
     jump' = IF jump.items = <<>> THEN [jump EXCEPT !.at = "done"]
             ELSE [jump EXCEPT !.items = got.items, !.end = EndCursor(got.items),
                               !.current = @ + 1,
                               !.at = IF jump.current + 1 = jump.page THEN "done" ELSE "hop"]
  /\ UNCHANGED <<docs, sort, limit, walk, sweep, bookmarks, changes, steady>>

\* prewarmBookmarks() stores what findPage answered, unless the page is empty.
Warmed ==
  /\ jump.at = "done" /\ jump.warm /\ jump' = [jump EXCEPT !.warm = FALSE]
  /\ bookmarks' = IF jump.items = <<>> THEN bookmarks
                  ELSE [b \in DOMAIN bookmarks \cup {jump.page} |->
                          IF b = jump.page THEN [cursor |-> jump.end, since |-> jump.since]
                          ELSE bookmarks[b]]
  /\ UNCHANGED <<docs, sort, limit, walk, sweep, changes, steady>>

-----------------------------------------------------------------------------
\* Another program writes a document; or this one, which clears the bookmarks
\* and revokes the fill under way.
Change(i, v, own) ==
  /\ changes < MaxChanges /\ v # docs[i] /\ (sweep.dir # "none" \/ jump.at # "idle")
  /\ docs' = [docs EXCEPT ![i] = v] /\ changes' = changes + 1
  /\ steady' = steady \ {i}
  /\ IF own THEN bookmarks' = <<>> /\ jump' = [jump EXCEPT !.warm = FALSE]
     ELSE UNCHANGED <<bookmarks, jump>>
  /\ UNCHANGED <<sort, limit, walk, sweep>>

PageNext == \/ Open \/ GoAfter \/ GoBefore \/ Hop \/ Warmed
            \/ \E p \in 1..MaxPage, w \in BOOLEAN : JumpCall(p, w)
            \/ \E i \in Ids, v \in {Absent, Missing, Null} \cup Numbers, own \in BOOLEAN :
                 Change(i, v, own)

PageSpec == PageInit /\ [][PageNext]_pageVars

-----------------------------------------------------------------------------
(* Properties.                                                             *)

Order == IF sweep.dir = "before" THEN Reversed(sort) ELSE sort
InSweep(k) == /\ sweep.from = <<>> \/ Before(sweep.from, k, Order)
              /\ sweep.done \/ ~Before(IF sweep.dir = "after" THEN walk.end ELSE walk.start, k, Order)

(* A walk by cursors, whichever way it goes and whatever is written         *)
(* meanwhile, returns a document that was not written since the sweep began *)
(* exactly once if it lies between where the sweep began and where it is,   *)
(* and not at all otherwise: none is skipped or repeated for a missing or   *)
(* null sort value, or for a tie.                                           *)
EachOnce == \A i \in steady \cap Present :
  Cardinality({n \in DOMAIN sweep.seen : sweep.seen[n] = i}) =
    IF sweep.dir # "none" /\ InSweep(Cursor(i)) THEN 1 ELSE 0

(* A page reached by hops, from the first page or from any bookmark, is the *)
(* page that an offset would give, as long as nothing was written since the *)
(* oldest read it rests on.                                                 *)
JumpIsThePage ==
  jump.at = "done" /\ jump.since = changes =>
    /\ jump.items = PageAt(<<>>, sort, (jump.page - 1) * limit).items
    /\ jump.items # <<>> => jump.current = jump.page

(* Pages are right whether they are reached one by one or by a jump.        *)
PagesExact == PageTypeOK /\ EachOnce /\ JumpIsThePage
=============================================================================
