------------------------------- MODULE Pages --------------------------------
(***************************************************************************)
(* The lists that are read page by page:                                   *)
(*   posts      PostRepository.get_posts_list    newest first              *)
(*   comments   CommentRepository.get_comments   oldest first              *)
(*   bookmarks  BookmarkRepository.list_by_user  newest bookmark first     *)
(* A page is one SELECT ... ORDER BY created_at OFFSET LIMIT in a unit of  *)
(* work of its own.  Between two pages of a reader rows enter and leave    *)
(* the list.  created_at is now(), the start of the transaction that       *)
(* inserts the row, not the moment at which it becomes visible; equal      *)
(* values may come in any order, another one in each query.                *)
(***************************************************************************)
EXTENDS Naturals, Sequences, FiniteSets

CONSTANTS
    Rows,     \* rows of the list: posts, comments of a post, bookmarks of a user
    Limit,    \* the page size the reader asks for
    MaxTime   \* bound of the clock

ASSUME RowsAssumption == IsFiniteSet(Rows)
ASSUME LimitAssumption == Limit \in Nat \ {0}
ASSUME TimeAssumption == MaxTime \in Nat \ {0}

Lists == {"posts", "comments", "bookmarks"}

VARIABLES
    list,     \* which of the lists this behaviour is about
    now,      \* the clock behind now()
    state,    \* of a row: "none", "open" until its INSERT commits, "in" or
              \* "out" of what the WHERE selects
    created,  \* its created_at
    reader,   \* "idle", "reading", or "done" after a short page
    offset,   \* the OFFSET of the next page
    (* History of the read under way: *)
    answered,     \* rows on its pages so far
    repeated,     \* rows that were on a page and came again
    staying,      \* rows that have been in the list since it began
    leftAhead,    \* rows that a row ahead of them has left
    enteredAhead  \* rows that a row ahead of them has entered

rowVars == <<list, now, state, created>>
history == <<answered, repeated, staying, leftAhead, enteredAhead>>
listVars == <<rowVars, reader, offset, history>>

In == {x \in Rows : state[x] = "in"}
Committed == {x \in Rows : state[x] \in {"in", "out"}}

(* Plausible bug: no ORDER BY. *)
Unordered(x, y) == FALSE

(* ORDER BY created_at, ascending for comments and else descending. *)
Sooner(x, y) ==
    IF list = "comments" THEN created[x] < created[y] ELSE created[x] > created[y]

(* The rows that may come on a page after x. *)
Behind(x) == {y \in Committed \ {x} : ~Sooner(y, x)}

Tied == {x \in Committed : \E y \in Committed \ {x} : created[x] = created[y]}

AtMost(m, n) == IF m <= n THEN m ELSE n

(* What OFFSET o LIMIT Limit may answer: the rows that follow o others in  *)
(* some order that agrees with ORDER BY. *)
PagesAt(o) ==
    {page \in SUBSET In :
        \E skipped \in SUBSET (In \ page) :
            /\ Cardinality(skipped) = AtMost(o, Cardinality(In))
            /\ Cardinality(page) = AtMost(Limit, Cardinality(In) - Cardinality(skipped))
            /\ \A x \in skipped, y \in In \ skipped : ~Sooner(y, x)
            /\ \A x \in page, y \in In \ (skipped \cup page) : ~Sooner(y, x)}

ListInit ==
    /\ list \in Lists
    /\ now = 1
    /\ state = [x \in Rows |-> "none"]
    /\ created = [x \in Rows |-> 0]
    /\ reader = "idle"
    /\ offset = 0
    /\ answered = {}
    /\ repeated = {}
    /\ staying = {}
    /\ leftAhead = {}
    /\ enteredAhead = {}

Tick ==
    /\ now < MaxTime
    /\ now' = now + 1
    /\ UNCHANGED <<list, state, created, reader, offset, history>>

(* Plausible bug: a constant default, evaluated once. *)
CreatedAtImport == 0

(* server_default=func.now() *)
CreatedNow == now

(* create_post, register_comment, toggle_bookmark_to_post: the transaction *)
(* begins with its first statement. *)
Begin(x) ==
    /\ state[x] = "none"
    /\ state' = [state EXCEPT ![x] = "open"]
    /\ created' = [created EXCEPT ![x] = CreatedNow]
    /\ UNCHANGED <<list, now, reader, offset, history>>

Rollback(x) ==
    /\ state[x] = "open"
    /\ state' = [state EXCEPT ![x] = "none"]
    /\ created' = [created EXCEPT ![x] = 0]
    /\ UNCHANGED <<list, now, reader, offset, history>>

(* The INSERT commits, or an edit makes the filter select the post again.  *)
Enter(x) ==
    /\ state[x] = "open" \/ (state[x] = "out" /\ list = "posts")
    /\ state' = [state EXCEPT ![x] = "in"]
    /\ enteredAhead' = IF reader = "reading" THEN enteredAhead \cup Behind(x) ELSE enteredAhead
    /\ UNCHANGED <<list, now, created, reader, offset, answered, repeated, staying, leftAhead>>

(* A deleted comment stays in its list.  A post leaves when it is deleted  *)
(* or an edit takes it out of the filter, a bookmark when it is removed or *)
(* its post is deleted. *)
ListShrinks == list # "comments"

Leave(x) ==
    /\ state[x] = "in"
    /\ ListShrinks
    /\ state' = [state EXCEPT ![x] = "out"]
    /\ IF reader = "reading"
       THEN /\ leftAhead' = leftAhead \cup Behind(x)
            /\ staying' = staying \ {x}
       ELSE UNCHANGED <<leftAhead, staying>>
    /\ UNCHANGED <<list, now, created, reader, offset, answered, repeated, enteredAhead>>

(* A client asks for the first page, ... *)
StartRead ==
    /\ reader # "reading"
    /\ reader' = "reading"
    /\ offset' = 0
    /\ answered' = {}
    /\ repeated' = {}
    /\ staying' = In
    /\ leftAhead' = {}
    /\ enteredAhead' = {}
    /\ UNCHANGED rowVars

(* ... and for the next one until one is short. *)
ReadPage ==
    /\ reader = "reading"
    /\ \E page \in PagesAt(offset) :
          /\ answered' = answered \cup page
          /\ repeated' = repeated \cup (answered \cap page)
          /\ IF Cardinality(page) < Limit
             THEN reader' = "done" /\ UNCHANGED offset
             ELSE offset' = offset + Limit /\ UNCHANGED reader
    /\ UNCHANGED <<rowVars, staying, leftAhead, enteredAhead>>

ListNext ==
    \/ Tick
    \/ \E x \in Rows : Begin(x) \/ Rollback(x) \/ Enter(x) \/ Leave(x)
    \/ StartRead
    \/ ReadPage

ListSpec == ListInit /\ [][ListNext]_listVars
-----------------------------------------------------------------------------
ListTypeOK ==
    /\ list \in Lists
    /\ now \in 1 .. MaxTime
    /\ state \in [Rows -> {"none", "open", "in", "out"}]
    /\ created \in [Rows -> 0 .. MaxTime]
    /\ \A x \in Rows : created[x] = 0 <=> state[x] = "none"
    /\ reader \in {"idle", "reading", "done"}
    /\ offset \in Nat
    /\ answered \subseteq Committed
    /\ repeated \subseteq answered
    /\ staying \subseteq Committed

(* A row that is in the list from the first page to the last is on one of  *)
(* them, unless a row ahead of it left in between or it shares its         *)
(* created_at with another (get_posts_list, list_by_user, get_comments).   *)
SkippedOnlyIfOneLeft ==
    reader = "done" => staying \ answered \subseteq leftAhead \cup Tied

(* A row is answered twice only if a row has entered ahead of it, or it    *)
(* shares its created_at with another.  In lists with the newest first     *)
(* every new row does; in comments only one whose transaction was already  *)
(* under way when the other row's began. *)
RepeatedOnlyIfOneEntered == repeated \subseteq enteredAhead \cup Tied

(* The rows of the list that come before x. *)
Ahead(x) == {y \in In : Sooner(y, x)}

(* What decides on the next page: a row that is still to come has at least *)
(* offset rows ahead of it, one that has come fewer, unless rows ahead of  *)
(* it have left or entered. *)
OffsetDivides ==
    reader = "reading" =>
        /\ staying \subseteq In
        /\ \A x \in staying \ (answered \cup leftAhead \cup Tied) :
              Cardinality(Ahead(x)) >= offset
        /\ \A x \in answered \ (enteredAhead \cup Tied) :
              Cardinality(Ahead(x)) < offset

(* Reading by OFFSET answers every row that stays, and each once, as long  *)
(* as nothing moves ahead of it (get_posts_list, get_comments,             *)
(* list_by_user). *)
ListInv == ListTypeOK /\ OffsetDivides /\ SkippedOnlyIfOneLeft /\ RepeatedOnlyIfOneEntered
=============================================================================
