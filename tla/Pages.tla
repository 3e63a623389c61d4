------------------------------- MODULE Pages -------------------------------
(***************************************************************************)
(* The list endpoints of the manager (pagination.rs and its users): a      *)
(* client walks a list page by page with the cursor of the page before,    *)
(* asking for any limit, while rows are added, removed and renamed.  A     *)
(* list is kept in one of four orders: tenants by creation, oldest first;  *)
(* audit events, operations and invitations newest first; members and      *)
(* organizations by id; repositories by lower-case name.  A row's sort key *)
(* is <<created_at or name, id>>; several rows may share the first part.   *)
(***************************************************************************)
EXTENDS Integers, Sequences, FiniteSets
LOCAL INSTANCE SequencesExt

CONSTANTS Ids,            \* ids a row may have, numbers
          Keys,           \* creation times or names, numbers
          DEFAULT_LIMIT, MAX_LIMIT,
          Limits,         \* limits a client asks for; -1 when it asks for none
          MaxEdits        \* bound: changes of the list

VARIABLES order,    \* how this list is ordered
          table,    \* the rows that match the list's filter: id -> key, 0 if none
          cursor,   \* the next request's cursor
          page,     \* "first", "next" or "end"
          listed,   \* how often each row was returned
          steady,   \* rows in the list, with one key, since the walk began
          edits

vars == <<order, table, cursor, page, listed, steady, edits>>

Orders == {"oldest first", "newest first", "by id", "by name"}
Rows == {i \in Ids : table[i] # 0}

Init == /\ order \in Orders
        /\ table \in [Ids -> Keys \cup {0}]
        /\ cursor = [key |-> 0, id |-> 0]
        /\ page = "first"
        /\ listed = [i \in Ids |-> 0]
        /\ steady = Rows
        /\ edits = 0

----------------------------------------------------------------------------
\* Mutant: any limit the client asks for.
AsAsked(limit) == IF limit = -1 THEN DEFAULT_LIMIT ELSE limit

PageLimit(limit) ==
    IF limit = -1 THEN DEFAULT_LIMIT
    ELSE IF limit < 1 THEN 1 ELSE IF limit > MAX_LIMIT THEN MAX_LIMIT ELSE limit

\* cursor_for; the lists by id put the epoch in place of a time.
cursor_for(i) == [key |-> IF order = "by id" THEN 0 ELSE table[i], id |-> i]

\* Mutant: a row that equals the cursor is taken as well.
NotBefore(k, i, c) == k > c.key \/ (k = c.key /\ i >= c.id)

\* Row comparison (key, id) > (c.key, c.id).
Lexicographic(k, i, c) == k > c.key \/ (k = c.key /\ i > c.id)

\* Mutant: rows are compared by key alone.
AfterKey(i, c) == CASE order = "newest first" -> table[i] < c.key
                    [] order = "by id" -> i > c.id
                    [] OTHER -> table[i] > c.key

\* The rows after the cursor in the list's order.
After(i, c) == CASE order = "newest first" -> Lexicographic(c.key, c.id, [key |-> table[i], id |-> i])
                 [] order = "by id" -> i > c.id
                 [] OTHER -> Lexicographic(table[i], i, c)

Matching == IF page = "first" THEN Rows ELSE {i \in Rows : After(i, cursor)}

\* ORDER BY, on the same columns.
Sorted(S) == SetToSortSeq(S, LAMBDA i, j :
                CASE order = "newest first" -> Lexicographic(table[i], i, cursor_for(j))
                  [] order = "by id" -> i < j
                  [] OTHER -> Lexicographic(table[j], j, cursor_for(i)))

\* LIMIT limit + 1.
Fetch(limit) == LET s == Sorted(Matching) IN
                SubSeq(s, 1, IF Len(s) < limit + 1 THEN Len(s) ELSE limit + 1)

Truncated(rows, limit) == SubSeq(rows, 1, IF Len(rows) < limit THEN Len(rows) ELSE limit)

\* Page::from_fetch: the extra row is dropped, and the cursor is the last one kept.
from_fetch(rows, limit) ==
    LET items == Truncated(rows, limit) IN
    [items |-> items,
     more |-> Len(rows) > limit /\ items # <<>>,
     last |-> IF items = <<>> THEN 0 ELSE items[Len(items)]]

GetPage(asked) ==
    /\ page # "end"
    /\ LET limit == PageLimit(asked)
           p == from_fetch(Fetch(limit), limit)
           S == {p.items[n] : n \in 1..Len(p.items)} IN
       /\ listed' = [i \in Ids |-> IF i \in S THEN listed[i] + 1 ELSE listed[i]]
       /\ page' = IF p.more THEN "next" ELSE "end"
       /\ cursor' = IF p.more THEN cursor_for(p.last) ELSE cursor
    /\ UNCHANGED <<order, table, steady, edits>>

\* A row appears: created_at is the time its transaction began, so it may lie before
\* rows already listed.
AddRow(i, k) == /\ page # "end" /\ edits < MaxEdits /\ edits' = edits + 1
                /\ table[i] = 0 /\ listed[i] = 0
                /\ table' = [table EXCEPT ![i] = k]
                /\ UNCHANGED <<order, cursor, page, listed, steady>>

\* A row is deleted or leaves the filter; the cursor may name it.
RemoveRow(i) == /\ page # "end" /\ edits < MaxEdits /\ edits' = edits + 1
                /\ table[i] # 0
                /\ table' = [table EXCEPT ![i] = 0]
                /\ steady' = steady \ {i}
                /\ UNCHANGED <<order, cursor, page, listed>>

\* A repository is renamed; a creation time never changes.
RenameRow(i, k) == /\ page # "end" /\ edits < MaxEdits /\ edits' = edits + 1
                   /\ order = "by name" /\ table[i] \notin {0, k}
                   /\ table' = [table EXCEPT ![i] = k]
                   /\ steady' = steady \ {i}
                   /\ UNCHANGED <<order, cursor, page, listed>>

Next == \/ \E l \in Limits : GetPage(l)
        \/ \E i \in Ids : RemoveRow(i) \/ \E k \in Keys : AddRow(i, k) \/ RenameRow(i, k)

Spec == Init /\ [][Next]_vars

----------------------------------------------------------------------------
TypeOK == /\ order \in Orders
          /\ table \in [Ids -> Keys \cup {0}]
          /\ cursor \in [key : Keys \cup {0}, id : Ids \cup {0}]
          /\ page \in {"first", "next", "end"}
          /\ listed \in [Ids -> 0..Cardinality(Ids)]
          /\ steady \subseteq Ids
          /\ edits \in 0..MaxEdits

(* A finished walk has listed every row that was in the list throughout,   *)
(* whatever rows around the cursor came and went and whatever limits were  *)
(* asked for: list_invitations promises to reach every one.                *)
NothingSkipped == page = "end" => \A i \in steady : listed[i] > 0

(* No row is listed twice, unless it was renamed past the cursor.          *)
NothingRepeated == \A i \in Ids : order # "by name" \/ i \in steady => listed[i] <= 1
=============================================================================
