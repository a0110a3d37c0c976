---------------------------- MODULE PaymentListing ----------------------------
(***************************************************************************)
(* Listing payments page by page (PaymentsService.findAll) while payments  *)
(* are created and change status.  The first page is one by offset; its    *)
(* answer holds no cursor, and the client forms one from its last row, as  *)
(* encodeCursor does.                                                      *)
(***************************************************************************)
EXTENDS Integers, FiniteSets

CONSTANTS
    Ids,        \* payment ids: numbers, in the order the database compares them
    Amounts,
    Milli,      \* clock ticks in a millisecond: the database keeps microseconds
    MaxTime,    \* bound: the clock
    PageSize,   \* limit
    Queries,    \* the listings asked for
    Ahead       \* what the process's clock is ahead of UTC

PaymentSortBy == {"created_at", "amount", "status"}
SortOrder == {"ASC", "DESC"}
ListPaymentsDto == [sortBy : PaymentSortBy, order : SortOrder, scoped : BOOLEAN]
Pending == 1        \* statuses, as numbers in the order of the enum
Completed == 2
NoRow == [status |-> 0]
NoReader == [pc |-> "none"]

VARIABLES
    row,      \* row[p]: the payment, or NoRow
    clock,
    reader    \* the listing in progress

vars == <<row, clock, reader>>

Row == [amount : Amounts, created : 0..MaxTime, status : {Pending, Completed},
        mine : BOOLEAN]
Rows == {p \in Ids : row[p] # NoRow}

Init ==
    /\ row = [p \in Ids |-> NoRow]
    /\ clock = 0
    /\ reader = NoReader

Tick ==
    /\ clock < MaxTime
    /\ clock' = clock + 1
    /\ UNCHANGED <<row, reader>>

\* Ids are random: a payment may get any that is free.
Create(p) ==
    /\ row[p] = NoRow
    /\ \E amount \in Amounts, mine \in BOOLEAN :
         row' = [row EXCEPT ![p] = [amount |-> amount, created |-> clock,
                                    status |-> Pending, mine |-> mine]]
    /\ UNCHANGED <<clock, reader>>

Complete(p) ==
    /\ row[p].status = Pending /\ reader # NoReader   \* before a listing it tells nothing
    /\ row' = [row EXCEPT ![p].status = Completed]
    /\ UNCHANGED <<clock, reader>>

----------------------------------------------------------------------------
(* The query.                                                              *)

\* resolveSortColumn
SortColumn(sortBy, r) ==
    CASE sortBy = "created_at" -> r.created
      [] sortBy = "amount"     -> r.amount
      [] sortBy = "status"     -> r.status

Less(order, a, b) == IF order = "ASC" THEN a < b ELSE a > b

\* applyOrder: by the column, then by id, in the same direction.
Before(dto, p, q) ==
    LET a == SortColumn(dto.sortBy, row[p])
        b == SortColumn(dto.sortBy, row[q])
    IN  Less(dto.order, a, b) \/ (a = b /\ Less(dto.order, p, q))

\* take(n)
Take(dto, S, n) == {p \in S : Cardinality({q \in S : Before(dto, q, p)}) < n}

LastOf(dto, S) == CHOOSE p \in S : \A q \in S : ~Before(dto, p, q)

\* buildFilterQuery: the scope of a customer stands for every filter.
Matches(dto, p) == dto.scoped => row[p].mine

\* encodeCursor: createdAt is a timestamp without time zone, which the driver takes for
\* local time; toISOString gives it in UTC and drops what is below a millisecond, and
\* the database compares what is left with the column as it is.
SortValue(sortBy, r) ==
    IF sortBy = "created_at" THEN ((r.created - Ahead) \div Milli) * Milli
    ELSE SortColumn(sortBy, r)

Cursor(dto, p) == [value |-> SortValue(dto.sortBy, row[p]), id |-> p]

\* Mutant: the rows after the cursor's are those with a later key.
AfterKeyOnly(dto, c, p) ==
    Matches(dto, p) /\ Less(dto.order, c.value, SortColumn(dto.sortBy, row[p]))

\* applyCursorCondition: "A OR B" is not parenthesised, and AND binds tighter.
After(dto, c, p) ==
    \/ Matches(dto, p) /\ Less(dto.order, c.value, SortColumn(dto.sortBy, row[p]))
    \/ SortColumn(dto.sortBy, row[p]) = c.value /\ Less(dto.order, c.id, p)

----------------------------------------------------------------------------
(* The client.                                                             *)

\* The answer is read; the listing goes on from its last row if there is more.
Answer(dto, page, more) ==
    [pc |-> IF more THEN "paging" ELSE "done",
     dto |-> dto,
     cursor |-> IF page = {} THEN [value |-> 0, id |-> 0] ELSE Cursor(dto, LastOf(dto, page)),
     listed |-> page,
     repeated |-> FALSE,
     start |-> Rows]

\* findWithOffset: page 1, with the total.
FirstPage ==
    /\ reader = NoReader
    /\ \E dto \in ListPaymentsDto \cap Queries :
         LET found == {p \in Rows : Matches(dto, p)}
             page  == Take(dto, found, PageSize)
         IN  reader' = Answer(dto, page, found # page)
    /\ UNCHANGED <<row, clock>>

\* findWithCursor: one row more than a page tells whether there is more.
NextPage ==
    /\ reader.pc = "paging"
    /\ LET dto   == reader.dto
           found == Take(dto, {p \in Rows : After(dto, reader.cursor, p)}, PageSize + 1)
           page  == Take(dto, found, PageSize)
       IN  reader' = [Answer(dto, page, found # page) EXCEPT
                        !.listed = reader.listed \cup page,
                        !.repeated = reader.repeated \/ page \cap reader.listed # {},
                        !.start = reader.start]
    /\ UNCHANGED <<row, clock>>

----------------------------------------------------------------------------
\* Bound: nothing is looked at once the listing has ended.
Next ==
    /\ reader = NoReader \/ reader.pc = "paging"
    /\ \/ Tick
       \/ \E p \in Ids : Create(p) \/ Complete(p)
       \/ FirstPage \/ NextPage

Spec == Init /\ [][Next]_vars

----------------------------------------------------------------------------
(* Properties.                                                             *)

TypeOK ==
    /\ row \in [Ids -> Row \cup {NoRow}]
    /\ clock \in 0..MaxTime
    /\ reader # NoReader =>
         /\ reader.pc \in {"paging", "done"}
         /\ reader.listed \subseteq Ids /\ reader.start \subseteq Ids
         /\ reader.cursor.id \in Ids \cup {0}

\* A listing by amount without filters is exact: no payment twice, and at its end
\* every payment that was there at its beginning, though payments are created and
\* change status between its pages.  By creation time in descending order none
\* comes twice either, but those of one millisecond may be skipped.
ListingExact ==
    reader # NoReader =>
        /\ reader.dto.sortBy = "amount" /\ ~reader.dto.scoped =>
             /\ ~reader.repeated
             /\ reader.pc = "done" => reader.start \subseteq reader.listed
        /\ reader.dto.sortBy = "created_at" /\ reader.dto.order = "DESC" =>
             ~reader.repeated

----------------------------------------------------------------------------
(* The inductive invariant behind ListingExact.                            *)

Listing ==
    [pc : {"paging", "done"}, dto : ListPaymentsDto, cursor : [value : Int, id : Ids \cup {0}],
     listed : SUBSET Rows, repeated : BOOLEAN, start : SUBSET Rows]

\* By amount: the cursor is at a row that splits the listing, what is listed up to
\* it and what was there and is still to come after it.
CursorSplits ==
    reader.pc = "paging" /\ reader.dto.sortBy = "amount" /\ ~reader.dto.scoped =>
        LET last == reader.cursor.id
        IN  /\ last \in Rows /\ reader.cursor.value = row[last].amount
            /\ \A p \in reader.listed : p = last \/ Before(reader.dto, p, last)
            /\ \A p \in reader.start \ reader.listed : Before(reader.dto, last, p)

\* By creation time, the newest first: nothing that is listed is beyond the cursor.
CursorBelow ==
    reader.pc = "paging" /\ reader.dto.sortBy = "created_at" /\ reader.dto.order = "DESC" =>
        \A p \in reader.listed :
            \/ reader.cursor.value < row[p].created
            \/ reader.cursor.value = row[p].created /\ reader.cursor.id <= p

ListingInv ==
    /\ row \in [Ids -> Row \cup {NoRow}] /\ clock \in 0..MaxTime
    /\ reader \in Listing \cup {NoReader}
    /\ CursorSplits /\ CursorBelow /\ ListingExact
=============================================================================
