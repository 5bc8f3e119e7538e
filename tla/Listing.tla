------------------------------ MODULE Listing ------------------------------
(***************************************************************************)
(* A client that reads a whole table page by page through UserService's or *)
(* AuditService's findAll, following meta.hasNext, while others write to   *)
(* the table.  A page is two queries, count and findMany, with an await    *)
(* and no transaction around them.                                         *)
(*                                                                         *)
(* Rows are the places of a bounded table: at most so many rows are in the *)
(* list at a time, but any number come and go.  A row is in the list while *)
(* the filter selects it: one that leaves the filter is removed, and when  *)
(* it comes back it is another row.                                        *)
(*                                                                         *)
(* Users are listed by the column the client names (sortBy), createdAt if  *)
(* it names none; audit logs by createdAt, the newest first.               *)
(***************************************************************************)
EXTENDS Integers, FiniteSets

CONSTANTS
    Rows,       \* the places for rows
    Limits,     \* the page sizes clients ask for
    MaxTime,    \* bound on the clock, and on the values of a column
    Age         \* the age at which the cleanup deletes a row

ASSUME SomeRows == IsFiniteSet(Rows) /\ Rows # {}
ASSUME LimitsAreNumbers == Limits \subseteq Int
ASSUME TimesAreNumbers == MaxTime \in Nat
ASSUME AgeIsANumber == Age \in Nat

VARIABLES
    now,        \* the time
    row,        \* whether a row is in the list: present, absent
    key,        \* its value in the column of the walk, 0 if absent
    walk,       \* the client: its request, where it is, what it knows
    want,       \* history: the rows present ever since the walk began
    seen,       \* history: the rows the client was sent
    repeated,   \* history: the rows it was sent more than once
    slid,       \* history: the rows others may have moved up the order
    pushed      \* history: the rows others may have moved down

table == <<now, row, key>>
listed == <<want, seen, repeated>>
moved == <<slid, pushed>>
listingVars == <<table, walk, listed, moved>>

(* Bound on the pages a client counts; at limit 0 there is no last one.    *)
MaxPage == Cardinality(Rows) + 1

Walk == [pc : {"idle", "count", "find", "done", "failed"},
         sortBy : {"createdAt", "other"},
         order : {"asc", "desc"},
         limit : Limits,
         page : 1..MaxPage,
         total : 0..Cardinality(Rows)]

ListingTypeOK ==
    /\ now \in 0..MaxTime
    /\ row \in [Rows -> {"absent", "present"}]
    /\ key \in [Rows -> 0..MaxTime]
    /\ walk \in Walk
    /\ walk.limit > 0 => walk.page <= Cardinality(Rows)
    /\ want \subseteq Rows
    /\ repeated \subseteq seen /\ seen \subseteq Rows
    /\ slid \subseteq want /\ pushed \subseteq Rows

Present == {x \in Rows : row[x] = "present"}

ListingInit ==
    /\ now = 0
    /\ row \in [Rows -> {"absent", "present"}]
    /\ key = [x \in Rows |-> 0]
    /\ walk \in {w \in Walk : /\ w.pc = "idle" /\ w.order = "desc"
                            /\ w.page = 1 /\ w.total = 0}
    /\ want = {} /\ seen = {} /\ repeated = {} /\ slid = {} /\ pushed = {}

-----------------------------------------------------------------------------
(* Whether a row with the value k comes before y, or may, in the order of  *)
(* the walk.                                                               *)
KeyPrecedes(k, y) == IF walk.order = "desc" THEN k >= key[y] ELSE k <= key[y]

MayPrecede(x, y) == KeyPrecedes(key[x], y)

Tied == {x \in Present : \E y \in Present \ {x} : key[x] = key[y]}

Least(m, n) == IF m <= n THEN m ELSE n

(* Variant to refute RepeatsHaveACause: (page - 1) * limit, less one. *)
SkipOneLess(page, limit) == IF page = 1 THEN 0 ELSE (page - 1) * limit - 1

(* The number of rows before a page. *)
Skip(page, limit) == (page - 1) * limit

Size(take) == IF take < 0 THEN -take ELSE take

(* How many of n rows lie before the page.                                 *)
Skipped(skip, take, n) ==
    IF take < 0 THEN n - Least(-take, n) ELSE Least(skip, n)

(* Variant to refute SurvivorsAreListed: findMany without orderBy. *)
PagesUnordered(skip, take) ==
    {P \in SUBSET Present :
        LET n == Cardinality(Present)
        IN  Cardinality(P) = Least(Size(take), n - Skipped(skip, take, n))}

(* What findMany may return: take rows after the first skip, in any order  *)
(* of the table that the column allows.  AuditController lets a negative   *)
(* limit pass, and Prisma takes so many rows from the end.                 *)
Pages(skip, take) ==
    {P \in SUBSET Present :
        \E B \in SUBSET (Present \ P) :
            LET rest == Present \ (B \cup P)
            IN  /\ Cardinality(B) = Skipped(skip, take, Cardinality(Present))
                /\ Cardinality(P) =
                      Least(Size(take), Cardinality(Present) - Cardinality(B))
                /\ \A x \in B, y \in P \cup rest : MayPrecede(x, y)
                /\ \A x \in P, y \in rest : MayPrecede(x, y)}

(* Math.ceil(total / limit). *)
TotalPages(total, limit) == (total + limit - 1) \div limit

(* Variant to refute WalksEnd and ListingTypeOK: page !== totalPages. *)
HasNextByInequality(page, total, limit) ==
    IF limit > 0 THEN page # TotalPages(total, limit) ELSE limit = 0

(* page < totalPages.  At a limit of 0, which AuditController lets pass    *)
(* too, totalPages is Infinity, or NaN when there are no rows; below 0 it  *)
(* is not above 0.                                                         *)
HasNext(page, total, limit) ==
    IF limit > 0 THEN page < TotalPages(total, limit)
                 ELSE limit = 0 /\ total > 0

-----------------------------------------------------------------------------
(* The client asks for its first page.  QueryUserDto has an order, a       *)
(* column, and a limit of 1 at least; audit logs have none of them.        *)
Begin(order) ==
    /\ walk.pc = "idle"
    /\ order = "asc" \/ walk.sortBy = "other" => walk.limit > 0
    /\ walk' = [walk EXCEPT !.pc = "count", !.order = order]
    /\ want' = Present
    /\ UNCHANGED <<table, seen, repeated, moved>>

Count ==
    /\ walk.pc = "count"
    /\ walk' = [walk EXCEPT !.pc = "find", !.total = Cardinality(Present)]
    /\ UNCHANGED <<table, listed, moved>>

(* The rows, and the answer; hasNext is computed from the earlier count.   *)
(* The client then asks for the next page, or has finished.                *)
FindMany(P) ==
    /\ walk.pc = "find"
    /\ P \in Pages(Skip(walk.page, walk.limit), walk.limit)
    /\ seen' = seen \cup P
    /\ repeated' = repeated \cup (seen \cap P)
    /\ slid' = slid \cup (Tied \cap want)
    /\ pushed' = pushed \cup Tied
    /\ walk' = IF HasNext(walk.page, walk.total, walk.limit)
               THEN [walk EXCEPT !.pc = "count", !.total = 0,
                                 !.page = Least(@ + 1, MaxPage)]
               ELSE [walk EXCEPT !.pc = "done"]
    /\ UNCHANGED <<table, want>>

(* A query rejects: 500, and the client gives up. *)
QueryRejects ==
    /\ walk.pc \in {"count", "find"}
    /\ walk' = [walk EXCEPT !.pc = "failed"]
    /\ UNCHANGED <<table, listed, moved>>

Walking == walk.pc \in {"count", "find"}

Open == walk.pc \notin {"done", "failed"}

(* What is noted of rows that a write moves in the order: which moved up   *)
(* or down behind the first page, and which moved down when the page that  *)
(* is asked for is the last by its count, so that none follows it.         *)
MovedUp(S) == IF Walking /\ walk.page > 1 THEN S \cap want ELSE {}

MovedDown(S) == IF Walking /\ walk.page > 1 THEN S ELSE {}

PastTheEnd(S) ==
    IF walk.pc = "find" /\ ~HasNext(walk.page, walk.total, walk.limit)
    THEN S \cap want ELSE {}

(* create, or an update that brings a row into the filter.                 *)
Insert(x, k) ==
    /\ Open
    /\ row[x] = "absent"
    /\ walk.sortBy = "createdAt" => k <= now
    /\ row' = [row EXCEPT ![x] = "present"]
    /\ key' = [key EXCEPT ![x] = k]
    /\ LET after == {y \in Present : KeyPrecedes(k, y)}
       IN  /\ pushed' = pushed \cup MovedDown(after)
           /\ slid' = slid \cup PastTheEnd(after)
    /\ UNCHANGED <<now, walk, listed>>

(* An update of the column a client sorts by: x moves, and those it passes.*)
Move(x, k) ==
    /\ Open
    /\ walk.sortBy = "other"
    /\ row[x] = "present" /\ key[x] # k
    /\ key' = [key EXCEPT ![x] = k]
    /\ LET up == {y \in Present : MayPrecede(x, y) /\ ~KeyPrecedes(k, y)}
           down == {y \in Present : KeyPrecedes(k, y) /\ ~MayPrecede(x, y)}
       IN  /\ pushed' = pushed \cup MovedDown(down \cup {x})
           /\ slid' = slid \cup MovedUp(up \cup {x})
                           \cup PastTheEnd(down \cup {x})
    /\ UNCHANGED <<now, row, walk, listed>>

(* The rows of S go, and nothing is noted of them any more; what follows   *)
(* one of them moves up.                                                   *)
DeleteRows(S) ==
    /\ row' = [x \in Rows |-> IF x \in S THEN "absent" ELSE row[x]]
    /\ key' = [x \in Rows |-> IF x \in S THEN 0 ELSE key[x]]
    /\ want' = want \ S /\ seen' = seen \ S /\ repeated' = repeated \ S
    /\ slid' = (slid \cup MovedUp({y \in Present :
                                     \E x \in S : MayPrecede(x, y)})) \ S
    /\ pushed' = pushed \ S
    /\ UNCHANGED <<now, walk>>

(* UserService.remove, or a row that leaves the filter.                    *)
Remove(x) ==
    /\ Open
    /\ row[x] = "present"
    /\ DeleteRows({x})

(* cleanupOldAuditLogs: the rows older than Age. *)
DeleteOldAuditLogs ==
    LET old == {x \in Present : key[x] + Age < now}
    IN  /\ Open
        /\ walk.sortBy = "createdAt"
        /\ old # {}
        /\ DeleteRows(old)

Tick ==
    /\ Open
    /\ walk.sortBy = "createdAt"
    /\ now < MaxTime
    /\ now' = now + 1
    /\ UNCHANGED <<row, key, walk, listed, moved>>

Answer == Count \/ QueryRejects \/ \E P \in SUBSET Rows : FindMany(P)

ListingNext ==
    \/ \E order \in {"asc", "desc"} : Begin(order)
    \/ Answer
    \/ \E x \in Rows :
          Remove(x) \/ \E k \in 0..MaxTime : Insert(x, k) \/ Move(x, k)
    \/ DeleteOldAuditLogs
    \/ Tick

ListingSpec == ListingInit /\ [][ListingNext]_listingVars

(* The database answers or rejects, and the client goes on. *)
FairListingSpec == ListingSpec /\ WF_listingVars(Answer)

-----------------------------------------------------------------------------
(* A client that has read to the end was sent every row that was there all *)
(* the while, but for these causes: a row before it was removed or moved   *)
(* past it; it moved itself, or a row came before it between the count and *)
(* the query of the last page; it shares its value in the column with      *)
(* another row; or the limit is negative.  In the default order the weekly *)
(* cleanup, which takes the last rows, is no such cause.                   *)
SurvivorsAreListed ==
    walk.pc = "done" /\ walk.limit >= 0 => want \subseteq seen \cup slid

(* A row is sent twice only when one came before it, by an insert or by an *)
(* update of the column the list is sorted by; when it moved itself; or    *)
(* when it shares its value in that column with another row.  Removals     *)
(* repeat nothing.                                                         *)
RepeatsHaveACause == repeated \subseteq pushed

(* In a table that holds a bounded number of rows at a time, hasNext leads *)
(* every client with a limit other than 0 to an end, though rows come, go  *)
(* and move under it for ever.  (In one that grows by a page for each page *)
(* that is read, it never does.)                                           *)
WalksEnd == Walking /\ walk.limit # 0 ~> ~Walking
=============================================================================
