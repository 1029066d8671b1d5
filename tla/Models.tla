------------------------------- MODULE Models --------------------------------
(***************************************************************************)
(* Queries and relations (crates/luxid-orm): selecting, a page of a        *)
(* selection, and the three ways relations are loaded for a batch of       *)
(* parents.  A table is a function from primary keys to rows, and a        *)
(* selection a sequence of primary keys in the order the query returns.    *)
(***************************************************************************)
EXTENDS Naturals, FiniteSetsExt, SequencesExt, Selection

InOrder(ids) == Among([i \in 1 .. Max(ids \cup {0}) |-> i], ids)

\* The column a selection is grouped by; the primary key is one of them.
Get(table, i, column) == IF column = "id" THEN i ELSE table[i][column]

AtLeastOne(n) == IF n = 0 THEN 1 ELSE n

\* Mutant: the page asked for is not turned into the paginator's index.
OneBased(page) == AtLeastOne(page)

\* The paginator counts pages from zero.
PageIndex(page) == AtLeastOne(page) - 1

NumPages(total, per) == (total + per - 1) \div per

FetchPage(selected, index, per) ==
    SubSeq(selected, index * per + 1,
           IF (index + 1) * per < Len(selected) THEN (index + 1) * per
                                                ELSE Len(selected))

Paginated(data, page, per, total) ==
    [data |-> data, page |-> AtLeastOne(page), per_page |-> per,
     total |-> total, last_page |-> AtLeastOne(NumPages(total, per))]

HasMore(p) == p.page < p.last_page

\* The children a loader fetches for a batch of parents, in one query.
Fetched(children, column, keys) ==
    InOrder({i \in DOMAIN children : Get(children, i, column) \in keys})

\* A table with a row put in, or the row under a key replaced.
WithKey(table, i, row) ==
    [k \in DOMAIN table \cup {i} |-> IF k = i THEN row ELSE table[k]]

\* Mutant: a child is kept only when it is the first under its key.
BucketedOnce(keep, bucket, i) == IF bucket = <<>> THEN <<i>> ELSE bucket

\* One more child under a key: pushed, inserted unless there is one, or inserted.
Bucketed(keep, bucket, i) ==
    IF keep = "all" THEN Append(bucket, i)
    ELSE IF keep = "first" /\ bucket # <<>> THEN bucket ELSE <<i>>

Bucket(byKey, key) == IF key \in DOMAIN byKey THEN byKey[key] ELSE <<>>

WithChild(keep, byKey, key, i) ==
    WithKey(byKey, key, Bucketed(keep, Bucket(byKey, key), i))

\* Children bucketed under the key they hold, as they came.
Grouped(keep, children, column, ids) ==
    LET byKey[n \in 0 .. Len(ids)] ==
            IF n = 0 THEN <<>>
            ELSE WithChild(keep, byKey[n - 1], Get(children, ids[n], column), ids[n])
    IN  byKey[Len(ids)]

\* What one query finds for a batch of keys, under each of them.
ByKey(keep, children, column, keys) ==
    Grouped(keep, children, column, Fetched(children, column, keys))

LoadHasMany(ids, children, column) ==
    [p \in ToSet(ids) |-> Bucket(ByKey("all", children, column, ToSet(ids)), p)]

\* The first child that came for a key stays.
LoadHasOne(ids, children, column) ==
    [p \in ToSet(ids) |-> Bucket(ByKey("first", children, column, ToSet(ids)), p)]

\* The foreign keys are collapsed before the owners are fetched; the last
\* owner that came for a key stays.
LoadBelongsTo(parents, ids, column, owners) ==
    LET keys == {parents[p][column] : p \in ToSet(ids)}
    IN [p \in ToSet(ids) |-> Bucket(ByKey("last", owners, "id", keys), parents[p][column])]
==============================================================================
