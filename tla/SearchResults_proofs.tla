------------------------ MODULE SearchResults_proofs ------------------------
(***************************************************************************)
(* Proofs about SearchResults, for every catalog of finitely many facts,   *)
(* every schema, any number of searches and filters and every limit.       *)
(***************************************************************************)
EXTENDS SearchResults, FiniteSetTheorems, SequenceTheorems, TLAPS

\* A catalog is finite, and each of its items is a manifest of some package.
Catalogued == IsFiniteSet(Facts) /\ \A f \in Facts : f.item \in DOMAIN PackageOf

\* A limit is a number of rows.
Counted == Limits \subseteq Nat

Finds(by, item) == \E f \in Selected(by) : f.item = item

\* The first n filters let the item through.
Passed(item, n) == \A i \in 1..n : \E by \in filters[i] : Finds(by, item)

\* How many filters have deleted what they did not mark.
Applied == IF phase = "filter" THEN Len(filters) - 1 ELSE Len(filters)

Cells == [item : DOMAIN PackageOf, by : Filters, value : {f.value : f \in Facts},
          sort : Nat, filter : BOOLEAN]

TypeInv ==
    /\ facts \subseteq Facts
    /\ searches \in Seq(Filters) /\ sortOrdinal = Len(searches)
    /\ filters \in Seq(SUBSET Filters)
    /\ rows \subseteq Cells /\ IsFiniteSet(rows)
    /\ phase \in {"search", "ready", "filter", "done"}
    /\ phase = "search" => filters = <<>>
    /\ phase = "filter" => filters # <<>>

\* A row says which search found its item, the item has passed the filters, and
\* it is marked when the filter under way lets it through.
RowsSound ==
    \A r \in rows :
        /\ r.sort + 1 \in DOMAIN searches
        /\ r.by = searches[r.sort + 1] /\ Finds(r.by, r.item)
        /\ Passed(r.item, Applied)
        /\ phase = "filter" => (r.filter <=> \E by \in filters[Len(filters)] : Finds(by, r.item))

\* What a search found and the filters let through has a row from that search or
\* an earlier one.
RowsComplete ==
    \A item \in DOMAIN PackageOf : \A i \in DOMAIN searches : \A by \in Filters :
        searches[i] = by /\ Finds(by, item) /\ Passed(item, Applied) =>
            \E r \in rows : r.item = item /\ r.sort < i

\* Behind the removal of duplicates an item has one row.
OneRow == phase # "search" => \A r, q \in rows : r.item = q.item => r = q

\* The answer is a sorted list of the best row of each package, up to the limit.
Answered(found, n, limit) ==
    /\ \E group \in Groups : found \in SetToSeqs(group)
    /\ \A i, j \in DOMAIN found : i < j => found[i].sort <= found[j].sort
    /\ n = IF limit > 0 /\ limit < Len(found) THEN limit ELSE Len(found)
    /\ result = [limit |-> limit, matches |-> SubSeq(found, 1, n), truncated |-> n < Len(found)]

ResultInv == phase = "done" => \E limit \in Limits : \E found, n : Answered(found, n, limit)

TableInv == RowsSound /\ RowsComplete /\ OneRow

-----------------------------------------------------------------------------
(* The table *)

\* At first the table is empty and there is no answer.
LEMMA InitTable == SearchInit => TypeInv /\ TableInv /\ ResultInv
BY FS_EmptySet DEF SearchInit, TypeInv, TableInv, RowsSound, RowsComplete, OneRow, ResultInv

\* What is found depends on the catalog only.
LEMMA SameCatalogFindsTheSame ==
    ASSUME UNCHANGED catalog, NEW by, NEW item
    PROVE  Finds(by, item)' <=> Finds(by, item)
BY DEF catalog, Finds, Selected, BuildSearchStatement

\* The rows that a search adds are finitely many.
LEMMA FoundRowsFinite ==
    ASSUME Catalogued, TypeInv, NEW by, NEW sort
    PROVE  IsFiniteSet({[item |-> f.item, by |-> by, value |-> f.value,
                         sort |-> sort, filter |-> FALSE] : f \in Selected(by)})
<1> DEFINE row(f) == [item |-> f.item, by |-> by, value |-> f.value, sort |-> sort, filter |-> FALSE]
           new == {row(f) : f \in Selected(by)}
           made == [f \in Selected(by) |-> row(f)]
<1>1. IsFiniteSet(Selected(by))
  <2>1. Selected(by) \subseteq Facts
    BY DEF Selected, TypeInv
  <2> QED
    BY <2>1, FS_Subset DEF Catalogued
<1>2. made \in Surjection(Selected(by), new)
  BY DEF Surjection
<1> QED
  BY <1>1, <1>2, FS_Surjection

\* A search adds its rows behind those of earlier searches.
LEMMA SearchKeeps ==
    ASSUME Catalogued, TypeInv, TableInv, NEW by \in Filters, SearchOnField(by)
    PROVE  TypeInv' /\ TableInv'
<1> DEFINE row(f) == [item |-> f.item, by |-> by, value |-> f.value,
                      sort |-> sortOrdinal, filter |-> FALSE]
           new == {row(f) : f \in Selected(by)}
<1>1. /\ rows' = rows \cup new /\ searches' = Append(searches, by)
      /\ sortOrdinal' = sortOrdinal + 1
      /\ UNCHANGED <<schema, facts, phase, filters>> /\ phase = "search"
  BY DEF SearchOnField, catalog
<1>2. Len(searches) \in Nat /\ sortOrdinal = Len(searches) /\ filters = <<>>
  BY <1>1 DEF TypeInv
<1>3. /\ searches' \in Seq(Filters) /\ Len(searches') = Len(searches) + 1
      /\ DOMAIN searches' = 1..Len(searches) + 1
      /\ \A i \in 1..Len(searches) : searches'[i] = searches[i]
      /\ searches'[Len(searches) + 1] = by
  <2>1. searches \in Seq(Filters)
    BY DEF TypeInv
  <2> QED
    BY <1>1, <1>2, <2>1, AppendProperties, LenProperties
<1>4. DOMAIN searches = 1..Len(searches)
  BY LenProperties DEF TypeInv
<1>5. Selected(by) \subseteq Facts
  BY DEF Selected, TypeInv
<1>6. new \subseteq Cells
  <2> SUFFICES ASSUME NEW f \in Selected(by) PROVE row(f) \in Cells
    OBVIOUS
  <2>1. f.item \in DOMAIN PackageOf /\ f.value \in {g.value : g \in Facts}
    BY <1>5 DEF Catalogued
  <2> QED
    BY <1>2, <2>1 DEF Cells
<1>7. IsFiniteSet(rows \cup new)
  <2>1. IsFiniteSet(new) /\ IsFiniteSet(rows)
    BY FoundRowsFinite DEF TypeInv
  <2> HIDE DEF new
  <2> QED
    BY <2>1, FS_Union
<1>8. TypeInv'
  BY <1>1, <1>2, <1>3, <1>6, <1>7 DEF TypeInv
<1>9. \A b, item : Finds(b, item)' <=> Finds(b, item)
  BY <1>1, SameCatalogFindsTheSame DEF catalog
<1>10. \A item : Passed(item, Applied) /\ Passed(item, Applied)'
  BY <1>1, <1>2 DEF Passed, Applied
<1>11. RowsSound'
  <2>1. ASSUME NEW r \in rows
        PROVE  /\ r.sort + 1 \in DOMAIN searches'
               /\ r.by = searches'[r.sort + 1] /\ Finds(r.by, r.item)'
    BY <1>3, <1>4, <1>9 DEF TableInv, RowsSound
  <2>2. ASSUME NEW r \in new
        PROVE  /\ r.sort + 1 \in DOMAIN searches'
               /\ r.by = searches'[r.sort + 1] /\ Finds(r.by, r.item)'
    <3>1. PICK f \in Selected(by) : r = row(f)
      OBVIOUS
    <3>2. r.sort = Len(searches) /\ r.by = by /\ r.item = f.item
      BY <1>2, <3>1
    <3>3. Finds(by, f.item)
      BY DEF Finds
    <3> QED
      BY <1>2, <1>3, <1>9, <3>2, <3>3
  <2> HIDE DEF new
  <2> QED
    BY <1>1, <1>10, <2>1, <2>2 DEF RowsSound
<1>12. RowsComplete'
  <2> SUFFICES ASSUME NEW item \in DOMAIN PackageOf, NEW i \in DOMAIN searches', NEW b \in Filters,
                      searches'[i] = b, Finds(b, item)'
               PROVE  \E r \in rows' : r.item = item /\ r.sort < i
    BY DEF RowsComplete
  <2>1. CASE i \in DOMAIN searches
    <3>1. \E r \in rows : r.item = item /\ r.sort < i
      BY <1>3, <1>4, <1>9, <1>10, <2>1 DEF TableInv, RowsComplete
    <3> QED
      BY <1>1, <3>1
  <2>2. CASE i = Len(searches) + 1
    <3>1. PICK f \in Selected(by) : f.item = item
      BY <1>3, <1>9, <2>2 DEF Finds
    <3>2. row(f) \in rows'
      BY <1>1
    <3>3. row(f).item = item /\ row(f).sort < i
      BY <1>2, <2>2, <3>1
    <3> QED
      BY <3>2, <3>3
  <2> QED
    BY <1>2, <1>3, <1>4, <2>1, <2>2
<1>13. OneRow'
  BY <1>1 DEF OneRow
<1> QED
  BY <1>8, <1>11, <1>12, <1>13 DEF TableInv

\* Removing duplicates leaves each item the row of its earliest search.
LEMMA RemoveDuplicatesKeeps ==
    ASSUME TypeInv, TableInv, RemoveDuplicateRows
    PROVE  TypeInv' /\ TableInv'
<1>1. /\ rows' \in BestRows(Itself) /\ phase = "search" /\ phase' = "ready"
      /\ UNCHANGED <<schema, facts, sortOrdinal, searches, filters>>
  BY DEF RemoveDuplicateRows, catalog
<1>2. /\ rows' \subseteq rows
      /\ \A r \in rows : \E k \in rows' : Itself[k.item] = Itself[r.item] /\ k.sort <= r.sort
      /\ \A k, l \in rows' : Itself[k.item] = Itself[l.item] => k = l
  BY <1>1 DEF BestRows
<1>3. \A r \in rows : r.item \in DOMAIN PackageOf /\ Itself[r.item] = r.item /\ r.sort \in Nat
  BY DEF TypeInv, Cells, Itself
<1>4. filters = <<>>
  BY <1>1 DEF TypeInv
<1>5. TypeInv'
  <2>1. IsFiniteSet(rows')
    BY <1>2, FS_Subset DEF TypeInv
  <2> QED
    BY <1>1, <1>2, <1>4, <2>1 DEF TypeInv
<1>6. \A b, item : Finds(b, item)' <=> Finds(b, item)
  BY <1>1, SameCatalogFindsTheSame DEF catalog
<1>7. \A item : Passed(item, Applied) /\ Passed(item, Applied)'
  BY <1>1, <1>4 DEF Passed, Applied
<1>8. RowsSound'
  BY <1>1, <1>2, <1>6, <1>7 DEF TableInv, RowsSound
<1>9. RowsComplete'
  <2> SUFFICES ASSUME NEW item \in DOMAIN PackageOf, NEW i \in DOMAIN searches, NEW b \in Filters,
                      searches[i] = b, Finds(b, item)
               PROVE  \E r \in rows' : r.item = item /\ r.sort < i
    BY <1>1, <1>6 DEF RowsComplete
  <2>1. PICK r \in rows : r.item = item /\ r.sort < i
    BY <1>7 DEF TableInv, RowsComplete
  <2>2. PICK k \in rows' : Itself[k.item] = Itself[r.item] /\ k.sort <= r.sort
    BY <1>2
  <2>3. i \in Nat
    BY LenProperties DEF TypeInv
  <2> QED
    BY <1>2, <1>3, <2>1, <2>2, <2>3
<1>10. OneRow'
  BY <1>2, <1>3 DEF OneRow
<1> QED
  BY <1>5, <1>8, <1>9, <1>10 DEF TableInv

\* Marking rows leaves what they say of their items.
Marked(mark) == {[r EXCEPT !.filter = mark[r]] : r \in rows}

\* Marking changes nothing of a row but its mark, and loses none.
LEMMA MarkedRows ==
    ASSUME TypeInv, OneRow, phase # "search", NEW mark \in [rows -> BOOLEAN]
    PROVE  /\ Marked(mark) \subseteq Cells /\ IsFiniteSet(Marked(mark))
           /\ \A q \in Marked(mark) : \E r \in rows :
                 q.item = r.item /\ q.by = r.by /\ q.sort = r.sort /\ q.filter = mark[r]
           /\ \A r \in rows : \E q \in Marked(mark) : q.item = r.item /\ q.sort = r.sort
           /\ \A p, q \in Marked(mark) : p.item = q.item => p = q
<1> DEFINE image(r) == [r EXCEPT !.filter = mark[r]]
           made == [r \in rows |-> image(r)]
<1>1. ASSUME NEW r \in rows
      PROVE  /\ image(r) \in Cells
             /\ image(r).item = r.item /\ image(r).by = r.by /\ image(r).sort = r.sort
             /\ image(r).filter = mark[r]
  <2>1. r \in Cells /\ mark[r] \in BOOLEAN
    BY DEF TypeInv
  <2> QED
    BY <2>1 DEF Cells
<1>2. IsFiniteSet(Marked(mark))
  <2>1. made \in Surjection(rows, Marked(mark))
    BY DEF Surjection, Marked
  <2> QED
    BY <2>1, FS_Surjection DEF TypeInv
<1>3. \A r, q \in rows : r.item = q.item => r = q
  BY DEF OneRow
<1>4. ASSUME NEW p \in Marked(mark), NEW q \in Marked(mark), p.item = q.item
      PROVE  p = q
  <2>1. PICK r \in rows : p = image(r)
    BY DEF Marked
  <2>2. PICK t \in rows : q = image(t)
    BY DEF Marked
  <2>3. r.item = t.item
    BY <1>1, <1>4, <2>1, <2>2
  <2> QED
    BY <1>3, <2>1, <2>2, <2>3
<1>5. \A q \in Marked(mark) : \E r \in rows : q = image(r)
  BY DEF Marked
<1>6. \A r \in rows : image(r) \in Marked(mark)
  BY DEF Marked
<1> HIDE DEF image
<1> QED
  BY <1>1, <1>2, <1>4, <1>5, <1>6

\* A new filter starts with no row marked.
LEMMA PrepareKeeps ==
    ASSUME TypeInv, TableInv, PrepareToFilter
    PROVE  TypeInv' /\ TableInv'
<1> DEFINE mark == [r \in rows |-> FALSE]
<1>1. /\ rows' = Marked(mark) /\ filters' = Append(filters, {})
      /\ phase = "ready" /\ phase' = "filter"
      /\ UNCHANGED <<schema, facts, sortOrdinal, searches>>
  BY DEF PrepareToFilter, catalog, Marked
<1>2. /\ rows' \subseteq Cells /\ IsFiniteSet(rows')
      /\ \A q \in rows' : \E r \in rows :
            q.item = r.item /\ q.by = r.by /\ q.sort = r.sort /\ q.filter = FALSE
      /\ \A r \in rows : \E q \in rows' : q.item = r.item /\ q.sort = r.sort
      /\ \A p, q \in rows' : p.item = q.item => p = q
  <2>1. mark \in [rows -> BOOLEAN] /\ \A r \in rows : mark[r] = FALSE
    OBVIOUS
  <2> HIDE DEF mark
  <2> QED
    BY <1>1, <2>1, MarkedRows DEF TableInv
<1>3. /\ filters' \in Seq(SUBSET Filters) /\ filters' # <<>>
      /\ Len(filters) \in Nat /\ Len(filters') = Len(filters) + 1
      /\ \A i \in 1..Len(filters) : filters'[i] = filters[i]
      /\ filters'[Len(filters')] = {}
  BY <1>1, AppendProperties, LenProperties DEF TypeInv
<1>4. TypeInv'
  BY <1>1, <1>2, <1>3 DEF TypeInv
<1>5. \A b, item : Finds(b, item)' <=> Finds(b, item)
  BY <1>1, SameCatalogFindsTheSame DEF catalog
<1>6. Applied = Len(filters) /\ Applied' = Len(filters)
  BY <1>1, <1>3 DEF Applied
<1>7. \A item : Passed(item, Applied)' <=> Passed(item, Applied)
  BY <1>3, <1>5, <1>6 DEF Passed
<1>8. RowsSound'
  <2> SUFFICES ASSUME NEW q \in rows'
               PROVE  /\ q.sort + 1 \in DOMAIN searches
                      /\ q.by = searches[q.sort + 1] /\ Finds(q.by, q.item)
                      /\ Passed(q.item, Applied) /\ ~q.filter
    BY <1>1, <1>3, <1>5, <1>7 DEF RowsSound
  <2>1. PICK r \in rows : q.item = r.item /\ q.by = r.by /\ q.sort = r.sort /\ q.filter = FALSE
    BY <1>2
  <2> QED
    BY <2>1 DEF TableInv, RowsSound
<1>9. RowsComplete'
  <2> SUFFICES ASSUME NEW item \in DOMAIN PackageOf, NEW i \in DOMAIN searches, NEW b \in Filters,
                      searches[i] = b, Finds(b, item), Passed(item, Applied)
               PROVE  \E r \in rows' : r.item = item /\ r.sort < i
    BY <1>1, <1>5, <1>7 DEF RowsComplete
  <2>1. PICK r \in rows : r.item = item /\ r.sort < i
    BY DEF TableInv, RowsComplete
  <2> QED
    BY <1>2, <2>1
<1>10. OneRow'
  BY <1>2 DEF OneRow
<1> QED
  BY <1>4, <1>8, <1>9, <1>10 DEF TableInv

\* A field of a filter marks what it finds and leaves earlier marks.
LEMMA FilterKeeps ==
    ASSUME TypeInv, TableInv, NEW by \in Filters, FilterOnField(by)
    PROVE  TypeInv' /\ TableInv'
<1> DEFINE mark == [r \in rows |-> r.filter \/ \E f \in Selected(by) : f.item = r.item]
           n == Len(filters)
<1>1. /\ rows' = Marked(mark) /\ filters' = [filters EXCEPT ![n] = @ \cup {by}]
      /\ phase = "filter" /\ phase' = "filter"
      /\ UNCHANGED <<schema, facts, sortOrdinal, searches>>
  BY DEF FilterOnField, catalog, Marked
<1>2. /\ rows' \subseteq Cells /\ IsFiniteSet(rows')
      /\ \A q \in rows' : \E r \in rows :
            /\ q.item = r.item /\ q.by = r.by /\ q.sort = r.sort
            /\ q.filter <=> (r.filter \/ Finds(by, r.item))
      /\ \A r \in rows : \E q \in rows' : q.item = r.item /\ q.sort = r.sort
      /\ \A p, q \in rows' : p.item = q.item => p = q
  <2>1. mark \in [rows -> BOOLEAN]
    BY DEF TypeInv, Cells
  <2>2. \A r \in rows : mark[r] <=> (r.filter \/ Finds(by, r.item))
    BY DEF Finds
  <2> HIDE DEF mark
  <2> QED
    BY <1>1, <2>1, <2>2, MarkedRows DEF TableInv
<1>3. /\ n \in Nat \ {0} /\ DOMAIN filters = 1..n
      /\ filters' \in Seq(SUBSET Filters) /\ filters' # <<>> /\ Len(filters') = n
      /\ \A i \in 1..n - 1 : filters'[i] = filters[i]
      /\ filters'[n] = filters[n] \cup {by}
  <2>1. filters \in Seq(SUBSET Filters) /\ filters # <<>>
    BY <1>1 DEF TypeInv
  <2>2. n \in Nat \ {0} /\ DOMAIN filters = 1..n /\ filters[n] \in SUBSET Filters
    BY <2>1, LenProperties, EmptySeq, ElementOfSeq
  <2> DEFINE last == filters[n] \cup {by}
  <2>3. last \in SUBSET Filters /\ n \in 1..Len(filters)
    BY <2>2
  <2>4. filters' = [filters EXCEPT ![n] = last]
    BY <1>1
  <2> HIDE DEF last
  <2>5. /\ filters' \in Seq(SUBSET Filters) /\ Len(filters') = n
        /\ \A i \in 1..n : filters'[i] = IF i = n THEN last ELSE filters[i]
    BY <2>1, <2>3, <2>4, ExceptSeq
  <2>6. filters' # <<>>
    BY <2>2, <2>5, EmptySeq
  <2>7. filters'[n] = last
    BY <2>3, <2>5
  <2>8. \A i \in 1..n - 1 : filters'[i] = filters[i]
    <3> SUFFICES ASSUME NEW i \in 1..n - 1 PROVE filters'[i] = filters[i]
      OBVIOUS
    <3> HIDE DEF n
    <3>1. i \in 1..n /\ i # n
      BY <2>2
    <3> QED
      BY <2>5, <3>1
  <2> QED
    BY <2>2, <2>5, <2>6, <2>7, <2>8 DEF last
<1>4. TypeInv'
  BY <1>1, <1>2, <1>3 DEF TypeInv
<1>5. \A b, item : Finds(b, item)' <=> Finds(b, item)
  BY <1>1, SameCatalogFindsTheSame DEF catalog
<1>6. Applied = n - 1 /\ Applied' = n - 1
  BY <1>1, <1>3 DEF Applied
<1>7. \A item : Passed(item, Applied)' <=> Passed(item, Applied)
  BY <1>3, <1>5, <1>6 DEF Passed
<1>8. RowsSound'
  <2> SUFFICES ASSUME NEW q \in rows'
               PROVE  /\ q.sort + 1 \in DOMAIN searches
                      /\ q.by = searches[q.sort + 1] /\ Finds(q.by, q.item)
                      /\ Passed(q.item, Applied)
                      /\ q.filter <=> \E b \in filters[n] \cup {by} : Finds(b, q.item)
    BY <1>1, <1>3, <1>5, <1>7 DEF RowsSound
  <2>1. PICK r \in rows : /\ q.item = r.item /\ q.by = r.by /\ q.sort = r.sort
                          /\ q.filter <=> (r.filter \/ Finds(by, r.item))
    BY <1>2
  <2> QED
    BY <1>1, <2>1 DEF TableInv, RowsSound
<1>9. RowsComplete'
  <2> SUFFICES ASSUME NEW item \in DOMAIN PackageOf, NEW i \in DOMAIN searches, NEW b \in Filters,
                      searches[i] = b, Finds(b, item), Passed(item, Applied)
               PROVE  \E r \in rows' : r.item = item /\ r.sort < i
    BY <1>1, <1>5, <1>7 DEF RowsComplete
  <2>1. PICK r \in rows : r.item = item /\ r.sort < i
    BY DEF TableInv, RowsComplete
  <2> QED
    BY <1>2, <2>1
<1>10. OneRow'
  BY <1>2 DEF OneRow
<1> QED
  BY <1>4, <1>8, <1>9, <1>10 DEF TableInv

\* Completing a filter deletes the rows it has not marked, and only those.
LEMMA CompleteKeeps ==
    ASSUME TypeInv, TableInv, CompleteFilter
    PROVE  TypeInv' /\ TableInv'
<1> DEFINE n == Len(filters)
<1>1. /\ rows' = {r \in rows : r.filter} /\ phase = "filter" /\ phase' = "ready"
      /\ UNCHANGED <<schema, facts, sortOrdinal, searches, filters>>
  BY DEF CompleteFilter, catalog
<1>2. n \in Nat \ {0}
  BY <1>1, EmptySeq DEF TypeInv
<1>3. TypeInv'
  <2>1. rows' \subseteq rows /\ IsFiniteSet(rows')
    BY <1>1, FS_Subset DEF TypeInv
  <2> QED
    BY <1>1, <2>1 DEF TypeInv
<1>4. \A b, item : Finds(b, item)' <=> Finds(b, item)
  BY <1>1, SameCatalogFindsTheSame DEF catalog
<1>5. Applied = n - 1 /\ Applied' = n
  BY <1>1 DEF Applied
<1>6. \A item : Passed(item, Applied)' <=>
                    Passed(item, Applied) /\ \E b \in filters[n] : Finds(b, item)
  BY <1>1, <1>2, <1>4, <1>5 DEF Passed
<1>7. \A r \in rows : r.filter <=> \E b \in filters[n] : Finds(b, r.item)
  BY <1>1 DEF TableInv, RowsSound
<1>8. RowsSound'
  <2> SUFFICES ASSUME NEW q \in rows'
               PROVE  /\ q.sort + 1 \in DOMAIN searches
                      /\ q.by = searches[q.sort + 1] /\ Finds(q.by, q.item)
                      /\ Passed(q.item, Applied)
                      /\ \E b \in filters[n] : Finds(b, q.item)
    BY <1>1, <1>4, <1>6 DEF RowsSound
  <2> QED
    BY <1>1, <1>7 DEF TableInv, RowsSound
<1>9. RowsComplete'
  <2> SUFFICES ASSUME NEW item \in DOMAIN PackageOf, NEW i \in DOMAIN searches, NEW b \in Filters,
                      searches[i] = b, Finds(b, item), Passed(item, Applied),
                      \E c \in filters[n] : Finds(c, item)
               PROVE  \E r \in rows' : r.item = item /\ r.sort < i
    BY <1>1, <1>4, <1>6 DEF RowsComplete
  <2>1. PICK r \in rows : r.item = item /\ r.sort < i
    BY DEF TableInv, RowsComplete
  <2> QED
    BY <1>1, <1>7, <2>1
<1>10. OneRow'
  BY <1>1 DEF TableInv, OneRow
<1> QED
  BY <1>3, <1>8, <1>9, <1>10 DEF TableInv

\* The answer is a list of the rows, which stay as they are.
LEMMA GetKeeps ==
    ASSUME TypeInv, TableInv, NEW limit \in Limits, GetSearchResults(limit)
    PROVE  TypeInv' /\ TableInv' /\ ResultInv'
<1>1. /\ phase = "ready" /\ phase' = "done"
      /\ UNCHANGED <<schema, facts, rows, sortOrdinal, searches, filters>>
  BY DEF GetSearchResults, catalog
<1>2. TypeInv'
  BY <1>1 DEF TypeInv
<1>3. \A b, item : Finds(b, item)' <=> Finds(b, item)
  BY <1>1, SameCatalogFindsTheSame DEF catalog
<1>4. \A item : Passed(item, Applied)' <=> Passed(item, Applied)
  BY <1>1, <1>3 DEF Passed, Applied
<1>5. RowsSound' /\ RowsComplete' /\ OneRow'
  BY <1>1, <1>3, <1>4 DEF TableInv, RowsSound, RowsComplete, OneRow
<1>6. ResultInv'
  <2>1. Groups' = Groups
    BY <1>1 DEF Groups, BestRows
  <2> DEFINE Cut(found) == IF limit > 0 /\ limit < Len(found) THEN limit ELSE Len(found)
  <2>2. PICK group \in Groups :
           \E found \in SetToSeqs(group) :
              /\ \A i, j \in DOMAIN found : i < j => found[i].sort <= found[j].sort
              /\ result' = [limit |-> limit, matches |-> SubSeq(found, 1, Cut(found)),
                            truncated |-> Cut(found) < Len(found)]
    BY DEF GetSearchResults
  <2>3. PICK found \in SetToSeqs(group) :
           /\ \A i, j \in DOMAIN found : i < j => found[i].sort <= found[j].sort
           /\ result' = [limit |-> limit, matches |-> SubSeq(found, 1, Cut(found)),
                         truncated |-> Cut(found) < Len(found)]
    BY <2>2
  <2>4. Answered(found, Cut(found), limit)'
    BY <2>1, <2>3 DEF Answered
  <2> QED
    BY <1>1, <2>4 DEF ResultInv
<1> QED
  BY <1>2, <1>5, <1>6 DEF TableInv

\* Every step keeps the table and the answer right.
LEMMA NextTable ==
    ASSUME Catalogued
    PROVE  TypeInv /\ TableInv /\ ResultInv /\ [SearchNext]_table => TypeInv' /\ TableInv' /\ ResultInv'
<1> SUFFICES ASSUME TypeInv, TableInv, ResultInv, [SearchNext]_table
             PROVE  TypeInv' /\ TableInv' /\ ResultInv'
  OBVIOUS
<1>1. ASSUME NEW by \in Filters, SearchOnField(by) \/ FilterOnField(by)
      PROVE  TypeInv' /\ TableInv' /\ ResultInv'
  <2>1. phase' # "done"
    BY <1>1 DEF SearchOnField, FilterOnField
  <2> QED
    BY <1>1, <2>1, SearchKeeps, FilterKeeps DEF ResultInv
<1>2. ASSUME RemoveDuplicateRows \/ PrepareToFilter \/ CompleteFilter
      PROVE  TypeInv' /\ TableInv' /\ ResultInv'
  <2>1. phase' # "done"
    BY <1>2 DEF RemoveDuplicateRows, PrepareToFilter, CompleteFilter
  <2> QED
    BY <1>2, <2>1, RemoveDuplicatesKeeps, PrepareKeeps, CompleteKeeps DEF ResultInv
<1>3. ASSUME NEW limit \in Limits, GetSearchResults(limit)
      PROVE  TypeInv' /\ TableInv' /\ ResultInv'
  BY <1>3, GetKeeps
<1>4. CASE UNCHANGED table
  <2>1. UNCHANGED <<schema, facts, rows, sortOrdinal, phase, searches, filters, result>>
    BY <1>4 DEF table
  <2>2. TypeInv'
    BY <2>1 DEF TypeInv
  <2>3. \A b, item : Finds(b, item)' <=> Finds(b, item)
    BY <2>1, SameCatalogFindsTheSame DEF catalog
  <2>4. \A item : Passed(item, Applied)' <=> Passed(item, Applied)
    BY <2>1, <2>3 DEF Passed, Applied
  <2>5. TableInv'
    BY <2>1, <2>3, <2>4 DEF TableInv, RowsSound, RowsComplete, OneRow
  <2>6. ResultInv'
    BY <2>1 DEF ResultInv, Answered, Groups, BestRows
  <2> QED
    BY <2>2, <2>5, <2>6
<1> QED
  BY <1>1, <1>2, <1>3, <1>4 DEF SearchNext

\* What the table holds at each step of a search.
LEMMA TableInvariant ==
    ASSUME Catalogued
    PROVE  SearchSpec => [](TypeInv /\ TableInv /\ ResultInv)
<1>1. TypeInv /\ TableInv /\ ResultInv /\ [SearchNext]_table => (TypeInv /\ TableInv /\ ResultInv)'
  BY Catalogued, NextTable
<1> QED
  BY <1>1, InitTable, PTL DEF SearchSpec

-----------------------------------------------------------------------------
(* The answer *)

\* The rows that are listed: of each package that has rows the best one.
LEMMA GroupsAreBest ==
    ASSUME TypeInv, TableInv, phase # "search", NEW group \in Groups
    PROVE  /\ group \subseteq rows /\ IsFiniteSet(group)
           /\ \A r \in rows : \E k \in group : Owner(k.item) = Owner(r.item) /\ k.sort <= r.sort
           /\ \A k, l \in group : Owner(k.item) = Owner(l.item) => k = l
<1>1. CASE schema[1] = 1
  <2>1. group \in BestRows(PackageOf)
    BY <1>1 DEF Groups
  <2>2. group \subseteq rows
    BY <2>1 DEF BestRows
  <2>3. IsFiniteSet(group)
    BY <2>2, FS_Subset DEF TypeInv
  <2> QED
    BY <1>1, <2>1, <2>2, <2>3 DEF BestRows, Owner
<1>2. CASE schema[1] # 1
  <2>1. group = rows
    BY <1>2 DEF Groups
  <2>2. \A r \in rows : r.sort \in Nat
    BY DEF TypeInv, Cells
  <2>3. \A item : Owner(item) = item
    BY <1>2 DEF Owner
  <2>4. \A r \in rows : r.sort <= r.sort
    BY <2>2
  <2> QED
    BY <2>1, <2>3, <2>4 DEF TypeInv, TableInv, OneRow
<1> QED
  BY <1>1, <1>2

\* At the end an item is wanted if and only if it has a row, and then that row is
\* of the first search that found it.
LEMMA WantedHaveRows ==
    ASSUME Catalogued, TypeInv, TableInv, phase = "done"
    PROVE  /\ \A r \in rows : r.item \in Wanted
           /\ \A item \in Wanted : \E r \in rows : r.item = item
           /\ \A i \in DOMAIN searches : \A f \in Selected(searches[i]) :
                 f.item \in Wanted => \E r \in rows : r.item = f.item /\ r.sort < i
<1>1. Applied = Len(filters) /\ DOMAIN filters = 1..Len(filters)
  BY LenProperties DEF Applied, TypeInv
<1>2. \A i \in DOMAIN searches : searches[i] \in Filters /\ i \in Nat
  BY LenProperties DEF TypeInv
<1>3. \A by : \A f \in Selected(by) : f \in facts /\ f.item \in DOMAIN PackageOf
  BY DEF Selected, TypeInv, Catalogued
<1>4. Wanted = {item \in {f.item : f \in facts} :
                   /\ \E i \in DOMAIN searches : Finds(searches[i], item)
                   /\ Passed(item, Applied)}
  BY <1>1 DEF Wanted, Finds, Passed
<1>5. ASSUME NEW r \in rows PROVE r.item \in Wanted
  <2>1. /\ r.sort + 1 \in DOMAIN searches /\ r.by = searches[r.sort + 1]
        /\ Finds(r.by, r.item) /\ Passed(r.item, Applied)
    BY DEF TableInv, RowsSound
  <2>2. r.item \in {f.item : f \in facts}
    BY <1>3, <2>1 DEF Finds
  <2> QED
    BY <1>4, <2>1, <2>2
<1>6. ASSUME NEW i \in DOMAIN searches, NEW item \in Wanted, Finds(searches[i], item)
      PROVE  \E r \in rows : r.item = item /\ r.sort < i
  <2>1. item \in DOMAIN PackageOf
    BY <1>3, <1>6 DEF Finds
  <2>2. Passed(item, Applied)
    BY <1>4
  <2> QED
    BY <1>2, <1>6, <2>1, <2>2 DEF TableInv, RowsComplete
<1>7. \A item \in Wanted : \E r \in rows : r.item = item
  BY <1>4, <1>6
<1>8. ASSUME NEW i \in DOMAIN searches, NEW f \in Selected(searches[i]), f.item \in Wanted
      PROVE  \E r \in rows : r.item = f.item /\ r.sort < i
  BY <1>6, <1>8 DEF Finds
<1> QED
  BY <1>5, <1>7, <1>8

\* The rank of a package that is listed is that of its row.
LEMMA RankOfRow ==
    ASSUME Catalogued, TypeInv, TableInv, phase = "done", NEW group \in Groups, NEW m \in group
    PROVE  Rank(Owner(m.item)) = m.sort + 1
<1> DEFINE first(k, p) == /\ \E f \in Selected(searches[k]) : f.item \in Wanted /\ Owner(f.item) = p
                          /\ \A j \in 1..k - 1 :
                                ~\E f \in Selected(searches[j]) : f.item \in Wanted /\ Owner(f.item) = p
           p == Owner(m.item)
<1>1. /\ group \subseteq rows
      /\ \A r \in rows : \E k \in group : Owner(k.item) = Owner(r.item) /\ k.sort <= r.sort
      /\ \A k, l \in group : Owner(k.item) = Owner(l.item) => k = l
  BY GroupsAreBest
<1>2. DOMAIN searches = 1..Len(searches) /\ Len(searches) \in Nat
  BY LenProperties DEF TypeInv
<1>3. \A r \in rows : r.sort \in Nat
  BY DEF TypeInv, Cells
<1>4. /\ m.sort + 1 \in DOMAIN searches
      /\ \E f \in Selected(searches[m.sort + 1]) : f.item \in Wanted /\ Owner(f.item) = p
  <2>1. m \in rows /\ m.item \in Wanted
    BY <1>1, WantedHaveRows
  <2> QED
    BY <2>1 DEF TableInv, RowsSound, Finds
<1>5. ASSUME NEW j \in DOMAIN searches, NEW f \in Selected(searches[j]),
             f.item \in Wanted, Owner(f.item) = p
      PROVE  m.sort < j
  <2>1. PICK r \in rows : r.item = f.item /\ r.sort < j
    BY <1>5, WantedHaveRows
  <2>2. PICK k \in group : Owner(k.item) = Owner(r.item) /\ k.sort <= r.sort
    BY <1>1
  <2>3. k = m
    BY <1>1, <1>5, <2>1, <2>2
  <2> QED
    BY <1>1, <1>2, <1>3, <2>1, <2>2, <2>3
<1> HIDE DEF p
<1>6. first(m.sort + 1, p)
  <2>1. m.sort \in Nat
    BY <1>1, <1>3
  <2>2. \A j \in 1..(m.sort + 1) - 1 : j \in DOMAIN searches /\ ~(m.sort < j)
    BY <1>2, <1>4, <2>1
  <2> QED
    BY <1>4, <1>5, <2>2
<1>7. ASSUME NEW k \in DOMAIN searches, first(k, p) PROVE k = m.sort + 1
  <2>1. k \in Nat /\ m.sort \in Nat /\ m.sort < k
    BY <1>1, <1>2, <1>3, <1>5, <1>7
  <2>2. ~(m.sort + 1 \in 1..k - 1)
    BY <1>4, <1>7
  <2> QED
    BY <2>1, <2>2
<1>8. Rank(p) = CHOOSE k \in DOMAIN searches : first(k, p)
  BY DEF Rank
<1> HIDE DEF first
<1> QED
  BY <1>4, <1>6, <1>7, <1>8 DEF p

\* The positions of a list are as many as it is long.
LEMMA IntervalSize ==
    ASSUME NEW n \in Nat
    PROVE  IsFiniteSet(1..n) /\ Cardinality(1..n) = n
BY FS_Interval

\* A list of a finite set has each of its members at one place.
LEMMA ListsEnumerate ==
    ASSUME NEW S, IsFiniteSet(S), NEW list \in SetToSeqs(S)
    PROVE  /\ list \in Seq(S) /\ DOMAIN list = 1..Len(list) /\ Len(list) \in Nat
           /\ \A i, j \in DOMAIN list : list[i] = list[j] => i = j
           /\ \A x \in S : \E i \in DOMAIN list : list[i] = x
<1> DEFINE n == Cardinality(S)
<1>1. n \in Nat
  BY FS_CardinalityType
<1>2. list \in [1..n -> S] /\ \A i, j \in 1..n : i # j => list[i] # list[j]
  BY DEF SetToSeqs
<1> HIDE DEF n
<1>3. list \in Seq(S) /\ Len(list) = n /\ DOMAIN list = 1..n
  BY <1>1, <1>2
<1>4. list \in Injection(1..n, S)
  BY <1>2 DEF Injection, IsInjective
<1>5. IsFiniteSet(1..n) /\ Cardinality(1..n) = n
  BY <1>1, IntervalSize
<1>6. list \in Surjection(1..n, S)
  BY <1>4, <1>5, FS_Injection DEF n
<1> QED
  BY <1>1, <1>2, <1>3, <1>6 DEF Surjection

\* The answer is the first n of a list with one row of each wanted package, by rank.
Listing(found, n) ==
    /\ Len(found) \in Nat /\ n \in 0..Len(found)
    /\ \A i \in 1..Len(found) :
          found[i] \in rows /\ Rank(Owner(found[i].item)) = found[i].sort + 1
    /\ \A i, j \in 1..Len(found) : i < j => found[i].sort <= found[j].sort
    /\ \A i, j \in 1..Len(found) : Owner(found[i].item) = Owner(found[j].item) => i = j
    /\ {Owner(found[i].item) : i \in 1..Len(found)} = {Owner(item) : item \in Wanted}
    /\ Len(result.matches) = n /\ DOMAIN result.matches = 1..n
    /\ \A i \in 1..n : result.matches[i] = found[i]
    /\ result.truncated <=> n < Len(found)
    /\ result.limit > 0 => n <= result.limit
    /\ n < Len(found) => n = result.limit
    /\ result.limit = 0 => n = Len(found)

\* How many rows a limit leaves.
LEMMA CutAtTheLimit ==
    ASSUME NEW limit \in Nat, NEW length \in Nat, NEW n,
           n = IF limit > 0 /\ limit < length THEN limit ELSE length
    PROVE  /\ n \in 0..length
           /\ limit > 0 => n <= limit
           /\ n < length => n = limit
           /\ limit = 0 => n = length
OBVIOUS

\* What a search answers is a listing.
LEMMA AnswersAreListings ==
    ASSUME Catalogued, Counted, TypeInv, TableInv, ResultInv, phase = "done"
    PROVE  \E found, n : Listing(found, n)
<1>1. PICK limit \in Limits : \E f, k : Answered(f, k, limit)
  BY DEF ResultInv
<1>2. PICK found, n : Answered(found, n, limit)
  BY <1>1
<1>3. PICK group \in Groups : found \in SetToSeqs(group)
  BY <1>2 DEF Answered
<1>4. /\ group \subseteq rows /\ IsFiniteSet(group)
      /\ \A r \in rows : \E k \in group : Owner(k.item) = Owner(r.item) /\ k.sort <= r.sort
      /\ \A k, l \in group : Owner(k.item) = Owner(l.item) => k = l
  BY GroupsAreBest
<1>5. /\ found \in Seq(group) /\ DOMAIN found = 1..Len(found) /\ Len(found) \in Nat
      /\ \A i, j \in 1..Len(found) : found[i] = found[j] => i = j
      /\ \A x \in group : \E i \in 1..Len(found) : found[i] = x
  BY <1>3, <1>4, ListsEnumerate
<1>6. limit \in Nat
  BY DEF Counted
<1>7. n = IF limit > 0 /\ limit < Len(found) THEN limit ELSE Len(found)
  BY <1>2 DEF Answered
<1>8. /\ n \in 0..Len(found)
      /\ limit > 0 => n <= limit
      /\ n < Len(found) => n = limit
      /\ limit = 0 => n = Len(found)
  <2>1. Len(found) \in Nat
    BY <1>5
  <2> QED
    BY <1>6, <1>7, <2>1, CutAtTheLimit
<1>9. result = [limit |-> limit, matches |-> SubSeq(found, 1, n), truncated |-> n < Len(found)]
  BY <1>2 DEF Answered
<1>10. result.limit = limit /\ result.matches = SubSeq(found, 1, n) /\ (result.truncated <=> n < Len(found))
  BY <1>9
<1>11. /\ Len(result.matches) = n /\ DOMAIN result.matches = 1..n
       /\ \A i \in 1..n : result.matches[i] = found[i]
  BY <1>5, <1>8, <1>10
<1>12. \A i \in 1..Len(found) : found[i] \in group
  BY <1>5
<1>13. \A i \in 1..Len(found) : found[i] \in rows /\ Rank(Owner(found[i].item)) = found[i].sort + 1
  BY <1>4, <1>12, RankOfRow
<1>14. \A i, j \in 1..Len(found) : i < j => found[i].sort <= found[j].sort
  BY <1>2, <1>5 DEF Answered
<1>15. \A i, j \in 1..Len(found) : Owner(found[i].item) = Owner(found[j].item) => i = j
  BY <1>4, <1>5, <1>12
<1>16. {Owner(found[i].item) : i \in 1..Len(found)} = {Owner(item) : item \in Wanted}
  <2>1. ASSUME NEW i \in 1..Len(found) PROVE found[i].item \in Wanted
    BY <1>4, <1>12, WantedHaveRows
  <2>2. ASSUME NEW item \in Wanted
        PROVE  \E i \in 1..Len(found) : Owner(found[i].item) = Owner(item)
    <3>1. PICK r \in rows : r.item = item
      BY WantedHaveRows
    <3>2. PICK k \in group : Owner(k.item) = Owner(r.item)
      BY <1>4
    <3>3. PICK i \in 1..Len(found) : found[i] = k
      BY <1>5
    <3> QED
      BY <3>1, <3>2, <3>3
  <2> QED
    BY <2>1, <2>2
<1>17. Listing(found, n)
  BY <1>5, <1>8, <1>10, <1>11, <1>13, <1>14, <1>15, <1>16 DEF Listing
<1> QED
  BY <1>17

\* A listing names the packages of its rows; uncut it names the wanted ones, and cut
\* it leaves a wanted one out.
LEMMA ListingsListTheWanted ==
    ASSUME TypeInv, NEW found, NEW n, Listing(found, n)
    PROVE  /\ ListedBy(result.matches) = {Owner(found[i].item) : i \in 1..n}
           /\ n = Len(found) => ListedBy(result.matches) = {Owner(item) : item \in Wanted}
           /\ n < Len(found) => /\ Owner(found[n + 1].item) \notin ListedBy(result.matches)
                                /\ Owner(found[n + 1].item) \in {Owner(item) : item \in Wanted}
<1>1. /\ Len(found) \in Nat /\ n \in Nat /\ n <= Len(found)
      /\ DOMAIN result.matches = 1..n /\ \A i \in 1..n : result.matches[i] = found[i]
      /\ \A i, j \in 1..Len(found) : Owner(found[i].item) = Owner(found[j].item) => i = j
      /\ {Owner(found[i].item) : i \in 1..Len(found)} = {Owner(item) : item \in Wanted}
  <2>1. Len(found) \in Nat /\ n \in 0..Len(found)
    BY DEF Listing
  <2>2. n \in Nat /\ n <= Len(found)
    BY <2>1
  <2> QED
    BY <2>1, <2>2, Zenon DEF Listing
<1>2. ListedBy(result.matches) = {Owner(found[i].item) : i \in 1..n}
  BY <1>1 DEF ListedBy
<1>3. ASSUME n < Len(found)
      PROVE  /\ Owner(found[n + 1].item) \notin {Owner(found[i].item) : i \in 1..n}
             /\ Owner(found[n + 1].item) \in {Owner(found[i].item) : i \in 1..Len(found)}
  <2>1. n + 1 \in 1..Len(found) /\ \A i \in 1..n : i \in 1..Len(found) /\ i # n + 1
    BY <1>1, <1>3
  <2> QED
    BY <1>1, <2>1
<1> QED
  BY <1>1, <1>2, <1>3

\* Whatever was marked, deleted and grouped on the way, a search without a limit
\* lists each package with a wanted item, no other, and none twice.
THEOREM SearchFindsTheWanted ==
    ASSUME Catalogued, Counted
    PROVE  SearchSpec => []ResultsAreTheIntersection
<1>1. TypeInv /\ TableInv /\ ResultInv => ResultsAreTheIntersection
  <2> SUFFICES ASSUME TypeInv, TableInv, ResultInv, phase = "done", result.limit = 0
               PROVE  /\ ListedBy(result.matches) = {Owner(item) : item \in Wanted}
                      /\ Len(result.matches) = Cardinality(ListedBy(result.matches))
    BY DEF ResultsAreTheIntersection
  <2>1. PICK found, n : Listing(found, n)
    BY Catalogued, Counted, AnswersAreListings
  <2>2. n = Len(found) /\ n \in Nat /\ Len(result.matches) = n
    BY <2>1 DEF Listing
  <2>3. /\ ListedBy(result.matches) = {Owner(found[i].item) : i \in 1..n}
        /\ ListedBy(result.matches) = {Owner(item) : item \in Wanted}
    BY <2>1, <2>2, ListingsListTheWanted
  <2>4. Cardinality(ListedBy(result.matches)) = n
    <3> DEFINE owner == [i \in 1..n |-> Owner(found[i].item)]
    <3>1. \A i, j \in 1..n : owner[i] = owner[j] => i = j
      BY <2>1, <2>2 DEF Listing
    <3>2. owner \in Bijection(1..n, ListedBy(result.matches))
      BY <2>3, <3>1 DEF Bijection, Injection, Surjection, IsInjective
    <3>3. IsFiniteSet(1..n) /\ Cardinality(1..n) = n
      <4>1. n \in Nat
        BY <2>2
      <4> QED
        BY <4>1, IntervalSize
    <3> QED
      BY <3>2, <3>3, FS_Bijection DEF ExistsBijection
  <2> QED
    BY <2>2, <2>3, <2>4
<1> QED
  BY <1>1, Catalogued, TableInvariant, PTL

\* The match that is reported for a package is its best one, of the first search
\* that found a wanted item of it.
THEOREM BestMatchIsReported ==
    ASSUME Catalogued, Counted
    PROVE  SearchSpec => []EarliestMatchWins
<1>1. TypeInv /\ TableInv /\ ResultInv => EarliestMatchWins
  <2> SUFFICES ASSUME TypeInv, TableInv, ResultInv, phase = "done", NEW i \in DOMAIN result.matches
               PROVE  /\ result.matches[i].by = searches[Rank(Owner(result.matches[i].item))]
                      /\ result.matches[i].item \in Wanted
    BY DEF EarliestMatchWins
  <2>1. PICK found, n : Listing(found, n)
    BY Catalogued, Counted, AnswersAreListings
  <2>2. i \in 1..Len(found) /\ result.matches[i] = found[i]
    BY <2>1 DEF Listing
  <2>3. found[i] \in rows /\ Rank(Owner(found[i].item)) = found[i].sort + 1
    BY <2>1, <2>2 DEF Listing
  <2>4. found[i].by = searches[found[i].sort + 1]
    BY <2>3 DEF TableInv, RowsSound
  <2>5. found[i].item \in Wanted
    BY Catalogued, <2>3, WantedHaveRows
  <2> QED
    BY <2>2, <2>3, <2>4, <2>5
<1> QED
  BY <1>1, Catalogued, TableInvariant, PTL

\* A limit cuts off the worst matches, and the caller is told if and only if
\* something was cut off.
THEOREM LimitsCutTheWorst ==
    ASSUME Catalogued, Counted
    PROVE  SearchSpec => []LimitKeepsTheBest
<1>1. TypeInv /\ TableInv /\ ResultInv => LimitKeepsTheBest
  <2> DEFINE wanted == {Owner(item) : item \in Wanted}
             shown == ListedBy(result.matches)
  <2> SUFFICES ASSUME TypeInv, TableInv, ResultInv, phase = "done"
               PROVE  /\ result.truncated <=> shown # wanted
                      /\ result.limit > 0 => Len(result.matches) <= result.limit
                      /\ \A p \in shown, q \in wanted \ shown : Rank(p) <= Rank(q)
                      /\ result.truncated => Len(result.matches) = result.limit
    BY DEF LimitKeepsTheBest
  <2>1. PICK found, n : Listing(found, n)
    BY Catalogued, Counted, AnswersAreListings
  <2>2. /\ Len(found) \in Nat /\ n \in Nat /\ n <= Len(found) /\ Len(result.matches) = n
        /\ result.truncated <=> n < Len(found)
        /\ result.limit > 0 => n <= result.limit
        /\ n < Len(found) => n = result.limit
    BY <2>1 DEF Listing
  <2>3. /\ shown = {Owner(found[i].item) : i \in 1..n}
        /\ n = Len(found) => shown = wanted
        /\ n < Len(found) => shown # wanted
    BY <2>1, ListingsListTheWanted
  <2>4. ASSUME NEW p \in shown, NEW q \in wanted \ shown PROVE Rank(p) <= Rank(q)
    <3>1. PICK i \in 1..n : p = Owner(found[i].item)
      BY <2>3
    <3>2. PICK j \in 1..Len(found) : q = Owner(found[j].item)
      BY <2>1 DEF Listing
    <3>3. j \notin 1..n
      BY <2>3, <3>2
    <3>4. i \in 1..Len(found) /\ i < j
      BY <2>2, <3>3
    <3>5. found[i].sort <= found[j].sort
      BY <2>1, <3>4 DEF Listing
    <3>6. Rank(p) = found[i].sort + 1 /\ Rank(q) = found[j].sort + 1
      BY <2>1, <3>1, <3>2, <3>4 DEF Listing
    <3>7. found[i] \in rows /\ found[j] \in rows
      BY <2>1, <3>4 DEF Listing
    <3>8. found[i].sort \in Nat /\ found[j].sort \in Nat
      BY <3>7 DEF TypeInv, Cells
    <3> QED
      BY <3>5, <3>6, <3>8
  <2> HIDE DEF shown, wanted
  <2>5. result.truncated <=> shown # wanted
    <3>1. n < Len(found) \/ n = Len(found)
      BY <2>2
    <3>2. ~(n < Len(found) /\ n = Len(found))
      BY <2>2
    <3> QED
      BY <2>2, <2>3, <3>1, <3>2, Zenon
  <2>6. result.truncated => Len(result.matches) = result.limit
    BY <2>2, Zenon
  <2>7. result.limit > 0 => Len(result.matches) <= result.limit
    BY <2>2, Zenon
  <2> QED
    BY <2>4, <2>5, <2>6, <2>7, Zenon
<1> QED
  BY <1>1, Catalogued, TableInvariant, PTL
=============================================================================
