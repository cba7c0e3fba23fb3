--------------------------- MODULE SearchResults ---------------------------
(***************************************************************************)
(* The temporary table a search of a catalog is computed in                *)
(* (SearchResultsTable).  A search first fills the table, one SearchOnField *)
(* for each field and kind of match from the best to the worst, and keeps  *)
(* the best row of each item; then each filter marks the rows it keeps and *)
(* the others are deleted; what is left is the result, best match first,   *)
(* cut off at a limit.  In a catalog with schema 1.x an item is a manifest *)
(* and the result lists packages; with schema 2.0 it is a package.         *)
(*                                                                         *)
(* The caller, Interface::Search of winget-cli, is external: it calls the  *)
(* operations in this order.  A value is a tuple of words (a pair for      *)
(* NormalizedNameAndPublisher, one word for the other fields), a word is a *)
(* sequence of letters.                                                    *)
(***************************************************************************)
EXTENDS Integers, FiniteSets, Sequences, SequencesExt

CONSTANTS
    Schemas,        \* of the catalogs: <<1, 0>>, <<1, 2>>, <<2, 0>>, ...
    Facts,          \* what a catalog may say: [item, field, value]
    PackageOf,      \* the package of a manifest
    Filters,        \* what may be asked: [field, type, value]
    Limits,
    MaxSearches, MaxFilters  \* bounds of the model

VARIABLES
    schema, facts,
    rows,           \* [item, by, value, sort, filter]: `by` is the match filter
    sortOrdinal,
    phase,
    searches,       \* the searches made, in their order (history)
    filters,        \* the match filters of each filter made (history)
    result          \* [limit, matches, truncated]

table == <<schema, facts, rows, sortOrdinal, phase, searches, filters, result>>
catalog == <<schema, facts>>

NoResult == [limit |-> 0, matches |-> <<>>, truncated |-> FALSE]

SearchInit ==
    /\ schema \in Schemas /\ facts \in SUBSET Facts
    /\ rows = {} /\ sortOrdinal = 0 /\ phase = "search"
    /\ searches = <<>> /\ filters = <<>> /\ result = NoResult

-----------------------------------------------------------------------------
(* What a statement selects *)

FieldsOf(version) ==
    {"id", "name", "moniker", "tag", "command"}
    \cup (IF version[1] = 2 \/ version[2] >= 1 THEN {"packageFamilyName", "productCode"} ELSE {})
    \cup (IF version[1] = 2 \/ version[2] >= 2 THEN {"normalizedNameAndPublisher"} ELSE {})
    \cup (IF version[1] = 2 \/ version[2] >= 6 THEN {"upgradeCode"} ELSE {})

BuildSearchStatement(by) == by.field \in FieldsOf(schema)

Folded(word) == [i \in DOMAIN word |-> IF word[i] = "A" THEN "a" ELSE word[i]]

\* Types that no one binds a value for compare with NULL, and match nothing.
WordMatches(type, stored, wanted) ==
    \/ type = "exact" /\ stored = wanted
    \/ type = "caseInsensitive" /\ Folded(stored) = Folded(wanted)
    \/ type = "startsWith" /\ IsPrefix(Folded(wanted), Folded(stored))
    \/ /\ type = "substring"
       /\ \E i \in 0..Len(stored) : IsPrefix(Folded(wanted), SubSeq(Folded(stored), i + 1, Len(stored)))

BindStatementForMatchType(by, stored) ==
    \A i \in DOMAIN stored : WordMatches(by.type, stored[i], by.value[i])

Selected(by) ==
    {f \in facts : /\ BuildSearchStatement(by)
                   /\ f.field = by.field
                   /\ BindStatementForMatchType(by, f.value)}

-----------------------------------------------------------------------------
(* Operations *)

\* A field that the schema does not have uses up an ordinal all the same.
SearchOnField(by) ==
    /\ phase = "search" /\ Len(searches) < MaxSearches
    /\ rows' = rows \cup {[item |-> f.item, by |-> by, value |-> f.value,
                           sort |-> sortOrdinal, filter |-> FALSE] : f \in Selected(by)}
    /\ sortOrdinal' = sortOrdinal + 1
    /\ searches' = Append(searches, by)
    /\ UNCHANGED <<catalog, phase, filters, result>>

\* One row for each value of `group` (of an item), with the smallest ordinal;
\* which one, when a search has found several values of the item, is up to SQLite.
BestRows(group) ==
    {kept \in SUBSET rows :
        /\ \A r \in rows : \E k \in kept : group[k.item] = group[r.item] /\ k.sort <= r.sort
        /\ \A k, l \in kept : group[k.item] = group[l.item] => k = l}

Itself == [item \in DOMAIN PackageOf |-> item]

RemoveDuplicateRows_Bug ==      \* keeps the last match of an item
    /\ phase = "search" /\ searches # <<>>
    /\ rows' = {r \in rows : \A o \in rows : o.item = r.item => o.sort <= r.sort}
    /\ phase' = "ready"
    /\ UNCHANGED <<catalog, sortOrdinal, searches, filters, result>>

RemoveDuplicateRows ==
    /\ phase = "search" /\ searches # <<>>
    /\ rows' \in BestRows(Itself)
    /\ phase' = "ready"
    /\ UNCHANGED <<catalog, sortOrdinal, searches, filters, result>>

PrepareToFilter_Bug ==          \* the marks of the last filter are still there
    /\ phase = "ready" /\ Len(filters) < MaxFilters
    /\ phase' = "filter" /\ filters' = Append(filters, {})
    /\ UNCHANGED <<catalog, rows, sortOrdinal, searches, result>>

PrepareToFilter ==
    /\ phase = "ready" /\ Len(filters) < MaxFilters
    /\ rows' = {[r EXCEPT !.filter = FALSE] : r \in rows}
    /\ phase' = "filter" /\ filters' = Append(filters, {})
    /\ UNCHANGED <<catalog, sortOrdinal, searches, result>>

FilterOnField(by) ==
    /\ phase = "filter"
    /\ rows' = {[r EXCEPT !.filter = @ \/ \E f \in Selected(by) : f.item = r.item] : r \in rows}
    /\ filters' = [filters EXCEPT ![Len(filters)] = @ \cup {by}]
    /\ UNCHANGED <<catalog, sortOrdinal, phase, searches, result>>

CompleteFilter ==
    /\ phase = "filter" /\ Last(filters) # {}
    /\ rows' = {r \in rows : r.filter}
    /\ phase' = "ready"
    /\ UNCHANGED <<catalog, sortOrdinal, searches, filters, result>>

\* Schema 1.x groups the manifests by package.
Groups == IF schema[1] = 1 THEN BestRows(PackageOf) ELSE {rows}

GetSearchResults_Bug(limit) ==  \* Truncated as soon as the limit is reached
    /\ phase = "ready"
    /\ \E group \in Groups : \E found \in SetToSeqs(group) :
          LET n == IF limit > 0 /\ limit < Len(found) THEN limit ELSE Len(found)
          IN  /\ \A i, j \in DOMAIN found : i < j => found[i].sort <= found[j].sort
              /\ result' = [limit |-> limit, matches |-> SubSeq(found, 1, n),
                            truncated |-> limit > 0 /\ n = limit]
    /\ phase' = "done"
    /\ UNCHANGED <<catalog, rows, sortOrdinal, searches, filters>>

GetSearchResults(limit) ==
    /\ phase = "ready"
    /\ \E group \in Groups : \E found \in SetToSeqs(group) :
          LET n == IF limit > 0 /\ limit < Len(found) THEN limit ELSE Len(found)
          IN  /\ \A i, j \in DOMAIN found : i < j => found[i].sort <= found[j].sort
              /\ result' = [limit |-> limit, matches |-> SubSeq(found, 1, n),
                            truncated |-> n < Len(found)]
    /\ phase' = "done"
    /\ UNCHANGED <<catalog, rows, sortOrdinal, searches, filters>>

SearchNext ==
    \/ \E by \in Filters : SearchOnField(by) \/ FilterOnField(by)
    \/ RemoveDuplicateRows \/ PrepareToFilter \/ CompleteFilter
    \/ \E limit \in Limits : GetSearchResults(limit)

SearchSpec == SearchInit /\ [][SearchNext]_table

-----------------------------------------------------------------------------
(* Properties *)

Owner(item) == IF schema[1] = 1 THEN PackageOf[item] ELSE item
ListedBy(matches) == {Owner(matches[i].item) : i \in DOMAIN matches}

\* The items a search is about: some search finds them, and each filter lets them
\* through, by any of its kinds of match.
Wanted ==
    LET Finds(by, item) == \E f \in Selected(by) : f.item = item
    IN  {item \in {f.item : f \in facts} :
            /\ \E i \in DOMAIN searches : Finds(searches[i], item)
            /\ \A i \in DOMAIN filters : \E by \in filters[i] : Finds(by, item)}

\* The rank of a package is that of the first search that finds a wanted item of it.
Rank(package) ==
    CHOOSE k \in DOMAIN searches :
        /\ \E f \in Selected(searches[k]) : f.item \in Wanted /\ Owner(f.item) = package
        /\ \A j \in 1..k - 1 :
              ~\E f \in Selected(searches[j]) : f.item \in Wanted /\ Owner(f.item) = package

\* A search without a limit lists each package with a wanted item, and no other
\* and none twice, whatever was marked, deleted and grouped on the way.
ResultsAreTheIntersection ==
    phase = "done" /\ result.limit = 0 =>
        /\ ListedBy(result.matches) = {Owner(item) : item \in Wanted}
        /\ Len(result.matches) = Cardinality(ListedBy(result.matches))

\* The match that is reported for a package is its best one, though rows of it
\* were deleted by the filters and merged by the grouping.
EarliestMatchWins ==
    phase = "done" =>
        \A i \in DOMAIN result.matches :
            LET m == result.matches[i]
            IN  m.by = searches[Rank(Owner(m.item))] /\ m.item \in Wanted

\* A limit cuts off the worst matches, and the caller is told if and only if
\* something was cut off.
LimitKeepsTheBest ==
    phase = "done" =>
        LET all == {Owner(item) : item \in Wanted}
            shown == ListedBy(result.matches)
        IN  /\ result.truncated <=> shown # all
            /\ result.limit > 0 => Len(result.matches) <= result.limit
            /\ \A p \in shown, q \in all \ shown : Rank(p) <= Rank(q)
            /\ result.truncated => Len(result.matches) = result.limit
=============================================================================
