------------------------------- MODULE Listing -------------------------------
(***************************************************************************)
(* The lists of the API, GET /v1/records and GET /v1/articles, and the     *)
(* pages of the web that show the latter (packages/api/src/cursor.ts,      *)
(* records.ts, articles.ts; packages/web/src/lib/articles.ts and           *)
(* api-client.ts).  A reader walks a list page by page, each page behind a *)
(* cursor that holds the place of the last entry seen, while entries are   *)
(* added, changed and removed.                                             *)
(***************************************************************************)
EXTENDS Integers, FiniteSets

CONSTANTS
    EntryIds,       \* _id of an entry, in their order
    Times,          \* createdAt; several entries may share a millisecond
    Marks,          \* what records can be asked for: a project, a type, a tag
    PageSizes,      \* page sizes a caller of the API asks for
    DefaultLimit,   \* page size when none is asked for: the web never does
    MaxChanges      \* bound: changes of the list during a walk

ASSUME ListingAssumption ==
    /\ EntryIds \cup Times \cup {DefaultLimit, MaxChanges} \subseteq Nat
    /\ IsFiniteSet(EntryIds) /\ PageSizes \subseteq Int
    /\ DefaultLimit > 0

VARIABLES
    collection, \* "records" or "articles"
    shelf,      \* the entries by id: [at, labels]; an article's label is its status
    walk,       \* [pc, query, cursor, seen, steady]: seen counts, per entry, the pages
                \* that showed it; steady entries have answered the query throughout
    changed     \* changes so far

listingVars == <<collection, shelf, walk, changed>>

Statuses == {"candidate", "draft", "published", "rejected"}
Labellings == IF collection = "records" THEN SUBSET Marks ELSE {{s} : s \in Statuses}
NoEntry == [at |-> -1]
Shelved == {i \in EntryIds : shelf[i] # NoEntry}

NoCursor == [kind |-> "none"]
Forged == [kind |-> "forged"]       \* no separator, no date or no id in it

-----------------------------------------------------------------------------
(* The API                                                                 *)

\* encodeCursor and decodeCursor: date and id survive the text as they are.
EncodeCursor(id) == [kind |-> "cursor", at |-> shelf[id].at, id |-> id]
InvalidCursor(cursor) == cursor.kind = "forged"

\* sort({createdAt: -1, _id: -1})
Newer(i, j) == \/ shelf[i].at > shelf[j].at
               \/ shelf[i].at = shelf[j].at /\ i > j

\* Mutant: createdAt alone, and entries of one millisecond are lost at a border.
Behind_TimeOnly(i, cursor) == cursor.kind = "cursor" => shelf[i].at < cursor.at

\* The filter's $or: entries behind the cursor's place.
Behind(i, cursor) ==
    cursor.kind = "cursor" =>
        \/ shelf[i].at < cursor.at
        \/ shelf[i].at = cursor.at /\ i < cursor.id

\* The records' filter asks for what the query names, across projects; the
\* articles' for the status, which the contract gives when nobody names one.
Matches(i, query) == i \in Shelved /\ query.labels \subseteq shelf[i].labels

Found(query, cursor) == {i \in EntryIds : Matches(i, query) /\ Behind(i, cursor)}

\* The first limit of them are shown; one entry more is read, to know whether
\* there is a next page behind the last that is shown.
PageOf(query, cursor) ==
    LET documents == Found(query, cursor)
        items == {i \in documents :
                     Cardinality({j \in documents : Newer(j, i)}) < query.limit}
        last == CHOOSE i \in items : \A j \in items \ {i} : Newer(j, i)
    IN  [items |-> items,
         nextCursor |-> IF Cardinality(documents) > query.limit THEN EncodeCursor(last)
                        ELSE NoCursor]

\* ListRecordsQuery, ListArticlesQuery
InvalidQuery(query) == query.limit < 1

-----------------------------------------------------------------------------
(* Who asks                                                                *)

\* parseQueueStatus: anything but the two states of the queue shows candidates.
ParseQueueStatus(raw) == IF raw \in {"candidate", "draft"} THEN raw ELSE "candidate"

\* publicArticlesPath names no status; queueArticlesPath always does.
PublicArticlesPath == [labels |-> {"published"}, limit |-> DefaultLimit]
QueueArticlesPath(status) == [labels |-> {status}, limit |-> DefaultLimit]

ListQueries ==
    IF collection = "records" THEN [labels : SUBSET Marks, limit : PageSizes \cup {DefaultLimit}]
    ELSE {PublicArticlesPath} \cup {QueueArticlesPath(ParseQueueStatus(raw)) : raw \in Statuses}

\* A walk starts at the top or, from a kept link, behind an entry.
Links == {NoCursor, Forged} \cup [kind : {"cursor"}, at : Times, id : EntryIds]

ListingInit ==
    /\ collection \in {"records", "articles"}
    /\ shelf \in [EntryIds -> {NoEntry} \cup [at : Times, labels : Labellings]]
    /\ walk = [pc |-> "off"]
    /\ changed = 0

-----------------------------------------------------------------------------
(* Actions                                                                 *)

OpenList ==
    /\ walk.pc = "off"
    /\ \E query \in ListQueries, cursor \in Links :
          walk' = [pc |-> "asking", query |-> query, cursor |-> cursor,
                   seen |-> [i \in EntryIds |-> 0],
                   steady |-> Found(query, cursor)]
    /\ UNCHANGED <<collection, shelf, changed>>

\* One request: 400 for what is malformed, else a page; without a next page the
\* walk is over.
ShowPage ==
    /\ walk.pc = "asking"
    /\ IF InvalidQuery(walk.query) \/ InvalidCursor(walk.cursor)
       THEN walk' = [walk EXCEPT !.pc = "refused"]
       ELSE LET page == PageOf(walk.query, walk.cursor)
            IN  walk' = [walk EXCEPT
                    !.seen = [i \in EntryIds |-> @[i] + IF i \in page.items THEN 1 ELSE 0],
                    !.cursor = page.nextCursor,
                    !.pc = IF page.nextCursor = NoCursor THEN "over" ELSE "showing"]
    /\ UNCHANGED <<collection, shelf, changed>>

\* core-api cannot be reached: the page shows the failure and can be reloaded.
LosePage ==
    /\ walk.pc = "asking"
    /\ walk' = [walk EXCEPT !.pc = "showing"]
    /\ UNCHANGED <<collection, shelf, changed>>

FollowLink ==
    /\ walk.pc = "showing"
    /\ walk' = [walk EXCEPT !.pc = "asking"]
    /\ UNCHANGED <<collection, shelf, changed>>

Change(id, entry) ==
    /\ changed < MaxChanges
    /\ changed' = changed + 1
    /\ shelf' = [shelf EXCEPT ![id] = entry]
    /\ walk' = IF walk.pc = "off" \/ (entry # NoEntry /\ walk.query.labels \subseteq entry.labels)
               THEN walk ELSE [walk EXCEPT !.steady = @ \ {id}]
    /\ UNCHANGED collection

\* A record, or an article of the nightly batch.  Its time was read before it
\* was stored, by any process: it may land anywhere in the order.
AddEntry ==
    \E id \in EntryIds \ Shelved, at \in Times, labels \in Labellings :
        Change(id, [at |-> at, labels |-> labels])

\* Edited, published, rejected; createdAt stays.
ChangeEntry ==
    \E id \in Shelved, labels \in Labellings : Change(id, [shelf[id] EXCEPT !.labels = labels])

ListingNext == OpenList \/ ShowPage \/ LosePage \/ FollowLink \/ AddEntry \/ ChangeEntry

ListingSpec == ListingInit /\ [][ListingNext]_listingVars

-----------------------------------------------------------------------------
(* Properties.                                                             *)

\* cursor.ts: a walk shows no entry twice, and at its end has shown every entry
\* that answered the query all the while, whatever was added or changed meanwhile.
PagesMissNothing ==
    walk.pc # "off" =>
        /\ \A i \in EntryIds : walk.seen[i] <= 1
        /\ walk.pc = "over" => \A i \in walk.steady : walk.seen[i] = 1
=============================================================================
