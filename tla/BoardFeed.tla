------------------------------ MODULE BoardFeed ------------------------------
(* The job board's infinite list (useBoard, api/queries.ts): the pages it has *)
(* loaded, against the feed GET /api/board cuts into pages by offset.         *)
(*                                                                            *)
(* A save takes its row out of the cached pages before the request is sent    *)
(* (useSaveJob); everything else that changes the feed - a scan, a score, the *)
(* Trash - is followed by an invalidation, which reads the loaded pages again *)
(* one after the other.  That each hint arrives is LiveQueries' business.     *)
EXTENDS Integers, Sequences, SequencesExt

CONSTANTS
  Jobs,        \* every job of the run
  PageSize,    \* _BOARD_PAGE_SIZE
  MaxChanges,  \* bound: changes by scans, scores and the Trash
  MaxSaves,    \* bound: saves
  MaxPages     \* bound: pages the list may hold

VARIABLES
  feed,       \* what the sidecar would list: unsaved, active, best first
  changes, saves,
  hint,       \* a terminal scan or score event has not been acted on
  posted,     \* Trash requests whose answer is on its way
  saving,     \* save requests: not committed yet
  stored,     \* save requests: committed, the answer is on its way
  pages,      \* the cached pages
  fetch,      \* the query's fetch
  disturbed   \* history: one of the ways the list goes wrong, see ListIsFeed

server == <<feed, changes, saves>>
vars == <<feed, changes, saves, hint, posted, saving, stored, pages, fetch, disturbed>>

Idle == [kind |-> "none", want |-> 0, got |-> <<>>, early |-> FALSE]
Refetch == [Idle EXCEPT !.kind = "all", !.want = Len(pages)]

(* Page n of the feed, with the total the header shows.                     *)
Page(n) ==
  [jobs  |-> SubSeq(feed, n * PageSize + 1,
                    IF (n + 1) * PageSize < Len(feed) THEN (n + 1) * PageSize ELSE Len(feed)),
   total |-> Len(feed)]

Rows(ps) == FlattenSeq([i \in DOMAIN ps |-> ps[i].jobs])

(* Rows without job j, of which the feed and so a page of it has one at most.  *)
Less(rows, j) ==
  IF j \in Range(rows) THEN RemoveAt(rows, CHOOSE i \in DOMAIN rows : rows[i] = j) ELSE rows

(* getNextPageParam: rows loaded against the last page's total.             *)
More(ps) == Len(Rows(ps)) < Last(ps).total

Init ==
  /\ feed \in {f \in UNION {[1 .. n -> Jobs] : n \in 0 .. PageSize + 1} : IsInjective(f)}
  /\ changes = 0 /\ saves = 0
  /\ hint = FALSE
  /\ posted = 0 /\ saving = {} /\ stored = {}
  /\ pages = <<Page(0)>>
  /\ fetch = Idle
  /\ disturbed = FALSE

-----------------------------------------------------------------------------
(* The feed changes                                                         *)

Change == changes < MaxChanges /\ changes' = changes + 1

(* A scan, a paste or a restore brings a job, a score moves one; the hint    *)
(* to read the feed again follows.                                           *)
Rank(j) ==
  LET others == Less(feed, j) IN
  /\ Change
  /\ j \notin saving \cup stored
  /\ \E i \in 1 .. Len(others) + 1 : feed' = InsertAt(others, i, j)
  /\ hint' = TRUE
  /\ UNCHANGED <<saves, posted, saving, stored, pages, fetch, disturbed>>

(* useTrashJob, until its request is committed.                             *)
Trash(j) ==
  /\ Change
  /\ j \in Range(feed) \cap Range(Rows(pages))
  /\ feed' = Less(feed, j)
  /\ posted' = posted + 1
  /\ UNCHANGED <<saves, hint, saving, stored, pages, fetch, disturbed>>

-----------------------------------------------------------------------------
(* The query                                                                *)

(* invalidateFeed: a fetch under way is dropped, the loaded pages are read. *)
Invalidate == fetch' = Refetch

(* The bridge acts on the event.                                            *)
Hint ==
  /\ hint
  /\ hint' = FALSE
  /\ Invalidate
  /\ UNCHANGED <<server, posted, saving, stored, pages, disturbed>>

Trashed ==
  /\ posted > 0
  /\ posted' = posted - 1
  /\ Invalidate
  /\ UNCHANGED <<server, hint, saving, stored, pages, disturbed>>

(* A scroll near the end.  Asking for more drops a refetch under way.       *)
FetchNext ==
  /\ fetch.kind # "next"
  /\ More(pages)
  /\ Len(pages) < MaxPages
  /\ fetch' = [Idle EXCEPT !.kind = "next", !.want = 1]
  /\ disturbed' = (disturbed \/ fetch.kind = "all")
  /\ UNCHANGED <<server, hint, posted, saving, stored, pages>>

Complete ==
  \/ Len(fetch.got) = fetch.want
  \/ fetch.kind = "all" /\ fetch.got # <<>> /\ ~More(fetch.got)

ReadPage ==
  /\ fetch.kind # "none"
  /\ ~Complete
  /\ LET n == IF fetch.kind = "next" THEN Len(pages) ELSE Len(fetch.got) IN
     fetch' = [fetch EXCEPT !.got = Append(@, Page(n)), !.early = @ \/ saving # {}]
  /\ UNCHANGED <<server, hint, posted, saving, stored, pages, disturbed>>

(* A page shorter than its share was cut by a save: the next offset is off. *)
Shifted(ps) == \E i \in DOMAIN ps : Len(ps[i].jobs) < PageSize

Land ==
  /\ fetch.kind # "none"
  /\ Complete
  /\ pages' = IF fetch.kind = "next" THEN pages \o fetch.got ELSE fetch.got
  /\ disturbed' = IF fetch.kind = "all" THEN fetch.early
                  ELSE disturbed \/ fetch.early \/ Shifted(pages)
  /\ fetch' = Idle
  /\ UNCHANGED <<server, hint, posted, saving, stored>>

-----------------------------------------------------------------------------
(* useSaveJob                                                               *)

Without(ps, j) ==
  [i \in DOMAIN ps |->
     [jobs  |-> Less(ps[i].jobs, j),
      total |-> IF ps[i].total > 0 THEN ps[i].total - 1 ELSE 0]]

(* onMutate: fetches are cancelled and the row leaves the cached pages.     *)
Save(j) ==
  /\ saves < MaxSaves
  /\ j \in Range(Rows(pages))
  /\ saves' = saves + 1
  /\ saving' = saving \cup {j}
  /\ pages' = Without(pages, j)
  /\ fetch' = Idle
  /\ disturbed' = (disturbed \/ fetch.kind = "all")
  /\ UNCHANGED <<feed, changes, hint, posted, stored>>

(* POST /api/applications commits.                                          *)
SaveCommits(j) ==
  /\ j \in saving
  /\ saving' = saving \ {j}
  /\ stored' = stored \cup {j}
  /\ feed' = Less(feed, j)
  /\ UNCHANGED <<changes, saves, hint, posted, pages, fetch, disturbed>>

(* onSuccess: the Tracker's list is read again, the board's is not.         *)
SaveSucceeds(j) ==
  /\ j \in stored
  /\ stored' = stored \ {j}
  /\ UNCHANGED <<server, hint, posted, saving, pages, fetch, disturbed>>

(* Mutant: the failure is shown and the row stays away.                     *)
SaveFailsQuietly(j) ==
  /\ j \in saving \cup stored
  /\ saving' = saving \ {j}
  /\ stored' = stored \ {j}
  /\ UNCHANGED <<server, hint, posted, pages, fetch, disturbed>>

(* onError, whether or not the sidecar had committed: the feed is read.     *)
SaveFails(j) ==
  /\ j \in saving \cup stored
  /\ saving' = saving \ {j}
  /\ stored' = stored \ {j}
  /\ Invalidate
  /\ UNCHANGED <<server, hint, posted, pages, disturbed>>

-----------------------------------------------------------------------------
Next ==
  \/ \E j \in Jobs : Rank(j) \/ Trash(j) \/ Save(j) \/ SaveCommits(j) \/ SaveSucceeds(j) \/ SaveFails(j)
  \/ Hint \/ Trashed \/ FetchNext \/ ReadPage \/ Land

Spec == Init /\ [][Next]_vars

-----------------------------------------------------------------------------
Quiet == ~hint /\ posted = 0 /\ saving = {} /\ stored = {} /\ fetch = Idle

(* When nothing is under way the list is the top of the feed, in its order, *)
(* no row skipped, repeated or kept, the header's total is the feed's, and a *)
(* list with no more pages is all of it.  Only three things spoil that, and  *)
(* each until the next refetch that is left alone: a refetch dropped by a    *)
(* save or a scroll, a page read before a save was committed, and a page     *)
(* asked for after a save.                                                   *)
ListIsFeed ==
  Quiet /\ ~disturbed =>
    /\ IsPrefix(Rows(pages), feed)
    /\ Last(pages).total = Len(feed)
    /\ More(pages) \/ Rows(pages) = feed
=============================================================================
