---------------------------- MODULE RemoteSource ----------------------------
(***************************************************************************)
(* The listing of a remote registry (internal/image/remote.go): a call      *)
(* walks the pages of the catalog, starts a goroutine per repository, which  *)
(* takes the tags from a cache shared by all calls or from the registry, and *)
(* collects what they send until their channel is closed, one of them fails  *)
(* or the caller leaves.                                                    *)
(*                                                                          *)
(* Abstracted: a list of tags is the instant at which the registry gave it;  *)
(* the filter of a call (q, prefix) is the set of repositories it lets        *)
(* through.                                                                 *)
(***************************************************************************)
EXTENDS Integers, FiniteSets, Sequences

CONSTANTS
    Call,           \* calls of ListCandidates
    Pages,          \* the catalog: a sequence of sets of repositories
    Wanted,         \* call -> the repositories that pass its filter
    Slots,          \* maxConcurrentTagFetches (8)
    Buffer,         \* capacity of the channel results (64)
    TTL,            \* cacheTTL
    MaxTime         \* bound: the last instant of the clock

ASSUME RemoteAssumption ==
    /\ Pages \in Seq(SUBSET UNION {Pages[i] : i \in DOMAIN Pages}) /\ Pages # << >>
    /\ Wanted \in [Call -> SUBSET UNION {Pages[i] : i \in DOMAIN Pages}]
    /\ {Slots, Buffer, TTL} \subseteq Nat \ {0}
    /\ MaxTime \in Nat
    /\ IsFiniteSet(UNION {Pages[i] : i \in DOMAIN Pages})

Repo == UNION {Pages[i] : i \in DOMAIN Pages}

VARIABLES
    now,        \* the clock
    cache,      \* tagCache: repository -> entry, defined on those fetched
    main,       \* the goroutine of a call: idle, catalog, collect, returned
    page,       \* the page it asks for next
    cut,        \* history: it took a page for the last one that was not
    got,        \* the repositories whose candidates it has
    answer,     \* what it returned: none, list, failed (the catalog), error (of
                \* a goroutine), context
    over,       \* its derived context has ended
    left,       \* history: the caller's context has ended
    fetcher,    \* call -> repository -> where its goroutine stands
    since,      \* ... `now` of tagsForRepo
    tags,       \* ... the tags it holds
    sem,        \* number of elements in sem
    results,    \* what is in the channel results
    closed,     \* results is closed
    errCh       \* errCh holds an error

callVars  == <<main, page, cut, got, answer, left>>
fetchVars == <<fetcher, since, tags, sem>>
chanVars  == <<over, results, closed, errCh>>
vars == <<now, cache, callVars, fetchVars, chanVars>>

Entry == [tags : Nat, fetchedAt : Nat]

RemoteTypeOK ==
    /\ now \in 0 .. MaxTime
    /\ DOMAIN cache \subseteq Repo
    /\ \A r \in DOMAIN cache : cache[r] \in Entry /\ cache[r].tags <= now
    /\ main \in [Call -> {"idle", "catalog", "collect", "returned"}]
    /\ page \in [Call -> 1 .. Len(Pages) + 1]
    /\ cut \in [Call -> BOOLEAN] /\ got \in [Call -> SUBSET Repo]
    /\ answer \in [Call -> {"none", "list", "failed", "error", "context"}]
    /\ over \in [Call -> BOOLEAN] /\ left \in [Call -> BOOLEAN]
    /\ fetcher \in [Call -> [Repo -> {"none", "sem", "read", "fetch", "store", "check", "send", "end"}]]
    /\ since \in [Call -> [Repo -> Nat]] /\ tags \in [Call -> [Repo -> Nat]]
    /\ sem \in [Call -> 0 .. Slots]
    /\ results \in [Call -> SUBSET Repo]
    /\ closed \in [Call -> BOOLEAN] /\ errCh \in [Call -> BOOLEAN]
    /\ \A c \in Call : /\ Cardinality(results[c]) <= Buffer
                       /\ results[c] \cap got[c] = {}
                       /\ main[c] = "returned" <=> answer[c] # "none"

All(v)  == [c \in Call |-> v]
Each(v) == [c \in Call |-> [r \in Repo |-> v]]

Init ==
    /\ now = 0 /\ cache = << >>
    /\ main = All("idle") /\ page = All(1) /\ cut = All(FALSE) /\ got = All({})
    /\ answer = All("none") /\ over = All(FALSE) /\ left = All(FALSE)
    /\ fetcher = Each("none") /\ since = Each(0) /\ tags = Each(0)
    /\ sem = All(0) /\ results = All({}) /\ closed = All(FALSE) /\ errCh = All(FALSE)

-----------------------------------------------------------------------------
\* The goroutine of a call.

\* Candidates are returned only without an error.
Return(c, a) ==
    /\ main' = [main EXCEPT ![c] = "returned"]
    /\ answer' = [answer EXCEPT ![c] = a]
    /\ got' = [got EXCEPT ![c] = IF a = "list" THEN @ ELSE {}]

\* defer cancel()
ReturnAndCancel(c, a) ==
    /\ Return(c, a)
    /\ over' = [over EXCEPT ![c] = TRUE]

Begin(c) ==
    /\ main[c] = "idle"
    /\ main' = [main EXCEPT ![c] = "catalog"]
    /\ UNCHANGED <<now, cache, page, cut, got, answer, left, fetchVars, chanVars>>

\* One page and the link to the next.  After the last page, and after one whose link
\* cannot be parsed (nextCatalogLink, remote.go:322-325), a goroutine per repository.
FetchPage(c) ==
    LET seen == UNION {Pages[i] : i \in 1 .. page[c]} IN
    /\ main[c] = "catalog"
    /\ page' = [page EXCEPT ![c] = @ + 1]
    /\ \/ page[c] < Len(Pages) /\ UNCHANGED <<main, cut, fetcher>>
       \/ /\ main' = [main EXCEPT ![c] = "collect"]
          /\ cut' = [cut EXCEPT ![c] = page[c] < Len(Pages)]
          /\ fetcher' = [fetcher EXCEPT ![c] =
                           [r \in Repo |-> IF r \in seen \cap Wanted[c] THEN "sem" ELSE "none"]]
    /\ UNCHANGED <<now, cache, got, answer, left, since, tags, sem, chanVars>>

\* The registry answers with an error, not at all, or the caller has left.
FetchPageFails(c) ==
    /\ main[c] = "catalog"
    /\ Return(c, "failed")
    /\ UNCHANGED <<now, cache, page, cut, left, fetchVars, chanVars>>

\* The cases of the select, any of those that are ready.
TakeError(c) ==
    /\ main[c] = "collect" /\ errCh[c]
    /\ errCh' = [errCh EXCEPT ![c] = FALSE]
    /\ ReturnAndCancel(c, "error")
    /\ UNCHANGED <<now, cache, page, cut, left, fetchVars, results, closed>>

TakeResult(c) ==
    /\ main[c] = "collect"
    /\ \E r \in results[c] :
         /\ results' = [results EXCEPT ![c] = @ \ {r}]
         /\ got' = [got EXCEPT ![c] = @ \cup {r}]
    /\ UNCHANGED <<now, cache, main, page, cut, answer, left, fetchVars,
                   over, closed, errCh>>

TakeClosed_Blind(c) ==
    /\ main[c] = "collect" /\ closed[c] /\ results[c] = {}
    /\ ReturnAndCancel(c, "list")
    /\ UNCHANGED <<now, cache, page, cut, left, fetchVars, results, closed, errCh>>

\* results is closed and empty; an error that came first is still in errCh.
TakeClosed(c) ==
    /\ main[c] = "collect" /\ closed[c] /\ results[c] = {}
    /\ ReturnAndCancel(c, IF errCh[c] THEN "error" ELSE "list")
    /\ errCh' = [errCh EXCEPT ![c] = FALSE]
    /\ UNCHANGED <<now, cache, page, cut, left, fetchVars, results, closed>>

TakeDone(c) ==
    /\ main[c] = "collect" /\ over[c]
    /\ ReturnAndCancel(c, "context")
    /\ UNCHANGED <<now, cache, page, cut, left, fetchVars, results, closed, errCh>>

\* The request behind the call ends.
CallerLeaves(c) ==
    /\ main[c] \in {"catalog", "collect"} /\ ~left[c]
    /\ left' = [left EXCEPT ![c] = TRUE]
    /\ over' = [over EXCEPT ![c] = TRUE]
    /\ UNCHANGED <<now, cache, main, page, cut, got, answer, fetchVars,
                   results, closed, errCh>>

-----------------------------------------------------------------------------
\* The goroutine of a repository.

Goto(c, r, from, to) ==
    /\ fetcher[c][r] = from
    /\ fetcher' = [fetcher EXCEPT ![c][r] = to]

\* It ends: its locals go and, by its deferred calls, its slot is given back.
End(c, r, from) ==
    /\ Goto(c, r, from, "end")
    /\ sem' = [sem EXCEPT ![c] = @ - 1]
    /\ since' = [since EXCEPT ![c][r] = 0] /\ tags' = [tags EXCEPT ![c][r] = 0]

AwaitSlot_DeferFirst(c, r) ==
    /\ \/ /\ sem[c] < Slots /\ Goto(c, r, "sem", "read")
          /\ sem' = [sem EXCEPT ![c] = @ + 1]
          /\ UNCHANGED <<since, tags>>
       \/ over[c] /\ End(c, r, "sem")
    /\ UNCHANGED <<now, cache, callVars, chanVars>>

\* For a slot in sem, or for the end of the call; with both it takes either.
AwaitSlot(c, r) ==
    /\ \/ /\ sem[c] < Slots /\ Goto(c, r, "sem", "read")
          /\ sem' = [sem EXCEPT ![c] = @ + 1]
       \/ over[c] /\ Goto(c, r, "sem", "end") /\ UNCHANGED sem
    /\ UNCHANGED <<now, cache, callVars, since, tags, chanVars>>

Cached(r) == r \in DOMAIN cache /\ now - cache[r].fetchedAt < TTL

\* Under the read lock: time.Now was read just before.
ReadCache(c, r) ==
    /\ \/ /\ Cached(r) /\ Goto(c, r, "read", "check")
          /\ tags' = [tags EXCEPT ![c][r] = cache[r].tags]
          /\ UNCHANGED since
       \/ /\ ~Cached(r) /\ Goto(c, r, "read", "fetch")
          /\ since' = [since EXCEPT ![c][r] = now]
          /\ UNCHANGED tags
    /\ UNCHANGED <<now, cache, callVars, sem, chanVars>>

FetchTags(c, r) ==
    /\ Goto(c, r, "fetch", "store")
    /\ tags' = [tags EXCEPT ![c][r] = now]
    /\ UNCHANGED <<now, cache, callVars, since, sem, chanVars>>

\* The registry fails, or the context ended.  The first error is kept; then all
\* the goroutines of the call are told to stop.
FetchTagsFails(c, r) ==
    /\ End(c, r, "fetch")
    /\ errCh' = [errCh EXCEPT ![c] = TRUE]
    /\ over' = [over EXCEPT ![c] = TRUE]
    /\ UNCHANGED <<now, cache, callVars, results, closed>>

StoreTags_Now(c, r) ==
    /\ Goto(c, r, "store", "check")
    /\ cache' = [x \in DOMAIN cache \cup {r} |->
                   IF x = r THEN [tags |-> tags[c][r], fetchedAt |-> now] ELSE cache[x]]
    /\ UNCHANGED <<now, callVars, since, tags, sem, chanVars>>

\* Under the lock, over whatever another call has stored meanwhile.
StoreTags(c, r) ==
    /\ Goto(c, r, "store", "check")
    /\ cache' = [x \in DOMAIN cache \cup {r} |->
                   IF x = r THEN [tags |-> tags[c][r], fetchedAt |-> since[c][r]]
                            ELSE cache[x]]
    /\ UNCHANGED <<now, callVars, since, tags, sem, chanVars>>

\* Nothing is sent once the call is over.
CheckContext(c, r) ==
    /\ IF over[c] THEN End(c, r, "check")
                  ELSE Goto(c, r, "check", "send") /\ UNCHANGED <<since, tags, sem>>
    /\ UNCHANGED <<now, cache, callVars, chanVars>>

Send_Anyway(c, r) ==
    /\ End(c, r, "send")
    /\ Cardinality(results[c]) < Buffer
    /\ results' = [results EXCEPT ![c] = @ \cup {r}]
    /\ UNCHANGED <<now, cache, callVars, over, closed, errCh>>

\* Room in the channel, or the end of the call.
Send(c, r) ==
    /\ End(c, r, "send")
    /\ \/ /\ Cardinality(results[c]) < Buffer
          /\ results' = [results EXCEPT ![c] = @ \cup {r}]
       \/ over[c] /\ UNCHANGED results
    /\ UNCHANGED <<now, cache, callVars, over, closed, errCh>>

\* wg.Wait(); close(results)
CloseResults(c) ==
    /\ main[c] \in {"collect", "returned"} /\ answer[c] # "failed"
    /\ ~closed[c] /\ \A r \in Repo : fetcher[c][r] \in {"none", "end"}
    /\ closed' = [closed EXCEPT ![c] = TRUE]
    /\ UNCHANGED <<now, cache, callVars, fetchVars, over, results, errCh>>

Tick ==
    /\ now < MaxTime /\ now' = now + 1
    /\ UNCHANGED <<cache, callVars, fetchVars, chanVars>>

-----------------------------------------------------------------------------

MainStep(c) ==
    \/ FetchPage(c) \/ FetchPageFails(c)
    \/ TakeError(c) \/ TakeResult(c) \/ TakeClosed(c) \/ TakeDone(c)

FetcherStep(c, r) ==
    \/ AwaitSlot(c, r) \/ ReadCache(c, r) \/ FetchTags(c, r) \/ FetchTagsFails(c, r)
    \/ StoreTags(c, r) \/ CheckContext(c, r) \/ Send(c, r)

Next ==
    \/ Tick
    \/ \E c \in Call :
         \/ Begin(c) \/ MainStep(c) \/ CallerLeaves(c) \/ CloseResults(c)
         \/ \E r \in Repo : FetcherStep(c, r)

Spec == Init /\ [][Next]_vars

\* Goroutines run, and the client gives up a request after 30 seconds.
Fairness ==
    \A c \in Call : /\ WF_vars(MainStep(c)) /\ WF_vars(CloseResults(c))
                    /\ \A r \in Repo : WF_vars(FetcherStep(c, r))

FairSpec == Spec /\ Fairness

-----------------------------------------------------------------------------
\* Properties.

\* A listing without an error is complete, unless the caller has left (remote.go:
\* 130-160) or a link in the catalog did not parse (remote.go:322-325): no failed
\* goroutine, no order of its error, the cancellation and the closing of the channel
\* turns what was collected so far into an answer.
ListIsComplete ==
    \A c \in Call :
        answer[c] = "list" /\ ~left[c] /\ ~cut[c] => got[c] = Repo \cap Wanted[c]

\* Tags taken from the cache were given by the registry less than the TTL ago, also
\* when two calls fetch them at the same time and the slower one stores last
\* (remote.go:274-296: the entry is dated before the request, not after it).
CachedTagsAreFresh ==
    [][\A c \in Call, r \in Repo :
         fetcher[c][r] = "read" /\ fetcher'[c][r] = "check" => now - tags'[c][r] < TTL]_vars

\* A call returns, with more repositories than slots and more results than room in
\* the channel, and then its goroutines end although nobody receives from the
\* channel any more (remote.go:81-87, 92-127).
CallEnds ==
    \A c \in Call : main[c] = "collect" ~>
        /\ main[c] = "returned"
        /\ \A r \in Repo : fetcher[c][r] \in {"none", "end"}
=============================================================================
