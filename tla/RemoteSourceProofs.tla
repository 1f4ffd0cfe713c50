------------------------ MODULE RemoteSourceProofs -------------------------
(***************************************************************************)
(* A listing without an error is complete, and the tags in it are fresh,   *)
(* for any calls, filters, catalog and limits.                             *)
(***************************************************************************)
EXTENDS RemoteSource, FiniteSetTheorems, TLAPS

FetcherState == {"none", "sem", "read", "fetch", "store", "check", "send", "end"}

\* The part of the type invariant that the argument rests on.
Shape ==
    /\ main \in [Call -> {"idle", "catalog", "collect", "returned"}]
    /\ got \in [Call -> SUBSET Repo] /\ results \in [Call -> SUBSET Repo]
    /\ answer \in [Call -> {"none", "list", "failed", "error", "context"}]
    /\ over \in [Call -> BOOLEAN] /\ left \in [Call -> BOOLEAN]
    /\ closed \in [Call -> BOOLEAN] /\ errCh \in [Call -> BOOLEAN]
    /\ fetcher \in [Call -> [Repo -> FetcherState]]
    /\ page \in [Call -> Nat] /\ cut \in [Call -> BOOLEAN]

\* Before the goroutines of a call are started.
NotStarted(c) ==
    main[c] \in {"idle", "catalog"} =>
        /\ answer[c] = "none" /\ ~closed[c] /\ ~errCh[c]
        /\ got[c] = {} /\ results[c] = {}
        /\ over[c] => left[c]
        /\ \A r \in Repo : fetcher[c][r] = "none"

\* While it collects: unless the call is over, a goroutine that ended has left its
\* result; and the call is over only with a reason the collector will see.
Collecting(c) ==
    main[c] = "collect" =>
        /\ answer[c] = "none"
        /\ over[c] => left[c] \/ errCh[c]
        /\ \A r \in Repo : r \notin Wanted[c] => fetcher[c][r] = "none"
        /\ ~cut[c] => \A r \in Repo \cap Wanted[c] : fetcher[c][r] # "none"
        /\ \A r \in Repo : fetcher[c][r] = "end" => over[c] \/ r \in got[c] \cup results[c]
        /\ closed[c] => \A r \in Repo : fetcher[c][r] \in {"none", "end"}
        /\ got[c] \cup results[c] \subseteq Wanted[c]

Complete(c) ==
    answer[c] = "list" /\ ~left[c] /\ ~cut[c] => got[c] = Repo \cap Wanted[c]

CallInv(c) == NotStarted(c) /\ Collecting(c) /\ Complete(c)

ListInv == Shape /\ \A c \in Call : CallInv(c)

-----------------------------------------------------------------------------

LEMMA ListInit == Init => ListInv
BY RemoteAssumption DEF Init, ListInv, Shape, CallInv, NotStarted, Collecting, Complete,
   All, Each, FetcherState

\* A step of the call's own goroutine, or of its caller.
LEMMA MainPreserves ==
    ASSUME ListInv, NEW c \in Call,
           \/ Begin(c) \/ FetchPage(c) \/ FetchPageFails(c) \/ CallerLeaves(c)
           \/ TakeError(c) \/ TakeResult(c) \/ TakeClosed(c) \/ TakeDone(c)
           \/ CloseResults(c)
    PROVE  ListInv'
<1>. USE DEF ListInv, Shape, CallInv, NotStarted, Collecting, Complete, FetcherState
<1>1. CASE Begin(c)
  BY <1>1 DEF Begin, fetchVars, chanVars
<1>2. CASE FetchPage(c)
  <2>. DEFINE seen == UNION {Pages[i] : i \in 1 .. page[c]}
              started == [r \in Repo |-> IF r \in seen \cap Wanted[c] THEN "sem" ELSE "none"]
  <2>1. CASE /\ main' = [main EXCEPT ![c] = "collect"]
             /\ cut' = [cut EXCEPT ![c] = page[c] < Len(Pages)]
             /\ fetcher' = [fetcher EXCEPT ![c] = started]
    <3>1. ~(page[c] < Len(Pages)) => Repo \subseteq seen
      <4>1. DOMAIN Pages = 1 .. Len(Pages) /\ Len(Pages) \in Nat /\ page[c] \in Nat
        BY RemoteAssumption
      <4>. QED
        BY ONLY <4>1 DEF Repo
    <3>2. /\ main[c] = "catalog" /\ page' = [page EXCEPT ![c] = @ + 1]
          /\ UNCHANGED <<got, answer, left, chanVars>>
      BY ONLY <1>2 DEF FetchPage
    <3>3. started \in [Repo -> FetcherState]
      OBVIOUS
    <3>4. \A r \in Repo : r \notin Wanted[c] => started[r] = "none"
      OBVIOUS
    <3>5. ~(page[c] < Len(Pages)) => \A r \in Repo \cap Wanted[c] : started[r] # "none"
      BY <3>1
    <3>6. \A r \in Repo : started[r] # "end"
      OBVIOUS
    <3>. HIDE DEF started, seen
    <3>7. fetcher' = [fetcher EXCEPT ![c] = started] /\ fetcher'[c] = started
      BY <2>1
    <3>8. UNCHANGED <<got, answer, left, over, results, closed, errCh>>
      BY <3>2 DEF chanVars
    <3>9. Shape'
      BY <2>1, <3>2, <3>3, <3>7, <3>8
    <3>10. main'[c] = "collect" /\ (~cut'[c] => ~(page[c] < Len(Pages)))
      <4>1. cut \in [Call -> BOOLEAN] /\ main'[c] = "collect"
        BY <2>1
      <4>2. cut'[c] = (page[c] < Len(Pages))
        BY ONLY <2>1, <4>1, c \in Call, Zenon
      <4>. QED  BY ONLY <4>1, <4>2
    <3>11. CallInv(c)'
      <4>1. /\ answer'[c] = "none" /\ ~closed'[c] /\ (over'[c] => left'[c])
            /\ got'[c] = {} /\ results'[c] = {}
        BY <3>2, <3>8
      <4>2. \A r \in Repo : fetcher'[c][r] = started[r]
        BY <3>7
      <4>3. NotStarted(c)' /\ Complete(c)'
        BY <3>10, <4>1
      <4>4. Collecting(c)'
        BY ONLY <3>4, <3>5, <3>6, <3>10, <4>1, <4>2 DEF Collecting
      <4>. QED  BY <4>3, <4>4
    <3>12. ASSUME NEW d \in Call, d # c PROVE CallInv(d)'
      BY <2>1, <3>7, <3>8, <3>12
    <3>. QED
      BY <3>9, <3>11, <3>12
  <2>2. CASE UNCHANGED <<main, cut, fetcher>>
    BY <1>2, <2>2 DEF FetchPage, chanVars
  <2>. QED
    <3>. HIDE DEF started
    <3>. QED  BY ONLY <1>2, <2>1, <2>2 DEF FetchPage, started
<1>3. CASE FetchPageFails(c)
  BY <1>3 DEF FetchPageFails, Return, fetchVars, chanVars
<1>4. CASE CallerLeaves(c)
  BY <1>4 DEF CallerLeaves, fetchVars
<1>5. CASE TakeError(c)
  BY <1>5 DEF TakeError, ReturnAndCancel, Return, fetchVars
<1>6. CASE TakeResult(c)
  <2>1. PICK r \in results[c] : /\ results' = [results EXCEPT ![c] = @ \ {r}]
                               /\ got' = [got EXCEPT ![c] = @ \cup {r}]
    BY <1>6 DEF TakeResult
  <2>. QED
    BY <1>6, <2>1 DEF TakeResult, fetchVars
<1>7. CASE TakeClosed(c)
  <2>1. ~errCh[c] /\ ~left[c] /\ ~cut[c] => got[c] = Repo \cap Wanted[c]
    BY <1>7 DEF TakeClosed
  <2>. QED
    BY <1>7, <2>1 DEF TakeClosed, ReturnAndCancel, Return, fetchVars
<1>8. CASE TakeDone(c)
  BY <1>8 DEF TakeDone, ReturnAndCancel, Return, fetchVars
<1>9. CASE CloseResults(c)
  BY <1>9 DEF CloseResults, callVars, fetchVars
<1>. QED
  BY <1>1, <1>2, <1>3, <1>4, <1>5, <1>6, <1>7, <1>8, <1>9

\* A goroutine moves on without ending, and no channel changes.
LEMMA MovePreserves ==
    ASSUME ListInv, NEW c \in Call, NEW r \in Repo,
           NEW from \in FetcherState \ {"none", "end"},
           NEW to \in FetcherState \ {"none", "end"},
           Goto(c, r, from, to), UNCHANGED <<callVars, chanVars>>
    PROVE  ListInv'
BY DEF ListInv, Shape, CallInv, NotStarted, Collecting, Complete, FetcherState, Goto,
   callVars, chanVars

\* A goroutine ends in a call that is over, perhaps since that very step.
LEMMA EndPreserves ==
    ASSUME ListInv, NEW c \in Call, NEW r \in Repo,
           NEW from \in FetcherState \ {"none", "end"},
           Goto(c, r, from, "end"), UNCHANGED <<callVars, results, closed>>,
           \/ over[c] /\ UNCHANGED <<over, errCh>>
           \/ over' = [over EXCEPT ![c] = TRUE] /\ errCh' = [errCh EXCEPT ![c] = TRUE]
    PROVE  ListInv'
<1>. USE DEF ListInv, Shape, CallInv, NotStarted, Collecting, Complete, FetcherState,
             Goto, callVars
<1>1. CASE over[c] /\ UNCHANGED <<over, errCh>>
  BY <1>1
<1>2. CASE over' = [over EXCEPT ![c] = TRUE] /\ errCh' = [errCh EXCEPT ![c] = TRUE]
  <2>1. fetcher[c][r] \notin {"none", "end"}
    OBVIOUS
  <2>2. main[c] \in {"collect", "returned"} /\ Shape'
    BY <1>2, <2>1
  <2>3. over'[c] /\ errCh'[c] /\ fetcher' = [fetcher EXCEPT ![c][r] = "end"]
    BY <1>2
  <2>4. CallInv(c)'
    BY <2>1, <2>2, <2>3
  <2>5. ASSUME NEW d \in Call, d # c PROVE CallInv(d)'
    BY <1>2, <2>5
  <2>. QED
    BY <2>2, <2>4, <2>5
<1>. QED
  BY <1>1, <1>2

\* A step of the goroutine of a repository.
LEMMA FetcherPreserves ==
    ASSUME ListInv, NEW c \in Call, NEW r \in Repo, FetcherStep(c, r)
    PROVE  ListInv'
<1>0. /\ {"sem", "read", "fetch", "store", "check", "send"}
             \subseteq FetcherState \ {"none", "end"}
  BY DEF FetcherState
<1>1. CASE AwaitSlot(c, r)
  <2>1. CASE Goto(c, r, "sem", "read")
    BY <1>0, <1>1, <2>1, MovePreserves DEF AwaitSlot
  <2>2. CASE over[c] /\ Goto(c, r, "sem", "end")
    BY <1>0, <1>1, <2>2, EndPreserves DEF AwaitSlot, chanVars
  <2>. QED
    BY <1>1, <2>1, <2>2 DEF AwaitSlot
<1>2. CASE ReadCache(c, r)
  BY <1>0, <1>2, MovePreserves DEF ReadCache
<1>3. CASE FetchTags(c, r)
  BY <1>0, <1>3, MovePreserves DEF FetchTags
<1>4. CASE FetchTagsFails(c, r)
  BY <1>0, <1>4, EndPreserves DEF FetchTagsFails, End
<1>5. CASE StoreTags(c, r)
  BY <1>0, <1>5, MovePreserves DEF StoreTags
<1>6. CASE CheckContext(c, r)
  BY <1>0, <1>6, MovePreserves, EndPreserves DEF CheckContext, End, chanVars
<1>7. CASE Send(c, r)
  <2>1. CASE over[c] /\ UNCHANGED results
    BY <1>0, <1>7, <2>1, EndPreserves DEF Send, End
  <2>2. CASE results' = [results EXCEPT ![c] = @ \cup {r}]
    BY <1>7, <2>2 DEF Send, End, Goto, callVars, ListInv, Shape, CallInv, NotStarted,
       Collecting, Complete, FetcherState
  <2>. QED
    BY <1>7, <2>1, <2>2 DEF Send
<1>. QED
  BY <1>1, <1>2, <1>3, <1>4, <1>5, <1>6, <1>7 DEF FetcherStep

LEMMA ListStep == ListInv /\ [Next]_vars => ListInv'
<1>. SUFFICES ASSUME ListInv, [Next]_vars PROVE ListInv'
  OBVIOUS
<1>1. CASE Tick \/ UNCHANGED vars
  BY <1>1 DEF Tick, vars, callVars, fetchVars, chanVars, ListInv, Shape, CallInv,
     NotStarted, Collecting, Complete
<1>2. ASSUME NEW c \in Call,
             Begin(c) \/ MainStep(c) \/ CallerLeaves(c) \/ CloseResults(c)
      PROVE  ListInv'
  BY <1>2, MainPreserves DEF MainStep
<1>3. ASSUME NEW c \in Call, NEW r \in Repo, FetcherStep(c, r)
      PROVE  ListInv'
  BY <1>3, FetcherPreserves
<1>. QED
  BY <1>1, <1>2, <1>3 DEF Next

\* A listing without an error is complete unless the caller has left, for any number
\* of calls, repositories, slots and any capacity of the channel (remote.go:130-160).
THEOREM ListsAreComplete == Spec => []ListIsComplete
<1>1. ListInv => ListIsComplete
  BY DEF ListInv, CallInv, Complete, ListIsComplete
<1>. QED
  BY ListInit, ListStep, <1>1, PTL DEF Spec

-----------------------------------------------------------------------------

\* Whoever holds tags, a goroutine or the cache, dates them no later than the
\* registry gave them.
TagInv ==
    /\ now \in Nat
    /\ fetcher \in [Call -> [Repo -> FetcherState]]
    /\ since \in [Call -> [Repo -> Nat]] /\ tags \in [Call -> [Repo -> Nat]]
    /\ \A r \in DOMAIN cache : /\ cache[r].tags \in Nat /\ cache[r].fetchedAt \in Nat
                               /\ cache[r].fetchedAt <= cache[r].tags
    /\ \A c \in Call, r \in Repo :
          /\ fetcher[c][r] = "fetch" => since[c][r] <= now
          /\ fetcher[c][r] = "store" => since[c][r] <= tags[c][r]

LEMMA TagInit == Init => TagInv
BY DEF Init, TagInv, Each, FetcherState

\* The call's own goroutine starts fetchers and leaves theirs alone.
LEMMA MainKeepsTags ==
    ASSUME TagInv, NEW c \in Call,
           Begin(c) \/ MainStep(c) \/ CallerLeaves(c) \/ CloseResults(c)
    PROVE  TagInv' /\ \A d \in Call, r \in Repo : fetcher'[d][r] # "check" \/ fetcher[d][r] # "read"
<1>1. UNCHANGED <<now, cache, since, tags>>
  BY DEF Begin, MainStep, CallerLeaves, CloseResults, FetchPage, FetchPageFails, TakeError,
     TakeResult, TakeClosed, TakeDone, fetchVars
<1>2. CASE UNCHANGED fetcher
  BY <1>1, <1>2 DEF TagInv
<1>3. CASE FetchPage(c)
  <2>. DEFINE seen == UNION {Pages[i] : i \in 1 .. page[c]}
              started == [r \in Repo |-> IF r \in seen \cap Wanted[c] THEN "sem" ELSE "none"]
  <2>0. UNCHANGED fetcher \/ fetcher' = [fetcher EXCEPT ![c] = started]
    BY ONLY <1>3 DEF FetchPage
  <2>1. CASE fetcher' = [fetcher EXCEPT ![c] = started]
    <3>2. /\ started \in [Repo -> FetcherState]
          /\ \A r \in Repo : started[r] \in {"sem", "none"}
      BY DEF FetcherState
    <3>. HIDE DEF started
    <3>. QED  BY <1>1, <2>1, <3>2 DEF TagInv
  <2>. QED  BY <1>2, <2>0, <2>1
<1>. QED
  BY <1>2, <1>3 DEF Begin, MainStep, CallerLeaves, CloseResults, FetchPageFails,
     TakeError, TakeResult, TakeClosed, TakeDone, fetchVars

LEMMA FetcherKeepsTags ==
    ASSUME TagInv, NEW c \in Call, NEW r \in Repo, FetcherStep(c, r)
    PROVE  TagInv'
<1>. USE DEF TagInv, FetcherState, Goto, End
<1>1. ASSUME NEW from, End(c, r, from), UNCHANGED <<now, cache>> PROVE TagInv'
  BY <1>1
<1>2. ASSUME NEW from, NEW to \in {"read", "send", "end"}, Goto(c, r, from, to),
             UNCHANGED <<now, cache, since, tags>>
      PROVE  TagInv'
  BY <1>2
<1>3. CASE AwaitSlot(c, r)
  BY <1>2, <1>3 DEF AwaitSlot
<1>4. CASE CheckContext(c, r)
  BY <1>1, <1>2, <1>4 DEF CheckContext
<1>5. CASE Send(c, r) \/ FetchTagsFails(c, r)
  BY <1>1, <1>5 DEF Send, FetchTagsFails
<1>6. CASE ReadCache(c, r)
  <2>1. CASE Cached(r)
    <3>1. cache[r].tags \in Nat
      BY <2>1 DEF Cached
    <3>2. /\ fetcher' = [fetcher EXCEPT ![c][r] = "check"]
          /\ tags' = [tags EXCEPT ![c][r] = cache[r].tags]
          /\ UNCHANGED <<now, cache, since>>
      BY <1>6, <2>1 DEF ReadCache
    <3>. QED  BY <3>1, <3>2
  <2>2. CASE ~Cached(r)
    <3>1. /\ fetcher' = [fetcher EXCEPT ![c][r] = "fetch"]
          /\ since' = [since EXCEPT ![c][r] = now]
          /\ UNCHANGED <<now, cache, tags>>
      BY <1>6, <2>2 DEF ReadCache
    <3>. QED  BY <3>1
  <2>. QED  BY <2>1, <2>2
<1>7. CASE FetchTags(c, r)
  BY <1>7 DEF FetchTags
<1>8. CASE StoreTags(c, r)
  BY <1>8 DEF StoreTags
<1>. QED  BY <1>3, <1>4, <1>5, <1>6, <1>7, <1>8 DEF FetcherStep

LEMMA TagStep == TagInv /\ [Next]_vars => TagInv'
<1>1. TagInv /\ (Tick \/ UNCHANGED vars) => TagInv'
  BY DEF Tick, TagInv, vars, fetchVars
<1>. QED  BY <1>1, MainKeepsTags, FetcherKeepsTags DEF Next

\* What the cache hands out was given by the registry less than the TTL ago, also when
\* concurrent calls fetch and store in any order (remote.go:274-296).
THEOREM CacheIsFresh == Spec => CachedTagsAreFresh
<1> DEFINE FreshNow == \A c \in Call, r \in Repo :
         fetcher[c][r] = "read" /\ fetcher'[c][r] = "check" => now - tags'[c][r] < TTL
<1>1. TagInv /\ [Next]_vars => [FreshNow]_vars
  <2> SUFFICES ASSUME TagInv, Next, NEW c \in Call, NEW r \in Repo,
                      fetcher[c][r] = "read", fetcher'[c][r] = "check"
               PROVE  now - tags'[c][r] < TTL
    OBVIOUS
  <2>1. ReadCache(c, r)
    <3>1. CASE Tick
      BY <3>1 DEF Tick, fetchVars
    <3>2. ASSUME NEW d \in Call, Begin(d) \/ MainStep(d) \/ CallerLeaves(d) \/ CloseResults(d)
          PROVE  FALSE
      BY <3>2, MainKeepsTags
    <3>3. ASSUME NEW d \in Call, NEW q \in Repo, FetcherStep(d, q) PROVE ReadCache(c, r)
      <4>1. ASSUME NEW from, NEW to, from # "read" \/ to # "check", Goto(d, q, from, to)
            PROVE  FALSE
        BY <4>1 DEF TagInv, Goto
      <4>2. ReadCache(d, q)
        BY <3>3, <4>1 DEF FetcherStep, AwaitSlot, FetchTags, FetchTagsFails, StoreTags,
           CheckContext, Send, End
      <4>3. d = c /\ q = r
        <5>1. PICK to : Goto(d, q, "read", to)
          BY <4>2 DEF ReadCache
        <5>. QED  BY <5>1 DEF TagInv, Goto
      <4>. QED  BY <4>2, <4>3
    <3>. QED  BY <3>1, <3>2, <3>3 DEF Next
  <2>2. Cached(r) /\ tags'[c][r] = cache[r].tags
    BY <2>1 DEF ReadCache, Goto, TagInv
  <2>3. TTL \in Nat
    BY RemoteAssumption
  <2>. QED  BY <2>2, <2>3 DEF Cached, TagInv
<1>. QED  BY <1>1, TagInit, TagStep, PTL DEF Spec, CachedTagsAreFresh

-----------------------------------------------------------------------------
(* The type invariant: the slots, the channel and the cache stay within their *)
(* bounds.                                                                    *)

\* The goroutines of a call between taking a slot in sem and giving it back.
BusyState == {"read", "fetch", "store", "check", "send"}

Busy(c) == {r \in Repo : fetcher[c][r] \in BusyState}

\* sem counts the goroutines that talk to the registry, or may.
SlotInv ==
    /\ sem \in [Call -> Nat]
    /\ \A c \in Call : sem[c] = Cardinality(Busy(c)) /\ sem[c] <= Slots

\* The catalog is asked for no page behind its last one.
PageInv ==
    /\ page \in [Call -> 1 .. Len(Pages) + 1]
    /\ \A c \in Call : main[c] \in {"idle", "catalog"} => page[c] <= Len(Pages)

\* A goroutine sends once, and then it has ended.
SentOnce(c) ==
    /\ Cardinality(results[c]) <= Buffer /\ results[c] \cap got[c] = {}
    /\ \A r \in got[c] \cup results[c] : fetcher[c][r] = "end"
    /\ main[c] = "returned" <=> answer[c] # "none"

SentInv == \A c \in Call : SentOnce(c)

\* No tags are from the future.
DatedInv ==
    /\ now \in 0 .. MaxTime /\ DOMAIN cache \subseteq Repo
    /\ \A r \in DOMAIN cache : cache[r] \in Entry /\ cache[r].tags <= now
    /\ \A c \in Call, r \in Repo : tags[c][r] <= now

RemoteInv == ListInv /\ TagInv /\ SlotInv /\ PageInv /\ SentInv /\ DatedInv

LEMMA FiniteRepos == \A S : S \subseteq Repo => IsFiniteSet(S) /\ Cardinality(S) \in Nat
BY RemoteAssumption, FS_Subset, FS_CardinalityType DEF Repo

LEMMA RemoteInit == Init => RemoteInv
<1> SUFFICES ASSUME Init PROVE RemoteInv
  OBVIOUS
<1>1. ASSUME NEW c \in Call PROVE Busy(c) = {} /\ results[c] = {}
  <2>1. results[c] = {}
    BY DEF Init, All
  <2>2. ASSUME NEW r \in Repo PROVE fetcher[c][r] = "none"
    BY DEF Init, Each
  <2>. QED  BY <2>1, <2>2 DEF Busy, BusyState
<1>2. SlotInv
  <2>1. sem \in [Call -> Nat] /\ \A c \in Call : sem[c] = 0
    BY DEF Init, All
  <2>2. \A c \in Call : Cardinality(Busy(c)) = 0
    BY <1>1, FS_EmptySet
  <2>. QED  BY <2>1, <2>2, RemoteAssumption DEF SlotInv
<1>3. PageInv
  BY RemoteAssumption DEF Init, PageInv, All
<1>4. SentInv
  BY <1>1, FS_EmptySet, RemoteAssumption DEF Init, SentInv, SentOnce, All
<1>5. DatedInv
  BY RemoteAssumption DEF Init, DatedInv, Each
<1>. QED  BY <1>2, <1>3, <1>4, <1>5, ListInit, TagInit DEF RemoteInv

\* A call's own goroutine, or its caller, neither takes nor gives back a slot.
LEMMA MainKeepsSlots ==
    ASSUME ListInv, SlotInv, NEW c \in Call,
           Begin(c) \/ MainStep(c) \/ CallerLeaves(c) \/ CloseResults(c)
    PROVE  SlotInv'
<1>1. UNCHANGED sem
  BY DEF Begin, MainStep, CallerLeaves, CloseResults, FetchPage, FetchPageFails, TakeError,
     TakeResult, TakeClosed, TakeDone, fetchVars
<1>2. CASE UNCHANGED fetcher
  BY <1>1, <1>2 DEF SlotInv, Busy
<1>3. CASE FetchPage(c)
  <2>. DEFINE seen == UNION {Pages[i] : i \in 1 .. page[c]}
              started == [r \in Repo |-> IF r \in seen \cap Wanted[c] THEN "sem" ELSE "none"]
  <2>0. UNCHANGED fetcher \/ fetcher' = [fetcher EXCEPT ![c] = started]
    BY ONLY <1>3 DEF FetchPage
  <2>1. CASE fetcher' = [fetcher EXCEPT ![c] = started]
    <3>1. main[c] = "catalog"
      BY <1>3 DEF FetchPage
    <3>2. \A r \in Repo : started[r] \in {"sem", "none"}
      OBVIOUS
    <3>. HIDE DEF started
    <3>3. \A d \in Call : Busy(d)' = Busy(d)
      BY <2>1, <3>1, <3>2 DEF Busy, BusyState, ListInv, Shape, CallInv, NotStarted
    <3>. QED  BY <1>1, <3>3 DEF SlotInv
  <2>. QED  BY <1>2, <2>0, <2>1
<1>. QED
  BY <1>2, <1>3 DEF Begin, MainStep, CallerLeaves, CloseResults, FetchPageFails,
     TakeError, TakeResult, TakeClosed, TakeDone, fetchVars

\* What a step of a goroutine does to the set that sem counts.
LEMMA GotoBusy ==
    ASSUME ListInv, NEW c \in Call, NEW r \in Repo,
           NEW from \in FetcherState, NEW to \in FetcherState, Goto(c, r, from, to)
    PROVE  /\ \A d \in Call \ {c} : Busy(d)' = Busy(d)
           /\ Busy(c)' = IF to \in BusyState THEN Busy(c) \cup {r} ELSE Busy(c) \ {r}
           /\ r \in Busy(c) <=> from \in BusyState
BY DEF Goto, Busy, ListInv, Shape

\* A slot is taken or given back with the state that says so.
LEMMA FetcherKeepsSlots ==
    ASSUME ListInv, SlotInv, NEW c \in Call, NEW r \in Repo, FetcherStep(c, r)
    PROVE  SlotInv'
<1>0. /\ BusyState \subseteq FetcherState /\ {"sem", "end"} \subseteq FetcherState \ BusyState
      /\ Slots \in Nat
  BY RemoteAssumption DEF BusyState, FetcherState
<1>1. IsFiniteSet(Busy(c)) /\ Cardinality(Busy(c)) \in Nat /\ sem[c] = Cardinality(Busy(c))
  BY FiniteRepos DEF Busy, SlotInv
<1>2. ASSUME NEW from \in BusyState, NEW to \in BusyState, Goto(c, r, from, to), UNCHANGED sem
      PROVE  SlotInv'
  BY <1>0, <1>2, GotoBusy DEF SlotInv
<1>3. ASSUME NEW from \in BusyState, End(c, r, from) PROVE SlotInv'
  <2>1. Goto(c, r, from, "end") /\ sem' = [sem EXCEPT ![c] = @ - 1]
    BY <1>3 DEF End
  <2>2. Busy(c)' = Busy(c) \ {r} /\ r \in Busy(c) /\ \A d \in Call \ {c} : Busy(d)' = Busy(d)
    BY <1>0, <2>1, GotoBusy
  <2>3. Cardinality(Busy(c)') = Cardinality(Busy(c)) - 1
    BY <1>1, <2>2, FS_RemoveElement
  <2>4. sem[c] \in Nat \ {0}
    <3>1. Busy(c) # {}
      BY <2>2
    <3>. QED  BY <1>1, <3>1, FS_EmptySet
  <2>5. sem' \in [Call -> Nat] /\ sem'[c] = Cardinality(Busy(c)') /\ sem'[c] <= Slots
    BY <1>0, <1>1, <2>1, <2>3, <2>4 DEF SlotInv
  <2>6. ASSUME NEW d \in Call \ {c} PROVE sem'[d] = Cardinality(Busy(d)') /\ sem'[d] <= Slots
    BY <2>1, <2>2 DEF SlotInv
  <2>. QED  BY <2>5, <2>6 DEF SlotInv
<1>4. CASE AwaitSlot(c, r)
  <2>1. CASE sem[c] < Slots /\ Goto(c, r, "sem", "read") /\ sem' = [sem EXCEPT ![c] = @ + 1]
    <3>1. Busy(c)' = Busy(c) \cup {r} /\ r \notin Busy(c)
          /\ \A d \in Call \ {c} : Busy(d)' = Busy(d)
      BY <1>0, <2>1, GotoBusy DEF BusyState
    <3>2. Cardinality(Busy(c)') = Cardinality(Busy(c)) + 1
      BY <1>1, <3>1, FS_AddElement
    <3>. QED  BY <1>0, <1>1, <2>1, <3>1, <3>2 DEF SlotInv
  <2>2. CASE Goto(c, r, "sem", "end") /\ UNCHANGED sem
    <3>1. Busy(c)' = Busy(c) /\ \A d \in Call \ {c} : Busy(d)' = Busy(d)
      BY <1>0, <2>2, GotoBusy
    <3>. QED  BY <2>2, <3>1 DEF SlotInv
  <2>. QED  BY <1>4, <2>1, <2>2 DEF AwaitSlot
<1>5. CASE ReadCache(c, r)
  BY <1>2, <1>5 DEF ReadCache, BusyState
<1>6. CASE FetchTags(c, r) \/ StoreTags(c, r)
  BY <1>2, <1>6 DEF FetchTags, StoreTags, BusyState
<1>7. CASE FetchTagsFails(c, r) \/ Send(c, r)
  BY <1>3, <1>7 DEF FetchTagsFails, Send, BusyState
<1>8. CASE CheckContext(c, r)
  BY <1>2, <1>3, <1>8 DEF CheckContext, BusyState
<1>. QED  BY <1>4, <1>5, <1>6, <1>7, <1>8 DEF FetcherStep

LEMMA SlotStep == RemoteInv /\ [Next]_vars => SlotInv'
<1> SUFFICES ASSUME RemoteInv, [Next]_vars PROVE SlotInv'
  OBVIOUS
<1>1. CASE Tick \/ UNCHANGED vars
  BY <1>1 DEF Tick, vars, fetchVars, RemoteInv, SlotInv, Busy
<1>2. ASSUME NEW c \in Call,
             Begin(c) \/ MainStep(c) \/ CallerLeaves(c) \/ CloseResults(c)
      PROVE  SlotInv'
  BY <1>2, MainKeepsSlots DEF RemoteInv
<1>3. ASSUME NEW c \in Call, NEW r \in Repo, FetcherStep(c, r) PROVE SlotInv'
  BY <1>3, FetcherKeepsSlots DEF RemoteInv
<1>. QED  BY <1>1, <1>2, <1>3 DEF Next

\* Only FetchPage turns a page, and the last one is followed by the collecting.
LEMMA PageStep == RemoteInv /\ [Next]_vars => PageInv'
<1> SUFFICES ASSUME RemoteInv, [Next]_vars PROVE PageInv'
  OBVIOUS
<1> USE DEF RemoteInv, PageInv, ListInv, Shape
<1>1. Len(Pages) \in Nat
  BY RemoteAssumption
<1>2. ASSUME NEW c \in Call, FetchPage(c) PROVE PageInv'
  <2>1. page' = [page EXCEPT ![c] = @ + 1] /\ main[c] = "catalog"
    BY <1>2 DEF FetchPage
  <2>2. main' = [main EXCEPT ![c] = "collect"] \/ (page[c] < Len(Pages) /\ main' = main)
    BY ONLY <1>2 DEF FetchPage
  <2>3. page[c] \in 1 .. Len(Pages)
    BY <2>1
  <2>4. page'[c] \in 1 .. Len(Pages) + 1 /\ \A d \in Call \ {c} : page'[d] = page[d]
    BY <1>1, <2>1, <2>3
  <2>5. main'[c] \in {"idle", "catalog"} => page'[c] <= Len(Pages)
    BY <1>1, <2>1, <2>2, <2>3
  <2>6. page' \in [Call -> 1 .. Len(Pages) + 1]
    BY <2>1, <2>4
  <2>7. \A d \in Call \ {c} : main'[d] = main[d]
    BY <2>2
  <2>. QED  BY <2>4, <2>5, <2>6, <2>7
<1>3. ASSUME NEW c \in Call, UNCHANGED page,
             \/ UNCHANGED main
             \/ main' = [main EXCEPT ![c] = "returned"]
             \/ main[c] = "idle" /\ main' = [main EXCEPT ![c] = "catalog"]
      PROVE  PageInv'
  BY <1>3
<1>4. CASE Tick \/ UNCHANGED vars
  BY <1>4 DEF Tick, vars, callVars
<1>5. ASSUME NEW c \in Call,
             Begin(c) \/ MainStep(c) \/ CallerLeaves(c) \/ CloseResults(c)
      PROVE  PageInv'
  BY <1>2, <1>3, <1>5 DEF Begin, MainStep, CallerLeaves, CloseResults, FetchPageFails,
     TakeError, TakeResult, TakeClosed, TakeDone, ReturnAndCancel, Return, callVars
<1>6. ASSUME NEW c \in Call, NEW r \in Repo, FetcherStep(c, r) PROVE PageInv'
  BY <1>6 DEF FetcherStep, AwaitSlot, ReadCache, FetchTags, FetchTagsFails, StoreTags,
     CheckContext, Send, callVars
<1>. QED  BY <1>4, <1>5, <1>6 DEF Next

\* What is sent is received at most once, and the channel never holds too much.
LEMMA SentStep == RemoteInv /\ [Next]_vars => SentInv'
<1> SUFFICES ASSUME RemoteInv, [Next]_vars PROVE SentInv'
  OBVIOUS
<1> USE DEF SentInv, SentOnce, ListInv, Shape
<1>0. /\ ListInv /\ SentInv /\ Buffer \in Nat /\ ListInv'
      /\ \A c \in Call : IsFiniteSet(results[c]) /\ Cardinality(results[c]) \in Nat
  BY RemoteAssumption, FiniteRepos, ListStep DEF RemoteInv
<1>1. CASE Tick \/ UNCHANGED vars
  BY <1>0, <1>1 DEF Tick, vars, callVars, fetchVars, chanVars
<1>2. ASSUME NEW c \in Call, UNCHANGED <<fetcher, results>>,
             \/ UNCHANGED <<got, answer>>
                /\ \/ UNCHANGED main
                   \/ /\ main' = [main EXCEPT ![c] = "catalog"] /\ main[c] = "idle"
             \/ \E a \in {"list", "failed", "error", "context"} : Return(c, a)
      PROVE  SentInv'
  BY <1>0, <1>2 DEF Return
<1>3. ASSUME NEW c \in Call, FetchPage(c) PROVE SentInv'
  <2>1. \A d \in Call \ {c} : fetcher'[d] = fetcher[d] /\ main'[d] = main[d]
    BY <1>0, <1>3 DEF FetchPage
  <2>2. got[c] = {} /\ results[c] = {} /\ answer[c] = "none"
    BY <1>0, <1>3 DEF FetchPage, CallInv, NotStarted
  <2>3. main'[c] \in {"catalog", "collect"}
    BY <1>0, <1>3 DEF FetchPage
  <2>4. UNCHANGED <<got, results, answer>>
    BY <1>3 DEF FetchPage, chanVars
  <2>5. SentOnce(c)'
    BY <1>0, <2>2, <2>3, <2>4
  <2>6. ASSUME NEW d \in Call \ {c} PROVE SentOnce(d)'
    BY <1>0, <2>1, <2>4
  <2>. QED  BY <2>5, <2>6
<1>4. ASSUME NEW c \in Call, TakeResult(c) PROVE SentInv'
  <2>1. PICK r \in results[c] : /\ results' = [results EXCEPT ![c] = @ \ {r}]
                               /\ got' = [got EXCEPT ![c] = @ \cup {r}]
    BY <1>4 DEF TakeResult
  <2>2. Cardinality(results[c] \ {r}) = Cardinality(results[c]) - 1
    BY <1>0, <2>1, FS_RemoveElement
  <2>3. UNCHANGED <<main, answer, fetcher>>
    BY <1>4 DEF TakeResult, fetchVars
  <2>4. results'[c] = results[c] \ {r} /\ got'[c] = got[c] \cup {r}
    BY <1>0, <2>1
  <2>5. SentOnce(c)'
    BY <1>0, <2>1, <2>2, <2>3, <2>4
  <2>6. ASSUME NEW d \in Call \ {c} PROVE SentOnce(d)'
    BY <1>0, <2>1, <2>3
  <2>. QED  BY <2>5, <2>6
<1>5. ASSUME NEW c \in Call,
             Begin(c) \/ MainStep(c) \/ CallerLeaves(c) \/ CloseResults(c)
      PROVE  SentInv'
  BY <1>2, <1>3, <1>4, <1>5 DEF Begin, MainStep, CallerLeaves, CloseResults, FetchPageFails,
     TakeError, TakeClosed, TakeDone, ReturnAndCancel, callVars, fetchVars, chanVars
<1>6. ASSUME NEW c \in Call, NEW r \in Repo, NEW from \in FetcherState \ {"end"},
             NEW to \in FetcherState, Goto(c, r, from, to),
             UNCHANGED <<callVars, results>>
      PROVE  SentInv'
  BY <1>0, <1>6 DEF Goto, callVars
<1>7. ASSUME NEW c \in Call, NEW r \in Repo, Send(c, r), UNCHANGED callVars,
             Cardinality(results[c]) < Buffer,
             results' = [results EXCEPT ![c] = @ \cup {r}]
      PROVE  SentInv'
  <2>1. Goto(c, r, "send", "end")
    BY <1>7 DEF Send, End
  <2>2. r \notin got[c] \cup results[c]
    BY <1>0, <2>1 DEF Goto
  <2>3. Cardinality(results[c] \cup {r}) = Cardinality(results[c]) + 1
    BY <1>0, <2>2, FS_AddElement
  <2>. QED  BY <1>0, <1>7, <2>1, <2>2, <2>3 DEF Goto, callVars
<1>8. ASSUME NEW c \in Call, NEW r \in Repo, FetcherStep(c, r) PROVE SentInv'
  BY <1>6, <1>7, <1>8 DEF FetcherStep, AwaitSlot, ReadCache, FetchTags, FetchTagsFails,
     StoreTags, CheckContext, Send, End, FetcherState, chanVars
<1>. QED  BY <1>1, <1>5, <1>8 DEF Next

\* Tags are dated when the registry gives them, and the clock does not go back.
LEMMA DatedStep == RemoteInv /\ [Next]_vars => DatedInv'
<1> SUFFICES ASSUME RemoteInv, [Next]_vars PROVE DatedInv'
  OBVIOUS
<1> USE DEF DatedInv, TagInv, Entry
<1>0. TagInv /\ DatedInv /\ MaxTime \in Nat
  BY RemoteAssumption DEF RemoteInv
<1>1. CASE Tick
  BY <1>0, <1>1 DEF Tick, fetchVars
<1>2. CASE UNCHANGED <<now, cache, tags>>
  BY <1>0, <1>2
<1>3. ASSUME NEW c \in Call,
             Begin(c) \/ MainStep(c) \/ CallerLeaves(c) \/ CloseResults(c)
      PROVE  DatedInv'
  BY <1>2, <1>3 DEF Begin, MainStep, CallerLeaves, CloseResults, FetchPage, FetchPageFails,
     TakeError, TakeResult, TakeClosed, TakeDone, fetchVars
<1>4. ASSUME NEW c \in Call, NEW r \in Repo, NEW t \in Nat, t <= now,
             tags' = [tags EXCEPT ![c][r] = t], UNCHANGED <<now, cache>>
      PROVE  DatedInv'
  BY <1>0, <1>4
<1>5. ASSUME NEW c \in Call, NEW r \in Repo, FetcherStep(c, r) PROVE DatedInv'
  <2>1. CASE AwaitSlot(c, r)
    BY <1>2, <2>1 DEF AwaitSlot
  <2>2. CASE ReadCache(c, r)
    BY <1>0, <1>2, <1>4, <2>2 DEF ReadCache, Cached
  <2>3. CASE FetchTags(c, r)
    BY <1>0, <1>4, <2>3 DEF FetchTags
  <2>4. CASE StoreTags(c, r)
    BY <1>0, <2>4 DEF StoreTags
  <2>5. CASE FetchTagsFails(c, r) \/ CheckContext(c, r) \/ Send(c, r)
    BY <1>0, <1>2, <1>4, <2>5 DEF FetchTagsFails, CheckContext, Send, End
  <2>. QED  BY <1>5, <2>1, <2>2, <2>3, <2>4, <2>5 DEF FetcherStep
<1>6. CASE UNCHANGED vars
  BY <1>2, <1>6 DEF vars, fetchVars
<1>. QED  BY <1>1, <1>3, <1>5, <1>6 DEF Next

\* Every value is of its type: no more goroutines of a call than slots talk to the
\* registry, the channel holds no more than its capacity, no candidate is received
\* twice and no tags are dated after the clock (remote.go:81-127, 274-296).
THEOREM RemoteTypesCorrect == Spec => []RemoteTypeOK
<1>1. RemoteInv /\ [Next]_vars => RemoteInv'
  BY ListStep, TagStep, SlotStep, PageStep, SentStep, DatedStep DEF RemoteInv
<1>2. RemoteInv => RemoteTypeOK
  <2> SUFFICES ASSUME RemoteInv PROVE RemoteTypeOK
    OBVIOUS
  <2>1. sem \in [Call -> 0 .. Slots]
    BY RemoteAssumption DEF RemoteInv, SlotInv
  <2>. QED  BY <2>1 DEF RemoteInv, RemoteTypeOK, ListInv, Shape, TagInv, PageInv, SentInv,
            SentOnce, DatedInv, FetcherState
<1>. QED  BY <1>1, <1>2, RemoteInit, PTL DEF Spec
=============================================================================
