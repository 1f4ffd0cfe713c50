-------------------------- MODULE RetentionProofs --------------------------
(***************************************************************************)
(* The pruner never touches a file an executor has open, and deletes no row *)
(* whose files are left: proved for any runs, limits and clock.             *)
(***************************************************************************)
EXTENDS Retention, FiniteSetTheorems, TLAPS

\* A run that executes has no paths yet, neither in its row nor in a listing; a
\* listed run never executes again.  The files that the cap may take are those of
\* listed runs with paths.
OpenInv ==
    /\ \A r \in DOMAIN rows :
          rows[r].status = "pending" => rows[r].paths = FALSE /\ r \notin executing
    /\ \A r \in executing \cap DOMAIN rows : rows[r].paths = FALSE
    /\ \A r \in DOMAIN listed \cap DOMAIN rows : rows[r].status # "pending"
    /\ \A r \in executing \cap DOMAIN listed : listed[r].paths = FALSE
    /\ pc \in {"files", "history"} => todo \subseteq DOMAIN listed
    /\ pc = "cap" => \A f \in todo : f[2] \in DOMAIN listed /\ listed[f[2]].paths
    /\ \A f \in DOMAIN files : files[f].size \in Nat

\* The files of a listed run are named by it, and only if its paths are recorded.
LEMMA FilesAreOfTheRun ==
    ASSUME NEW r, NEW f \in FilesOf(r)
    PROVE  f \in DOMAIN files /\ f[2] = r /\ listed[r].paths
BY DEF FilesOf, LogOf, ResultOf

\* Pruning the files of a listed run leaves every other file as it is.
LEMMA TruncatedOther ==
    ASSUME NEW r, NEW f \in DOMAIN files, f \notin FilesOf(r)
    PROVE  f \in DOMAIN Truncated(r) /\ Truncated(r)[f] = files[f]
BY DEF Truncated, Without, Expired

\* What pruning leaves has a size.
LEMMA TruncatedSizes ==
    ASSUME NEW r, \A f \in DOMAIN files : files[f].size \in Nat
    PROVE  \A f \in DOMAIN Truncated(r) : Truncated(r)[f].size \in Nat
BY RetentionAssumption DEF Truncated, Without

\* Initially nothing executes and nothing is listed.
LEMMA OpenInit == Init => OpenInv
BY DEF Init, OpenInv

\* The steps of the other actors keep the invariant.
LEMMA WorldKeepsOpenInv ==
    ASSUME OpenInv, WorldStep
    PROVE  OpenInv'
<1> USE DEF OpenInv
<1>1. CASE \E r \in Run : Begin(r)
  BY <1>1 DEF Begin, SetRow, passVars
<1>2. CASE \E r \in Run : OpenFiles(r)
  <2>1. PICK r \in Run : OpenFiles(r)
    BY <1>2
  <2>2. \A f \in DOMAIN files' : files'[f].size \in Nat
    BY <2>1 DEF OpenFiles, LogOf, ResultOf
  <2>3. UNCHANGED <<rows, executing, pc, listed, todo>>
    BY <2>1 DEF OpenFiles, passVars
  <2> QED
    BY <2>2, <2>3
<1>3. CASE \E r \in Run : Output(r)
  BY <1>3, RetentionAssumption DEF Output, With, passVars
<1>4. CASE \E r \in Run : Sweep(r)
  BY <1>4 DEF Sweep, SetRow, passVars
<1>5. CASE \E r \in Run : Cancel(r)
  BY <1>5 DEF Cancel, SetRow, passVars
<1>6. CASE \E r \in Run : DeleteJob(r)
  BY <1>6 DEF DeleteJob, passVars
<1>7. CASE \E r \in Run : FinishWithoutPaths(r)
  BY <1>7 DEF FinishWithoutPaths, SetRow, passVars
<1>8. CASE \E r \in Run, status \in {"success", "failed"} : Finish(r, status)
  BY <1>8 DEF Finish, SetRow, With, passVars
<1>9. CASE Crash
  BY <1>9 DEF Crash, PassIsOver, Without
<1> QED
  BY <1>1, <1>2, <1>3, <1>4, <1>5, <1>6, <1>7, <1>8, <1>9 DEF WorldStep

\* The steps of a pass keep it, too.
LEMMA PassKeepsOpenInv ==
    ASSUME OpenInv, StartPass \/ PassStep \/ PassFails
    PROVE  OpenInv'
<1> USE DEF OpenInv
<1>1. CASE StartPass
  BY <1>1 DEF StartPass, FirstPage, TerminalBefore, Terminal, worldVars
<1>2. CASE StartHistory
  BY <1>2 DEF StartHistory, worldVars
<1>3. CASE DeleteRows
  BY <1>3 DEF DeleteRows
<1>4. CASE StartCap
  BY <1>4, FilesAreOfTheRun DEF StartCap, worldVars
<1>5. CASE EndPass \/ PassFails
  BY <1>5 DEF EndPass, PassFails, PassIsOver, worldVars
<1>6. CASE \E r \in todo : PruneRunFiles(r)
  BY <1>6, TruncatedSizes DEF PruneRunFiles
<1>7. CASE \E r \in todo : RemoveAllRunFiles(r)
  BY <1>7 DEF RemoveAllRunFiles, Without
<1>8. CASE \E f \in todo : RemoveOldest(f)
  BY <1>8 DEF RemoveOldest, Without
<1> QED
  BY <1>1, <1>2, <1>3, <1>4, <1>5, <1>6, <1>7, <1>8 DEF PassStep

\* The invariant is inductive.
LEMMA OpenStep == OpenInv /\ [Next]_vars => OpenInv'
<1>1. ASSUME OpenInv, Tick PROVE OpenInv'
  BY <1>1 DEF Tick, OpenInv, worldVars, passVars
<1>2. ASSUME OpenInv, UNCHANGED vars PROVE OpenInv'
  BY <1>2 DEF OpenInv, vars, worldVars, passVars
<1> QED
  BY <1>1, <1>2, WorldKeepsOpenInv, PassKeepsOpenInv DEF Next

\* What a step that changes the locals of the pass does to an open file.
OpenFileKept ==
    passVars' # passVars =>
        \A f \in DOMAIN files :
            f[2] \in executing \cap executing' =>
                f \in DOMAIN files' /\ files'[f].size >= files[f].size

\* A step of the pass removes or shortens files only if they are named in the
\* listing, and under the invariant an open one is not.
LEMMA StepKeepsOpenFiles == OpenInv /\ [Next]_vars => OpenFileKept
<1> SUFFICES ASSUME OpenInv, [Next]_vars, passVars' # passVars,
                    NEW f \in DOMAIN files, f[2] \in executing \cap executing'
             PROVE  f \in DOMAIN files' /\ files'[f].size >= files[f].size
  BY DEF OpenFileKept
<1>1. \A r \in DOMAIN listed : f \notin FilesOf(r)
  BY FilesAreOfTheRun DEF OpenInv
<1>2. files[f].size >= files[f].size
  BY DEF OpenInv
<1>3. CASE files' = files
  BY <1>2, <1>3
<1>4. CASE \E r \in todo : PruneRunFiles(r)
  <2>1. PICK r \in todo : PruneRunFiles(r)
    BY <1>4
  <2>2. f \notin FilesOf(r)
    BY <2>1, <1>1 DEF PruneRunFiles, OpenInv
  <2> QED
    BY <2>1, <2>2, <1>2, TruncatedOther DEF PruneRunFiles
<1>5. CASE \E r \in todo : RemoveAllRunFiles(r)
  BY <1>5, <1>1, <1>2 DEF RemoveAllRunFiles, Without, OpenInv
<1>6. CASE \E g \in todo : RemoveOldest(g)
  BY <1>6, <1>2 DEF RemoveOldest, Without, OpenInv
<1>7. CASE StartPass \/ PassFails \/ StartHistory \/ DeleteRows \/ StartCap \/ EndPass
  BY <1>7, <1>3 DEF StartPass, PassFails, StartHistory, DeleteRows, StartCap, EndPass,
                    worldVars
<1>8. ~ Tick /\ ~ UNCHANGED vars
  BY DEF Tick, vars
<1>9. WorldStep => Crash
  BY DEF WorldStep, Begin, OpenFiles, Output, Sweep, Cancel, DeleteJob, FinishWithoutPaths,
         Finish
<1>10. CASE PassStep
  BY ONLY <1>4, <1>5, <1>6, <1>7, <1>10 DEF PassStep
<1>11. CASE Crash
  BY <1>11 DEF Crash
<1>12. StartPass \/ PassStep \/ PassFails \/ Crash
  BY ONLY <1>8, <1>9, [Next]_vars DEF Next
<1> QED
  BY ONLY <1>7, <1>10, <1>11, <1>12

\* While a run executes, no pass of the pruner removes or truncates its files,
\* although the run may be swept or cancelled, and listed, meanwhile
\* (pruner.go:46-101).
THEOREM OpenFilesAreSafe == Spec => OpenFilesAreLeftAlone
<1>1. OpenInv /\ [Next]_vars => [OpenFileKept]_vars
  BY StepKeepsOpenFiles
<1> QED
  BY <1>1, OpenInit, OpenStep, PTL DEF Spec, OpenFilesAreLeftAlone, OpenFileKept

-----------------------------------------------------------------------------
\* A closed row: one that the pruner may list.
Closed(row) == row.status \in Terminal /\ row.finished # NULL

\* Instants are numbers, and a pass does not last longer than its day.
ClockInv ==
    /\ now \in Nat /\ passStart \in Nat /\ passStart <= now
    /\ pc # "idle" => now <= passStart + 1
    /\ \A r \in DOMAIN rows : rows[r].finished \in {NULL} \cup Nat
    /\ DOMAIN rows \subseteq Run

\* A row that was closed before the pass began is listed, as it is.
ListInv ==
    pc # "idle" =>
        \A r \in DOMAIN rows :
            Closed(rows[r]) /\ rows[r].finished < passStart =>
                r \in DOMAIN listed /\ listed[r] = rows[r]

\* The files of the listed runs before the cutoff are gone, or are to go.
HistoryInv ==
    pc = "history" =>
        /\ cutoff \in Int /\ cutoff <= passStart
        /\ \A r \in DOMAIN listed :
              listed[r].finished < cutoff /\ listed[r].paths =>
                  r \in todo \/ {LogOf(r), ResultOf(r)} \cap DOMAIN files = {}

PruneInv == OpenInv /\ ClockInv /\ ListInv /\ HistoryInv

\* A page with room for every run holds all of them.
LEMMA PageHoldsAll ==
    ASSUME Cardinality(Run) <= PageSize, NEW S, S \subseteq Run,
           \A r \in S : rows[r].finished \in Int
    PROVE  FirstPage(S) = S
<1> SUFFICES ASSUME NEW r \in S
             PROVE  Cardinality({q \in S : Before(rows, q, r)}) < PageSize
  BY DEF FirstPage
<1> DEFINE T == {q \in S : Before(rows, q, r)}
<1>1. T \subseteq Run /\ T # Run
  <2>1. r \notin T
    BY RetentionAssumption DEF Before
  <2> QED
    BY <2>1
<1>2. IsFiniteSet(Run) /\ IsFiniteSet(T) /\ Cardinality(T) \in Nat /\ Cardinality(Run) \in Nat
  BY <1>1, RetentionAssumption, FS_Subset, FS_CardinalityType
<1>3. Cardinality(T) < Cardinality(Run)
  BY <1>1, <1>2, FS_Subset
<1> QED
  BY <1>2, <1>3, RetentionAssumption

\* Initially there is no pass, and no row is closed.
LEMMA PruneInit == Init => PruneInv
BY OpenInit, RetentionAssumption
   DEF Init, PruneInv, ClockInv, ListInv, HistoryInv, NULL

\* What the other actors do to rows and files: a changed row has finished now or
\* not at all, and only a run that executes gets a new file.
LEMMA WorldFacts ==
    ASSUME WorldStep
    PROVE  /\ now' = now
           /\ \/ UNCHANGED passVars
              \/ PassIsOver
           /\ DOMAIN rows' \subseteq DOMAIN rows
           /\ \A r \in DOMAIN rows' :
                 rows'[r] = rows[r] \/ rows'[r].finished \in {now, NULL}
           /\ \A f \in DOMAIN files' : f \in DOMAIN files \/ f[2] \in executing
<1>1. ASSUME NEW r, NEW status, NEW finished \in {now, NULL}, NEW paths,
             SetRow(r, status, finished, paths)
      PROVE  /\ DOMAIN rows' \subseteq DOMAIN rows
             /\ \A q \in DOMAIN rows' :
                   rows'[q] = rows[q] \/ rows'[q].finished \in {now, NULL}
  BY <1>1 DEF SetRow
<1>2. CASE \E r \in Run : Begin(r)
  BY <1>2, <1>1 DEF Begin
<1>3. CASE \E r \in Run : OpenFiles(r)
  BY <1>3 DEF OpenFiles, LogOf, ResultOf
<1>4. CASE \E r \in Run : Output(r)
  BY <1>4 DEF Output, With
<1>5. CASE \E r \in Run : Sweep(r)
  BY <1>5, <1>1 DEF Sweep
<1>6. CASE \E r \in Run : Cancel(r)
  BY <1>6, <1>1 DEF Cancel
<1>7. CASE \E r \in Run : DeleteJob(r)
  BY <1>7 DEF DeleteJob
<1>8. CASE \E r \in Run : FinishWithoutPaths(r)
  BY <1>8, <1>1 DEF FinishWithoutPaths
<1>9. CASE \E r \in Run, status \in {"success", "failed"} : Finish(r, status)
  BY <1>9, <1>1 DEF Finish, With
<1>10. CASE Crash
  BY <1>10 DEF Crash, Without
<1> QED
  BY <1>2, <1>3, <1>4, <1>5, <1>6, <1>7, <1>8, <1>9, <1>10 DEF WorldStep

\* A step of the pass changes no row, but deletes some.
LEMMA PassRows ==
    ASSUME PassStep
    PROVE  /\ now' = now
           /\ DOMAIN rows' \subseteq DOMAIN rows
           /\ \A r \in DOMAIN rows' : rows'[r] = rows[r]
           /\ DOMAIN files' \subseteq DOMAIN files
           /\ \/ UNCHANGED <<listed, passStart>> /\ pc # "idle"
              \/ PassIsOver
BY DEF PassStep, StartHistory, DeleteRows, StartCap, EndPass, PruneRunFiles,
       RemoveAllRunFiles, RemoveOldest, worldVars, Truncated, Without

\* Instants stay numbers: the clock stands while a pass is in its second day.
LEMMA ClockStep == ClockInv /\ [Next]_vars => ClockInv'
<1> SUFFICES ASSUME ClockInv, [Next]_vars
             PROVE  ClockInv'
  OBVIOUS
<1> USE DEF ClockInv
<1>1. CASE Tick
  BY <1>1 DEF Tick, worldVars, passVars
<1>2. CASE WorldStep
  <2>1. UNCHANGED passVars \/ PassIsOver
    BY <1>2, WorldFacts
  <2>2. /\ now' \in Nat /\ passStart' \in Nat /\ passStart' <= now'
        /\ pc' # "idle" => now' <= passStart' + 1
    BY <1>2, <2>1, WorldFacts DEF passVars, PassIsOver
  <2>3. /\ \A r \in DOMAIN rows' : rows'[r].finished \in {NULL} \cup Nat
        /\ DOMAIN rows' \subseteq Run
    BY <1>2, WorldFacts
  <2> QED
    BY <2>2, <2>3
<1>3. CASE StartPass
  BY <1>3 DEF StartPass, worldVars
<1>4. CASE PassFails
  BY <1>4 DEF PassFails, PassIsOver, worldVars
<1>5. CASE PassStep
  BY <1>5, PassRows DEF PassIsOver
<1>6. CASE UNCHANGED vars
  BY <1>6 DEF vars, worldVars, passVars
<1> QED
  BY <1>1, <1>2, <1>3, <1>4, <1>5, <1>6 DEF Next

\* The listing stays complete: a row closed before the pass is not changed any more,
\* except by a late cancellation, which takes its finished_at away.
LEMMA ListStep ==
    ASSUME Cardinality(Run) <= PageSize, ClockInv, ListInv, [Next]_vars
    PROVE  ListInv'
<1> USE DEF ListInv, Closed
<1>1. CASE Tick \/ UNCHANGED vars
  BY <1>1 DEF Tick, vars, worldVars, passVars
<1>2. CASE WorldStep
  BY <1>2, WorldFacts DEF ClockInv, passVars, PassIsOver
<1>3. CASE StartPass
  <2>1. FirstPage(TerminalBefore(now)) = TerminalBefore(now)
    BY PageHoldsAll DEF TerminalBefore, ClockInv
  <2> QED
    BY <1>3, <2>1 DEF StartPass, TerminalBefore, worldVars
<1>4. CASE PassFails
  BY <1>4 DEF PassFails, PassIsOver
<1>5. CASE PassStep
  BY <1>5, PassRows DEF PassIsOver
<1> QED
  BY <1>1, <1>2, <1>3, <1>4, <1>5 DEF Next

\* Files of the listed runs do not come back, and the history phase begins with
\* every listed run before the cutoff to go.
LEMMA HistoryStep ==
    ASSUME OpenInv, ClockInv, HistoryInv, [Next]_vars
    PROVE  HistoryInv'
<1> USE DEF HistoryInv
<1>1. CASE Tick \/ UNCHANGED vars
  BY <1>1 DEF Tick, vars, worldVars, passVars
<1>2. CASE WorldStep
  <2>1. CASE PassIsOver
    BY <2>1 DEF PassIsOver
  <2>2. CASE UNCHANGED passVars
    <3>1. ASSUME NEW r \in DOMAIN listed, listed[r].paths,
                 {LogOf(r), ResultOf(r)} \cap DOMAIN files = {}
          PROVE  {LogOf(r), ResultOf(r)} \cap DOMAIN files' = {}
      <4>1. r \notin executing
        BY <3>1 DEF OpenInv
      <4> QED
        BY <1>2, <3>1, <4>1, WorldFacts DEF LogOf, ResultOf
    <3> QED
      BY <2>2, <3>1 DEF passVars
  <2> QED
    BY <1>2, <2>1, <2>2, WorldFacts
<1>3. CASE StartPass \/ PassFails \/ DeleteRows \/ StartCap \/ EndPass
  BY <1>3 DEF StartPass, PassFails, DeleteRows, StartCap, EndPass, PassIsOver
<1>4. CASE StartHistory
  BY <1>4, RetentionAssumption DEF StartHistory, ClockInv
<1>5. CASE \E r \in todo : PruneRunFiles(r) \/ \E f \in todo : RemoveOldest(f)
  BY <1>5 DEF PruneRunFiles, RemoveOldest
<1>6. CASE \E r \in todo : RemoveAllRunFiles(r)
  BY <1>6 DEF RemoveAllRunFiles, Without, FilesOf
<1> QED
  BY <1>1, <1>2, <1>3, <1>4, <1>5, <1>6 DEF Next, PassStep

\* What DeleteRows does to the rows of files that are still there.
RowKept ==
    pc = "history" /\ pc' = "rows" =>
        \A r \in DOMAIN rows \ DOMAIN rows' :
            rows[r].paths => {LogOf(r), ResultOf(r)} \cap DOMAIN files = {}

\* A row that DeleteRows finds was closed before the pass began, hence listed, hence
\* its files were removed.
LEMMA DeletedRowsHaveNoFiles ==
    ASSUME PruneInv, [Next]_vars
    PROVE  RowKept
<1> SUFFICES ASSUME pc = "history", pc' = "rows", NEW r \in DOMAIN rows \ DOMAIN rows',
                    rows[r].paths
             PROVE  {LogOf(r), ResultOf(r)} \cap DOMAIN files = {}
  BY DEF RowKept
<1>1. DeleteRows
  <2>1. ~ UNCHANGED vars /\ ~ Tick /\ ~ StartPass /\ ~ PassFails
    BY DEF vars, passVars, Tick, StartPass, PassFails, PassIsOver
  <2>2. ~ WorldStep
    BY WorldFacts DEF passVars, PassIsOver
  <2>3. PassStep
    BY <2>1, <2>2 DEF Next
  <2> QED
    BY <2>3 DEF PassStep, StartHistory, StartCap, EndPass, PruneRunFiles,
                RemoveAllRunFiles, RemoveOldest, PassIsOver
<1>2. r \in TerminalBefore(cutoff) /\ todo = {}
  BY <1>1 DEF DeleteRows
<1>3. rows[r].finished < passStart
  BY <1>2 DEF TerminalBefore, PruneInv, ClockInv, HistoryInv, NULL
<1>4. r \in DOMAIN listed /\ listed[r] = rows[r]
  BY <1>2, <1>3 DEF TerminalBefore, PruneInv, ListInv, Closed
<1> QED
  BY <1>2, <1>4 DEF TerminalBefore, PruneInv, HistoryInv

\* With a page that holds every run, the history limit deletes no row whose files are
\* still there, whatever was finished, swept or cancelled since the rows were listed
\* (pruner.go:52, 71-90).
THEOREM PrunedRowsHaveNoFiles ==
    ASSUME Cardinality(Run) <= PageSize
    PROVE  Spec => NoFileLosesItsRow
<1>1. PruneInv /\ [Next]_vars => PruneInv'
  BY OpenStep, ClockStep, ListStep, HistoryStep DEF PruneInv
<1>2. PruneInv /\ [Next]_vars => [RowKept]_vars
  BY DeletedRowsHaveNoFiles
<1> QED
  BY <1>1, <1>2, PruneInit, PTL DEF Spec, NoFileLosesItsRow, RowKept

-----------------------------------------------------------------------------
(* The type invariant.                                                     *)

\* A table of rows, of this step or the next.
RowsTyped == DOMAIN rows \subseteq Run /\ rows \in [DOMAIN rows -> Row]

FilesTyped ==
    /\ DOMAIN files \subseteq File
    /\ files \in [DOMAIN files -> [size : 0 .. MaxSize, mtime : 0 .. now]]

PassTyped ==
    /\ pc \in {"idle", "files", "history", "rows", "cap"}
    /\ DOMAIN listed \subseteq Run /\ listed \in [DOMAIN listed -> Row]
    /\ IF pc = "cap" THEN todo \subseteq File ELSE todo \subseteq DOMAIN listed
    /\ cutoff \in Int /\ total \in Int
    /\ passStart \in 0 .. now

LEMMA TypeParts ==
    RetentionTypeOK <=> /\ RowsTyped /\ FilesTyped /\ PassTyped
                        /\ now \in 0 .. MaxTime /\ executing \subseteq Run
                        /\ faults \in 0 .. MaxFaults
BY DEF RetentionTypeOK, RowsTyped, FilesTyped, PassTyped

LEMMA Bounds ==
    /\ MaxTime \in Nat /\ MaxSize \in Nat /\ 1 <= MaxSize /\ MaxFaults \in Nat
    /\ RunHistoryDays \in Nat /\ MaxLogBytesPerRun \in Nat /\ MaxTotalStorageBytes \in Nat
BY RetentionAssumption

\* The bytes of a table of files, and a table whose files are no longer than MaxSize.
BytesOf(t) == UNION {{f} \X (1 .. t[f].size) : f \in DOMAIN t}

Sized(t) == DOMAIN t \subseteq File /\ \A f \in DOMAIN t : t[f].size \in 0 .. MaxSize

LEMMA StorageOf == Storage = Cardinality(BytesOf(files)) /\ Storage' = Cardinality(BytesOf(files'))
BY DEF Storage, Bytes, BytesOf

LEMMA TypedIsSized == (FilesTyped => Sized(files)) /\ (FilesTyped' => Sized(files'))
BY DEF FilesTyped, Sized

\* They can be counted.
LEMMA BytesFinite ==
    ASSUME NEW t, Sized(t)
    PROVE  IsFiniteSet(BytesOf(t)) /\ Cardinality(BytesOf(t)) \in Nat
<1>1. BytesOf(t) \subseteq File \X (1 .. MaxSize)
  <2> SUFFICES ASSUME NEW f \in DOMAIN t, NEW b \in 1 .. t[f].size
               PROVE  <<f, b>> \in File \X (1 .. MaxSize)
    BY DEF BytesOf
  <2>. QED  BY Bounds DEF Sized
<1>2. IsFiniteSet(File)
  <2>1. IsFiniteSet({"log", "result"})
    <3>1. IsFiniteSet({"log"}) /\ {"log", "result"} = {"log"} \cup {"result"}
      BY FS_Singleton
    <3>. QED  BY <3>1, FS_AddElement
  <2>. QED  BY <2>1, RetentionAssumption, FS_Product DEF File
<1>3. IsFiniteSet(1 .. MaxSize)
  BY Bounds, FS_Interval
<1>4. IsFiniteSet(File \X (1 .. MaxSize))
  BY <1>2, <1>3, FS_Product
<1>. QED  BY <1>1, <1>4, FS_Subset, FS_CardinalityType

\* Longer files, and more of them, have more bytes.
LEMMA GrownBytes ==
    ASSUME NEW t, NEW u, Sized(t), Sized(u), DOMAIN t \subseteq DOMAIN u,
           \A f \in DOMAIN t : t[f].size <= u[f].size
    PROVE  Cardinality(BytesOf(t)) <= Cardinality(BytesOf(u))
<1>1. BytesOf(t) \subseteq BytesOf(u)
  <2> SUFFICES ASSUME NEW f \in DOMAIN t, NEW b \in 1 .. t[f].size
               PROVE  f \in DOMAIN u /\ b \in 1 .. u[f].size
    BY DEF BytesOf
  <2>. QED  BY Bounds DEF Sized
<1>. QED  BY <1>1, BytesFinite, FS_Subset

\* A file that is removed takes its size away.
LEMMA RemovedBytes ==
    ASSUME NEW t, NEW u, Sized(t), NEW f \in DOMAIN t,
           u = [g \in DOMAIN t \ {f} |-> t[g]]
    PROVE  Cardinality(BytesOf(u)) = Cardinality(BytesOf(t)) - t[f].size
<1> DEFINE B == {f} \X (1 .. t[f].size)
<1>1. t[f].size \in Nat
  BY Bounds DEF Sized
<1>2. B \subseteq BytesOf(t)
  BY DEF BytesOf
<1>3. BytesOf(u) = BytesOf(t) \ B
  <2>1. ASSUME NEW x \in BytesOf(u) PROVE x \in BytesOf(t) \ B
    <3>1. PICK g \in DOMAIN u : x \in {g} \X (1 .. u[g].size)
      BY <2>1 DEF BytesOf
    <3>. QED  BY <3>1 DEF BytesOf
  <2>2. ASSUME NEW x \in BytesOf(t) \ B PROVE x \in BytesOf(u)
    <3>1. PICK g \in DOMAIN t : x \in {g} \X (1 .. t[g].size)
      BY <2>2 DEF BytesOf
    <3>2. g # f
      BY <2>2, <3>1
    <3>. QED  BY <3>1, <3>2 DEF BytesOf
  <2>. QED  BY <2>1, <2>2
<1>4. Cardinality(B) = t[f].size
  <2> DEFINE n == t[f].size
             positions == 1 .. n
  <2>1. IsFiniteSet({f}) /\ Cardinality({f}) = 1
    BY FS_Singleton
  <2> HIDE DEF n
  <2>2. n \in Nat
    BY <1>1 DEF n
  <2>3. IsFiniteSet(positions) /\ Cardinality(positions) = n
    BY <2>2, FS_Interval
  <2> HIDE DEF positions
  <2>4. Cardinality({f} \X positions) = 1 * n
    BY <2>1, <2>3, FS_Product
  <2>5. Cardinality({f} \X positions) = n
    BY <2>2, <2>4
  <2>. QED  BY <2>5 DEF n, positions
<1>5. BytesOf(t) \cap B = B
  BY <1>2
<1> HIDE DEF B
<1>6. IsFiniteSet(BytesOf(t))
  BY BytesFinite
<1>7. Cardinality(BytesOf(t) \ B) = Cardinality(BytesOf(t)) - Cardinality(BytesOf(t) \cap B)
  BY <1>6, FS_Difference
<1>. QED  BY <1>3, <1>4, <1>5, <1>7

\* What the storage holds is a number of bytes.
LEMMA StorageType == FilesTyped => Storage \in Nat
BY StorageOf, TypedIsSized, BytesFinite

LEMMA SetRowType ==
    ASSUME RowsTyped, NEW r, NEW status \in Status, NEW finished \in {NULL} \cup Nat,
           NEW paths \in BOOLEAN, SetRow(r, status, finished, paths)
    PROVE  RowsTyped'
BY DEF RowsTyped, SetRow, Row

LEMMA WithType ==
    ASSUME FilesTyped, now \in Nat, NEW f \in File, NEW size \in 0 .. MaxSize,
           files' = With(f, size), now' = now
    PROVE  FilesTyped'
BY DEF FilesTyped, With

LEMMA WithoutType ==
    ASSUME FilesTyped, NEW S, files' = Without(S), now' = now
    PROVE  FilesTyped'
BY DEF FilesTyped, Without

LEMMA TruncatedType ==
    ASSUME FilesTyped, now \in Nat, NEW r, files' = Truncated(r), now' = now
    PROVE  FilesTyped'
<1>1. ASSUME NEW f \in DOMAIN files'
      PROVE  /\ f \in DOMAIN files
             /\ files'[f] \in [size : 0 .. MaxSize, mtime : 0 .. now]
  <2>1. f \in DOMAIN files /\ files[f] \in [size : 0 .. MaxSize, mtime : 0 .. now]
    BY <1>1 DEF Truncated, Without, FilesTyped
  <2>2. \/ files'[f] = files[f]
        \/ /\ files'[f] = [size |-> MaxLogBytesPerRun, mtime |-> now]
           /\ files[f].size > MaxLogBytesPerRun
    BY <1>1 DEF Truncated
  <2>. QED  BY <2>1, <2>2, Bounds
<1>2. files' = [f \in DOMAIN files' |-> files'[f]]
  BY DEF Truncated
<1>. QED  BY <1>1, <1>2 DEF FilesTyped

\* The rows: the worker, the sweep, CancelRun and DeleteJob, and the history limit.
LEMMA RowsStep ==
    ASSUME RetentionTypeOK, [Next]_vars
    PROVE  RowsTyped'
<1>0. RowsTyped /\ now \in Nat
  BY TypeParts, Bounds
<1>1. CASE UNCHANGED rows
  BY <1>0, <1>1 DEF RowsTyped
<1>2. ASSUME NEW S, rows' = [r \in DOMAIN rows \ S |-> rows[r]] PROVE RowsTyped'
  BY <1>0, <1>2 DEF RowsTyped
<1>3. {"pending", "running", "cancelling", "cancelled", "timeout", "failed", "success"}
         \subseteq Status
  BY DEF Status, Terminal
<1>4. \A r \in DOMAIN rows : rows[r].paths \in BOOLEAN
  BY <1>0 DEF RowsTyped, Row
<1>5. CASE WorldStep
  <2>1. ASSUME NEW r \in Run, Begin(r) PROVE RowsTyped'
    BY <1>0, <1>3, <2>1, SetRowType DEF Begin
  <2>2. ASSUME NEW r \in Run, OpenFiles(r) \/ Output(r) \/ Crash PROVE RowsTyped'
    BY <1>1, <2>2 DEF OpenFiles, Output, Crash
  <2>3. ASSUME NEW r \in Run, Sweep(r) PROVE RowsTyped'
    BY <1>0, <1>3, <1>4, <2>3, SetRowType DEF Sweep
  <2>4. ASSUME NEW r \in Run, Cancel(r) PROVE RowsTyped'
    BY <1>0, <1>3, <1>4, <2>4, SetRowType DEF Cancel
  <2>5. ASSUME NEW r \in Run, DeleteJob(r) PROVE RowsTyped'
    BY <1>2, <2>5 DEF DeleteJob
  <2>6. ASSUME NEW r \in Run, FinishWithoutPaths(r) PROVE RowsTyped'
    BY <1>0, <1>1, <1>3, <2>6, SetRowType DEF FinishWithoutPaths
  <2>7. ASSUME NEW r \in Run, NEW status \in {"success", "failed"}, Finish(r, status)
        PROVE  RowsTyped'
    BY <1>0, <1>1, <1>3, <2>7, SetRowType DEF Finish
  <2>8. CASE Crash
    BY <1>1, <2>8 DEF Crash
  <2>. QED  BY <1>5, <2>1, <2>2, <2>3, <2>4, <2>5, <2>6, <2>7, <2>8 DEF WorldStep
<1>6. CASE DeleteRows
  BY <1>2, <1>6 DEF DeleteRows
<1>7. CASE PassStep /\ ~DeleteRows
  BY <1>1, <1>7 DEF PassStep, StartHistory, StartCap, EndPass, PruneRunFiles,
     RemoveAllRunFiles, RemoveOldest, worldVars
<1>8. CASE Tick \/ StartPass \/ PassFails \/ UNCHANGED vars
  BY <1>1, <1>8 DEF Tick, StartPass, PassFails, vars, worldVars
<1>. QED  BY <1>5, <1>6, <1>7, <1>8 DEF Next

\* The files: executors write them, and passes remove and truncate them.
LEMMA FilesStep ==
    ASSUME RetentionTypeOK, [Next]_vars
    PROVE  FilesTyped'
<1>0. FilesTyped /\ now \in Nat
  BY TypeParts, Bounds
<1>1. CASE UNCHANGED <<files, now>>
  BY <1>0, <1>1 DEF FilesTyped
<1>2. CASE WorldStep
  <2>0. \A r \in Run : LogOf(r) \in File /\ ResultOf(r) \in File
    BY DEF LogOf, ResultOf, File
  <2>1. ASSUME NEW r \in Run, OpenFiles(r) PROVE FilesTyped'
    <3>1. \A f \in DOMAIN files' :
             \/ f \in DOMAIN files /\ files'[f] = files[f]
             \/ f \in File /\ files'[f] = [size |-> 0, mtime |-> now]
      <4>1. ASSUME NEW f \in DOMAIN files'
            PROVE  /\ f \in DOMAIN files \cup {LogOf(r), ResultOf(r)}
                   /\ files'[f] = IF f[2] = r THEN [size |-> 0, mtime |-> now] ELSE files[f]
        BY <2>1 DEF OpenFiles
      <4>2. LogOf(r)[2] = r /\ ResultOf(r)[2] = r
        BY DEF LogOf, ResultOf
      <4>3. DOMAIN files \subseteq File
        BY <1>0 DEF FilesTyped
      <4>. QED  BY <2>0, <4>1, <4>2, <4>3
    <3>2. files' = [f \in DOMAIN files' |-> files'[f]] /\ now' = now
      BY <2>1 DEF OpenFiles
    <3>3. \A f \in DOMAIN files' :
             f \in File /\ files'[f] \in [size : 0 .. MaxSize, mtime : 0 .. now]
      BY <1>0, <3>1, Bounds DEF FilesTyped
    <3>. QED  BY <3>2, <3>3 DEF FilesTyped
  <2>2. ASSUME NEW r \in Run, Output(r) PROVE FilesTyped'
    BY <1>0, <2>0, <2>2, WithType, Bounds DEF Output
  <2>3. ASSUME NEW r \in Run, NEW status \in {"success", "failed"}, Finish(r, status)
        PROVE  FilesTyped'
    BY <1>0, <2>0, <2>3, WithType, Bounds DEF Finish
  <2>4. CASE Crash
    BY <1>0, <2>4, WithoutType DEF Crash
  <2>. QED  BY <1>1, <1>2, <2>1, <2>2, <2>3, <2>4 DEF WorldStep, Begin, Sweep, Cancel,
            DeleteJob, FinishWithoutPaths
<1>3. CASE PassStep
  BY <1>0, <1>1, <1>3, WithoutType, TruncatedType DEF PassStep, StartHistory, DeleteRows,
     StartCap, EndPass, PruneRunFiles, RemoveAllRunFiles, RemoveOldest, worldVars
<1>4. CASE Tick
  BY <1>0, <1>4 DEF Tick, worldVars, FilesTyped
<1>5. CASE StartPass \/ PassFails \/ UNCHANGED vars
  BY <1>1, <1>5 DEF StartPass, PassFails, vars, worldVars
<1>. QED  BY <1>2, <1>3, <1>4, <1>5 DEF Next

\* The files that the cap may still take are there, and the storage holds at least what
\* the pass believes.
CapInv == pc = "cap" => todo \subseteq DOMAIN files /\ total <= Storage

\* The locals of the pass.
LEMMA PassTypedStep ==
    ASSUME RetentionTypeOK, CapInv, [Next]_vars
    PROVE  PassTyped'
<1>0. PassTyped /\ RowsTyped /\ FilesTyped /\ now \in Nat
  BY TypeParts, Bounds
<1>1. CASE PassIsOver /\ now' = now
  BY <1>0, <1>1 DEF PassIsOver, PassTyped
<1>2. CASE UNCHANGED passVars /\ now' \in {now, now + 1}
  BY <1>0, <1>2 DEF passVars, PassTyped
<1>3. CASE WorldStep
  BY <1>1, <1>2, <1>3, WorldFacts
<1>4. CASE StartPass
  BY <1>0, <1>4 DEF StartPass, FirstPage, TerminalBefore, PassTyped, RowsTyped
<1>5. CASE StartHistory
  BY <1>0, <1>5, Bounds DEF StartHistory, PassTyped
<1>6. CASE StartCap
  <2>1. UNION {FilesOf(r) : r \in DOMAIN listed} \subseteq File
    BY <1>0 DEF FilesOf, FilesTyped
  <2>2. Storage \in Int
    BY <1>0, StorageType
  <2>. QED  BY <1>0, <1>6, <2>1, <2>2 DEF StartCap, PassTyped
<1>7. CASE \E f \in todo : RemoveOldest(f)
  <2>1. PICK f \in todo : RemoveOldest(f)
    BY <1>7
  <2>2. files[f].size \in Int
    BY <1>0, <2>1 DEF FilesTyped, RemoveOldest, CapInv
  <2>. QED  BY <1>0, <2>1, <2>2 DEF RemoveOldest, PassTyped
<1>8. CASE DeleteRows \/ \E r \in todo : PruneRunFiles(r) \/ RemoveAllRunFiles(r)
  BY <1>0, <1>8 DEF DeleteRows, PruneRunFiles, RemoveAllRunFiles, PassTyped
<1>9. CASE EndPass \/ PassFails
  BY <1>1, <1>9 DEF EndPass, PassFails
<1>10. CASE Tick \/ UNCHANGED vars
  BY <1>2, <1>10 DEF Tick, vars
<1>. QED  BY <1>3, <1>4, <1>5, <1>6, <1>7, <1>8, <1>9, <1>10 DEF Next, PassStep

\* A run has no files before it executes; Execute opens both at once; and what it
\* writes as a result is short.
OwnFilesInv ==
    /\ \A r \in DOMAIN rows :
          rows[r].status = "pending" => {LogOf(r), ResultOf(r)} \cap DOMAIN files = {}
    /\ \A r \in executing : LogOf(r) \in DOMAIN files <=> ResultOf(r) \in DOMAIN files
    /\ \A r \in Run : ResultOf(r) \in DOMAIN files => files[ResultOf(r)].size <= 1

RetentionInv == RetentionTypeOK /\ OpenInv /\ OwnFilesInv /\ CapInv

LEMMA NamesDiffer ==
    /\ \A q, r : LogOf(q) # ResultOf(r)
    /\ \A q, r : (LogOf(q) = LogOf(r) \/ ResultOf(q) = ResultOf(r)) => q = r
    /\ \A r : LogOf(r)[2] = r /\ ResultOf(r)[2] = r
    /\ \A f \in File : f = LogOf(f[2]) \/ f = ResultOf(f[2])
BY DEF LogOf, ResultOf, File

\* The other actors only add to the files: Execute truncates none.
LEMMA WorldGrows ==
    ASSUME RetentionInv, WorldStep, ~Crash
    PROVE  /\ DOMAIN files \subseteq DOMAIN files'
           /\ \A f \in DOMAIN files : files[f].size <= files'[f].size
<1>0. DOMAIN files \subseteq File /\ \A f \in DOMAIN files : files[f].size \in 0 .. MaxSize
  BY TypeParts, TypedIsSized DEF RetentionInv, Sized
<1>1. CASE UNCHANGED files
  BY <1>0, <1>1, Bounds
<1>2. ASSUME NEW r \in Run, OpenFiles(r)
      PROVE  \A f \in DOMAIN files : f \in DOMAIN files' /\ files'[f] = files[f]
  <2>1. ASSUME NEW f \in DOMAIN files PROVE f[2] # r
    BY <1>0, <1>2, NamesDiffer DEF OpenFiles, RetentionInv, OwnFilesInv
  <2>. QED  BY <1>2, <2>1 DEF OpenFiles
<1>3. ASSUME NEW g, NEW n \in Nat, files' = With(g, n),
             g \in DOMAIN files => files[g].size <= n
      PROVE  /\ DOMAIN files \subseteq DOMAIN files'
             /\ \A f \in DOMAIN files : files[f].size <= files'[f].size
  BY <1>0, <1>3, Bounds DEF With
<1>4. CASE \E r \in Run : OpenFiles(r)
  BY <1>0, <1>2, <1>4, Bounds
<1>5. CASE \E r \in Run : Output(r)
  BY <1>0, <1>3, <1>5, Bounds DEF Output
<1>6. CASE \E r \in Run, status \in {"success", "failed"} : Finish(r, status)
  BY <1>3, <1>6 DEF Finish, RetentionInv, OwnFilesInv
<1>. QED  BY <1>1, <1>4, <1>5, <1>6 DEF WorldStep, Begin, Sweep, Cancel, DeleteJob,
          FinishWithoutPaths

\* ... so the storage is at least what the pass counted and has not removed since.
LEMMA CapStep ==
    ASSUME RetentionInv, FilesTyped', [Next]_vars
    PROVE  CapInv'
<1> USE DEF RetentionInv, CapInv
<1>0. FilesTyped /\ Sized(files) /\ Sized(files') /\ PassTyped
  BY TypeParts, TypedIsSized
<1>1. CASE UNCHANGED <<files, pc, todo, total>>
  BY <1>1, StorageOf
<1>2. CASE Crash
  BY <1>2 DEF Crash, PassIsOver
<1>3. CASE WorldStep /\ ~Crash
  <2>1. Storage <= Storage' /\ DOMAIN files \subseteq DOMAIN files'
    BY <1>0, <1>3, WorldGrows, GrownBytes, StorageOf
  <2>2. Storage \in Nat /\ Storage' \in Nat /\ total \in Int
    BY <1>0, StorageOf, BytesFinite DEF PassTyped
  <2>3. UNCHANGED passVars \/ PassIsOver
    BY <1>3, WorldFacts
  <2>. QED  BY <2>1, <2>2, <2>3 DEF passVars, PassIsOver
<1>4. CASE StartCap
  <2>1. UNION {FilesOf(r) : r \in DOMAIN listed} \subseteq DOMAIN files
    BY DEF FilesOf
  <2>2. Storage' = Storage /\ Storage \in Nat
    BY <1>0, <1>4, StorageOf, BytesFinite DEF StartCap, worldVars
  <2>. QED  BY <1>4, <2>1, <2>2 DEF StartCap, worldVars
<1>5. CASE \E f \in todo : RemoveOldest(f)
  <2>1. PICK f \in todo : RemoveOldest(f)
    BY <1>5
  <2>2. f \in DOMAIN files /\ files' = [g \in DOMAIN files \ {f} |-> files[g]]
    BY <2>1 DEF RemoveOldest, Without
  <2>3. Storage' = Storage - files[f].size
    BY <1>0, <2>2, RemovedBytes, StorageOf
  <2>4. Storage \in Nat /\ total \in Int /\ files[f].size \in Int
    BY <1>0, <2>2, StorageOf, BytesFinite DEF PassTyped, Sized
  <2>. QED  BY <2>1, <2>2, <2>3, <2>4 DEF RemoveOldest
<1>6. pc' = "cap" => \/ UNCHANGED <<files, pc, todo, total>> \/ WorldStep \/ StartCap
                     \/ \E f \in todo : RemoveOldest(f)
  BY DEF Next, PassStep, Tick, StartPass, PassFails, PassIsOver, StartHistory, DeleteRows,
     EndPass, PruneRunFiles, RemoveAllRunFiles, vars, worldVars, passVars
<1>. QED  BY <1>1, <1>2, <1>3, <1>4, <1>5, <1>6

LEMMA OwnFilesStep ==
    ASSUME RetentionInv, [Next]_vars
    PROVE  OwnFilesInv'
<1> USE DEF RetentionInv, OwnFilesInv
<1>0. DOMAIN files \subseteq File /\ DOMAIN rows \subseteq Run /\ executing \subseteq Run
  BY TypeParts DEF FilesTyped, RowsTyped
<1>1. CASE UNCHANGED worldVars
  BY <1>1 DEF worldVars
<1>2. ASSUME NEW r \in Run, Begin(r) PROVE OwnFilesInv'
  BY <1>2 DEF Begin, SetRow
<1>3. ASSUME NEW r \in Run, OpenFiles(r) PROVE OwnFilesInv'
  <2>1. DOMAIN files' = DOMAIN files \cup {LogOf(r), ResultOf(r)}
    BY <1>3 DEF OpenFiles
  <2>2. \A q \in Run : ResultOf(q) \in DOMAIN files' => files'[ResultOf(q)].size <= 1
    BY <1>3, <2>1, NamesDiffer DEF OpenFiles
  <2>3. \A q \in DOMAIN rows : rows[q].status = "pending" => q # r
    BY <1>3 DEF OpenFiles, OpenInv
  <2>. QED  BY <1>3, <2>1, <2>2, <2>3, NamesDiffer DEF OpenFiles
<1>4. ASSUME NEW r \in Run, Output(r) PROVE OwnFilesInv'
  BY <1>4, NamesDiffer DEF Output, With
<1>5. ASSUME NEW r \in Run, NEW status \in {"success", "failed"}, Finish(r, status)
      PROVE  OwnFilesInv'
  <2>1. DOMAIN files' = DOMAIN files /\ executing' \subseteq executing
    BY <1>5 DEF Finish, With
  <2>2. \A q \in Run : ResultOf(q) \in DOMAIN files' => files'[ResultOf(q)].size <= 1
    BY <1>5, <2>1, NamesDiffer DEF Finish, With
  <2>3. \A q \in DOMAIN rows' : rows'[q].status = "pending" =>
                                   q \in DOMAIN rows /\ rows[q].status = "pending"
    BY <1>5 DEF Finish, SetRow
  <2>. QED  BY <2>1, <2>2, <2>3
<1>6. ASSUME UNCHANGED files, executing' \subseteq executing,
             \A q \in DOMAIN rows' : rows'[q].status = "pending" =>
                                        q \in DOMAIN rows /\ rows[q].status = "pending"
      PROVE  OwnFilesInv'
  BY <1>6
<1>7. CASE WorldStep
  <2>1. ASSUME NEW r, NEW status \in Status \ {"pending"}, NEW finished, NEW paths,
               SetRow(r, status, finished, paths), NEW q \in DOMAIN rows',
               rows'[q].status = "pending"
        PROVE  q \in DOMAIN rows /\ rows[q].status = "pending"
    BY <2>1 DEF SetRow
  <2>2. {"running", "cancelling", "cancelled", "timeout", "failed"} \subseteq Status \ {"pending"}
    BY DEF Status, Terminal
  <2>3. ASSUME NEW r \in Run, Sweep(r) PROVE OwnFilesInv'
    BY <1>6, <2>1, <2>2, <2>3 DEF Sweep
  <2>4. ASSUME NEW r \in Run, Cancel(r) PROVE OwnFilesInv'
    BY <1>6, <2>1, <2>2, <2>4 DEF Cancel
  <2>5. ASSUME NEW r \in Run, DeleteJob(r) PROVE OwnFilesInv'
    BY <1>6, <2>5 DEF DeleteJob
  <2>6. ASSUME NEW r \in Run, FinishWithoutPaths(r) PROVE OwnFilesInv'
    BY <1>6, <2>1, <2>2, <2>6 DEF FinishWithoutPaths
  <2>7. CASE Crash
    BY <2>7, NamesDiffer DEF Crash, Without
  <2>. QED  BY <1>2, <1>3, <1>4, <1>5, <1>7, <2>3, <2>4, <2>5, <2>6, <2>7 DEF WorldStep
<1>8. ASSUME DOMAIN files' \subseteq DOMAIN files, executing' = executing, rows' = rows,
             \A f \in DOMAIN files : f[2] \in executing => f \in DOMAIN files',
             \A r \in Run : ResultOf(r) \in DOMAIN files' =>
                               files'[ResultOf(r)] = files[ResultOf(r)]
      PROVE  OwnFilesInv'
  <2>1. \A r \in DOMAIN rows' :
           rows'[r].status = "pending" => {LogOf(r), ResultOf(r)} \cap DOMAIN files' = {}
    BY <1>8
  <2>2. \A r \in executing' : LogOf(r) \in DOMAIN files' <=> ResultOf(r) \in DOMAIN files'
    BY <1>8, NamesDiffer
  <2>3. \A r \in Run : ResultOf(r) \in DOMAIN files' => files'[ResultOf(r)].size <= 1
    BY <1>8
  <2>. QED  BY <2>1, <2>2, <2>3
<1>9. CASE \E r \in todo : PruneRunFiles(r)
  <2>1. PICK r \in todo : PruneRunFiles(r)
    BY <1>9
  <2>2. \A f \in DOMAIN files : f[2] \in executing => f \in DOMAIN files'
    BY <2>1, FilesAreOfTheRun, TruncatedOther DEF PruneRunFiles, OpenInv
  <2>3. DOMAIN files' \subseteq DOMAIN files
    BY <2>1 DEF PruneRunFiles, Truncated, Without
  <2>4. \A q \in Run : ResultOf(q) \in DOMAIN files' =>
                          files'[ResultOf(q)] = files[ResultOf(q)]
    BY <2>1, NamesDiffer DEF PruneRunFiles, Truncated
  <2>. QED  BY <1>8, <2>1, <2>2, <2>3, <2>4 DEF PruneRunFiles
<1>10. CASE \E r \in todo : RemoveAllRunFiles(r)
  BY <1>8, <1>10, FilesAreOfTheRun DEF RemoveAllRunFiles, Without, OpenInv
<1>11. CASE \E f \in todo : RemoveOldest(f)
  BY <1>8, <1>11 DEF RemoveOldest, Without, OpenInv
<1>12. CASE DeleteRows
  BY <1>6, <1>12 DEF DeleteRows
<1>. QED
  BY <1>1, <1>7, <1>9, <1>10, <1>11, <1>12 DEF Next, PassStep, Tick, StartPass, PassFails,
     StartHistory, StartCap, EndPass, vars

LEMMA RetentionInit == Init => RetentionInv
BY OpenInit, Bounds DEF Init, RetentionInv, RetentionTypeOK, OwnFilesInv, CapInv, Row, Status

LEMMA RetentionStep == RetentionInv /\ [Next]_vars => RetentionInv'
<1> SUFFICES ASSUME RetentionInv, [Next]_vars PROVE RetentionInv'
  OBVIOUS
<1> USE DEF RetentionInv
<1>0. now \in 0 .. MaxTime /\ executing \subseteq Run /\ faults \in 0 .. MaxFaults
  BY TypeParts
<1>1. now' \in 0 .. MaxTime /\ executing' \subseteq Run /\ faults' \in 0 .. MaxFaults
  <2>1. CASE Tick
    BY <1>0, <2>1, Bounds DEF Tick, worldVars
  <2>2. CASE WorldStep
    <3>1. now' = now /\ faults' \in {faults, faults + 1} /\ (faults' # faults => faults < MaxFaults)
      BY <2>2 DEF WorldStep, Begin, OpenFiles, Output, Sweep, Cancel, DeleteJob,
         FinishWithoutPaths, Finish, Crash
    <3>2. executing' \subseteq executing \cup Run
      BY <2>2 DEF WorldStep, Begin, OpenFiles, Output, Sweep, Cancel, DeleteJob,
         FinishWithoutPaths, Finish, Crash
    <3>. QED  BY <1>0, <3>1, <3>2, Bounds
  <2>3. CASE PassStep
    BY <1>0, <2>3 DEF PassStep, StartHistory, DeleteRows, StartCap, EndPass, PruneRunFiles,
       RemoveAllRunFiles, RemoveOldest, worldVars
  <2>4. CASE StartPass \/ PassFails \/ UNCHANGED vars
    BY <1>0, <2>4, Bounds DEF StartPass, PassFails, vars, worldVars
  <2>. QED  BY <2>1, <2>2, <2>3, <2>4 DEF Next
<1>2. RetentionTypeOK'
  <2>1. RowsTyped' /\ FilesTyped' /\ PassTyped'
    BY RowsStep, FilesStep, PassTypedStep
  <2>. QED  BY <1>1, <2>1 DEF RetentionTypeOK, RowsTyped, FilesTyped, PassTyped
<1>. QED  BY <1>2, OpenStep, OwnFilesStep, CapStep, FilesStep

\* Every value is of its type: the pass visits only runs it listed and files of theirs,
\* and no file is dated after the clock (pruner.go:46-258).
THEOREM RetentionTypesCorrect == Spec => []RetentionTypeOK
<1>1. RetentionInv => RetentionTypeOK
  BY DEF RetentionInv
<1>. QED  BY <1>1, RetentionInit, RetentionStep, PTL DEF Spec

\* The cap takes no file in vain, although executors write to the storage, and jobs and
\* processes end, while it removes files (pruner.go:173-203).
THEOREM CapTakesNoFileInVain == Spec => OnlyAboveCap
<1> DEFINE Above == pc = "cap" /\ pc' = "cap" /\ files' # files /\ todo' # todo =>
                       Storage > MaxTotalStorageBytes
<1>1. RetentionInv /\ [Next]_vars => [Above]_vars
  <2> SUFFICES ASSUME RetentionInv, Next, pc = "cap", pc' = "cap", todo' # todo
               PROVE  Storage > MaxTotalStorageBytes
    OBVIOUS
  <2>1. ~WorldStep
    BY WorldFacts DEF passVars, PassIsOver
  <2>2. PICK f \in todo : RemoveOldest(f)
    BY <2>1 DEF Next, PassStep, Tick, StartPass, PassFails, PassIsOver, StartHistory,
       DeleteRows, StartCap, EndPass, PruneRunFiles, RemoveAllRunFiles, passVars
  <2>3. Storage \in Nat /\ total \in Int /\ total <= Storage
    BY TypeParts, StorageType DEF RetentionInv, PassTyped, CapInv
  <2>. QED  BY <2>2, <2>3, Bounds DEF RemoveOldest
<1>. QED  BY <1>1, RetentionInit, RetentionStep, PTL DEF Spec, OnlyAboveCap
=============================================================================
