----------------------- MODULE MemoryPagesPoolProofs -----------------------
(***************************************************************************)
(* Theorems about MemoryPagesPool, for any number of threads and pages.    *)
(* The inductive invariant adds to PageConservation who holds which mutex  *)
(* and what a thread has in its hands at each point of an operation, the   *)
(* state each page has on its way, and what a thread that is alone in      *)
(* updateBufferState() knows about the usage.                              *)
(***************************************************************************)
EXTENDS MemoryPagesPool, FiniteSetTheorems, TLAPS

UpdatePoints == {"sample", "decide", "write", "store"}

\* The points of getPage() and of releasePage(), and the mutex held at each.
Locks ==
  \A t \in Threads :
    /\ pc[t] = "out" <=> op[t] = "none"
    /\ op[t] = "get" => pc[t] \in {"popping", "popped"} \cup UpdatePoints /\ popMutex = t
    /\ op[t] = "release" => pc[t] \in {"idling", "lock", "pushing"} \cup UpdatePoints
    /\ op[t] = "release" /\ pc[t] \in {"pushing"} \cup UpdatePoints => pushMutex = t

\* The page being popped is still the first of the FIFO, and the slot being
\* filled holds the page being released.
InFlight ==
  \A t \in Threads :
    /\ pc[t] = "popping" /\ page[t] # NoPage =>
         pagesAvailable # <<>> /\ page[t] = pagesAvailable[1]
    /\ pc[t] \in {"idling", "lock", "pushing"} => page[t] # NoPage
    /\ pc[t] = "pushing" => slot = page[t]

\* t is in getPage() or releasePage() with page p, between the pop and
\* updatePageState(Allocated), or between updatePageState(Idle) and the push.
HeldIdle(t, p) == page[t] = p /\ pc[t] \in {"popped", "lock", "pushing"}

\* t has page p, marked Allocated and not yet Idle again.
HeldInUse(t, p) == page[t] = p /\ pc[t] \in {"out"} \cup UpdatePoints

\* Where the pages are whose state is Idle, and where the others.
KnownIdle(p) == InFifo(p) \/ \E t \in Threads : HeldIdle(t, p)
KnownInUse(p) == InContainer(p) \/ \E t \in Threads : HeldInUse(t, p)

\* PageStateAgrees, with the pages in flight.
PageMarks ==
  \A p \in Pages :
    /\ KnownIdle(p) => pageState[p] = "Idle"
    /\ KnownInUse(p) => pageState[p] # "Idle"

\* The buffer state s agrees with the thresholds for n free pages.
AgreesWith(n, s) ==
  /\ n = 0 => s = "full"
  /\ Above(n, HighPct) => s # "empty"
  /\ Below(n, OkPct) => s = "empty"

\* What the thread t in updateBufferState() knows when it is alone there: the
\* sample it took is still the number of free pages.
KnowsUsage(t) ==
  LET n == Len(pagesAvailable) IN
    /\ pc[t] \in {"decide", "write", "store"} => avail[t] = n
    /\ pc[t] = "write" => AgreesWith(n, decided[t])
    /\ pc[t] = "store" => AgreesWith(n, state)

\* Unless the last update overlapped with another one, at most one thread is
\* updating, and it knows the usage; when it is done the usage is published.
SoloUpdate ==
  ~ raced =>
    /\ \A t, u \in Threads : Updating(t) /\ Updating(u) => t = u
    /\ \A t \in Threads : KnowsUsage(t)
    /\ Quiet => bufferUsage = Len(pagesAvailable) /\ AgreesWith(Len(pagesAvailable), state)

IInv == TypeOK /\ Locks /\ InFlight /\ PageConservation /\ PageMarks /\ SoloUpdate

-----------------------------------------------------------------------------
(* The FIFO.                                                               *)

\* A page that a thread carries is not in the FIFO, so that the FIFO, which has
\* no duplicates, is not full: the pigeonhole argument that lets releasePage()
\* ignore the value returned by push().
LEMMA RoomForCarriedPage ==
  ASSUME TypeOK, FifoHasNoDuplicates, NEW p \in Pages, ~ InFifo(p)
  PROVE  Len(pagesAvailable) < NumberOfPages
<1> DEFINE n == Len(pagesAvailable)
<1> DEFINE Others == Pages \ {p}
<1>1. n \in Nat /\ pagesAvailable \in [1 .. n -> Pages]
  BY DEF TypeOK
<1>2. IsFiniteSet(Pages) /\ Cardinality(Pages) = NumberOfPages
  BY FS_Interval, PoolAssumption DEF Pages
<1>3. IsFiniteSet(Others) /\ Cardinality(Others) = NumberOfPages - 1
  BY <1>2, FS_RemoveElement
<1>4. IsFiniteSet(1 .. n) /\ Cardinality(1 .. n) = n
  BY <1>1, FS_Interval
<1>5. pagesAvailable \in [1 .. n -> Others]
  BY <1>1 DEF InFifo
<1>6. SUFFICES ASSUME n >= NumberOfPages PROVE FALSE
  BY <1>1, PoolAssumption
<1>7. Cardinality(Others) < Cardinality(1 .. n)
  BY <1>1, <1>3, <1>4, <1>6, PoolAssumption
<1>8. \E i, j \in 1 .. n : i # j /\ pagesAvailable[i] = pagesAvailable[j]
  BY ONLY <1>3, <1>4, <1>5, <1>7, FS_PigeonHole
<1>9. DOMAIN pagesAvailable = 1 .. n
  BY <1>1
<1> QED
  BY <1>8, <1>9 DEF FifoHasNoDuplicates

-----------------------------------------------------------------------------
(* Type correctness.                                                       *)

\* The constructor leaves every variable with its type.
LEMMA TypeInit == Init => TypeOK
<1> SUFFICES ASSUME Init PROVE TypeOK
  OBVIOUS
<1>1. [i \in 1 .. NumberOfPages |-> i] \in Seq(Pages)
  BY PoolAssumption DEF Pages
<1>2. used \in [Pages -> 0 .. ChildSlots]
  BY PoolAssumption DEF Init
<1>3. bufferUsage \in Nat
  BY PoolAssumption DEF Init
<1> QED
  BY <1>1, <1>2, <1>3 DEF Init, TypeOK, NoPage, PageStates, BufferStates, Points

\* What the destruction of an unreferenced container changes has its type.
LEMMA DestroyType ==
  ASSUME TypeOK, NEW t \in Threads, NEW p \in Pages, DestroyUnused(t, p)
  PROVE  /\ used' \in [Pages -> 0 .. ChildSlots]
         /\ op' \in [Threads -> {"none", "get", "release"}]
         /\ pc' \in [Threads -> Points]
         /\ page' \in [Threads -> Pages \cup {NoPage}]
<1>1. 0 \in 0 .. ChildSlots
  BY PoolAssumption
<1>2. CASE LastReference(p)
  BY ZenonT(30), <1>1, <1>2 DEF TypeOK, DestroyUnused, LastReference, StartRelease, Goto, Points
<1>3. CASE ~ LastReference(p)
  BY <1>3 DEF TypeOK, DestroyUnused, LastReference
<1> QED
  BY <1>2, <1>3

\* Every step keeps the types; the pop needs to know that the FIFO is not empty.
LEMMA TypeStep == TypeOK /\ InFlight /\ [Next]_vars => TypeOK'
<1> SUFFICES ASSUME TypeOK, InFlight, [Next]_vars PROVE TypeOK'
  OBVIOUS
<1> USE PoolAssumption DEF TypeOK, Points, BufferStates, PageStates, NoPage, At, Goto,
        fifoVars, blockVars, mutexes, usageVars
<1>1. CASE UNCHANGED vars
  BY <1>1 DEF vars
<1>2. ASSUME NEW t \in Threads, GetPage(t) PROVE TypeOK'
  BY <1>2 DEF GetPage
<1>3. ASSUME NEW t \in Threads, PopPage(t) PROVE TypeOK'
  BY <1>3 DEF PopPage, BeginUpdate, InFlight
<1>4. ASSUME NEW t \in Threads, MarkAllocated(t) PROVE TypeOK'
  BY <1>4 DEF MarkAllocated
<1>5. ASSUME NEW t \in Threads, MarkIdle(t) PROVE TypeOK'
  BY <1>5 DEF MarkIdle
<1>6. ASSUME NEW t \in Threads, PushPage(t) PROVE TypeOK'
  BY <1>6 DEF PushPage, FillSlot
<1>7. ASSUME NEW t \in Threads, PublishPage(t) PROVE TypeOK'
  BY <1>7 DEF PublishPage, BeginUpdate
<1>8. ASSUME NEW t \in Threads, SampleUsage(t) PROVE TypeOK'
  BY <1>8 DEF SampleUsage
<1>9. ASSUME NEW t \in Threads, DecideState(t) PROVE TypeOK'
  BY <1>9 DEF DecideState, NextBufferState
<1>10. ASSUME NEW t \in Threads, WriteState(t) PROVE TypeOK'
  BY <1>10 DEF WriteState
<1>11. ASSUME NEW t \in Threads, StoreUsage(t) PROVE TypeOK'
  BY <1>11 DEF StoreUsage
<1>12. ASSUME NEW t \in Threads, Wrap(t) PROVE TypeOK'
  BY <1>12 DEF Wrap, OwnsPage
<1>13. ASSUME NEW t \in Threads, ReleaseRaw(t) PROVE TypeOK'
  BY <1>13 DEF ReleaseRaw, StartRelease, OwnsPage
<1>14. ASSUME NEW t \in Threads, NEW p \in Pages, NEW u \in Threads, Share(t, u, p) PROVE TypeOK'
  BY <1>14 DEF Share
<1>15. ASSUME NEW t \in Threads, NEW p \in Pages, NEW s \in Stages, EnterStage(t, p, s) PROVE TypeOK'
  BY <1>15 DEF EnterStage
<1>16. ASSUME NEW t \in Threads, NEW p \in Pages, GetChildBlock(t, p) PROVE TypeOK'
  BY <1>16 DEF GetChildBlock
<1>17. ASSUME NEW t \in Threads, NEW p \in Pages, DropReference(t, p) PROVE TypeOK'
  BY <1>17, DestroyType DEF DropReference
<1>18. ASSUME NEW t \in Threads, NEW p \in Pages, DropChild(t, p) PROVE TypeOK'
  BY <1>18, DestroyType DEF DropChild
<1> QED
  BY <1>1, <1>2, <1>3, <1>4, <1>5, <1>6, <1>7, <1>8, <1>9, <1>10, <1>11, <1>12, <1>13, <1>14,
     <1>15, <1>16, <1>17, <1>18 DEF Next

-----------------------------------------------------------------------------
(* The mutexes.                                                            *)

\* Each operation holds its mutex from the change of the FIFO to its return.
LEMMA LocksStep == TypeOK /\ Locks /\ [Next]_vars => Locks'
<1> SUFFICES ASSUME TypeOK, Locks, [Next]_vars PROVE Locks'
  OBVIOUS
<1> USE PoolAssumption DEF TypeOK, Locks, UpdatePoints, Points, At, Goto, fifoVars, blockVars,
        mutexes, usageVars
<1>1. CASE UNCHANGED vars
  BY <1>1 DEF vars
<1>2. ASSUME NEW t \in Threads, GetPage(t) PROVE Locks'
  BY <1>2 DEF GetPage
<1>3. ASSUME NEW t \in Threads, PopPage(t) PROVE Locks'
  BY <1>3 DEF PopPage
<1>4. ASSUME NEW t \in Threads, MarkAllocated(t) PROVE Locks'
  BY <1>4 DEF MarkAllocated
<1>5. ASSUME NEW t \in Threads, MarkIdle(t) PROVE Locks'
  BY <1>5 DEF MarkIdle
<1>6. ASSUME NEW t \in Threads, PushPage(t) PROVE Locks'
  BY <1>6 DEF PushPage, FillSlot
<1>7. ASSUME NEW t \in Threads, PublishPage(t) PROVE Locks'
  BY <1>7 DEF PublishPage
<1>8. ASSUME NEW t \in Threads, SampleUsage(t) PROVE Locks'
  BY <1>8 DEF SampleUsage
<1>9. ASSUME NEW t \in Threads, DecideState(t) PROVE Locks'
  BY <1>9 DEF DecideState, NextBufferState
<1>10. ASSUME NEW t \in Threads, WriteState(t) PROVE Locks'
  BY <1>10 DEF WriteState
<1>11. ASSUME NEW t \in Threads, StoreUsage(t) PROVE Locks'
  BY <1>11 DEF StoreUsage
<1>12. ASSUME NEW t \in Threads, Wrap(t) PROVE Locks'
  BY <1>12 DEF Wrap, OwnsPage
<1>13. ASSUME NEW t \in Threads, ReleaseRaw(t) PROVE Locks'
  BY <1>13 DEF ReleaseRaw, StartRelease, OwnsPage
<1>14. ASSUME NEW t \in Threads, NEW p \in Pages, NEW u \in Threads, Share(t, u, p) PROVE Locks'
  BY <1>14 DEF Share
<1>15. ASSUME NEW t \in Threads, NEW p \in Pages, NEW s \in Stages, EnterStage(t, p, s) PROVE Locks'
  BY <1>15 DEF EnterStage
<1>16. ASSUME NEW t \in Threads, NEW p \in Pages, GetChildBlock(t, p) PROVE Locks'
  BY <1>16 DEF GetChildBlock
<1>17. ASSUME NEW t \in Threads, NEW p \in Pages, DropReference(t, p) PROVE Locks'
  BY <1>17 DEF DropReference, DestroyUnused, StartRelease, LastReference
<1>18. ASSUME NEW t \in Threads, NEW p \in Pages, DropChild(t, p) PROVE Locks'
  BY <1>18 DEF DropChild, DestroyUnused, StartRelease, LastReference
<1> QED
  BY <1>1, <1>2, <1>3, <1>4, <1>5, <1>6, <1>7, <1>8, <1>9, <1>10, <1>11, <1>12, <1>13, <1>14,
     <1>15, <1>16, <1>17, <1>18 DEF Next

-----------------------------------------------------------------------------
(* Pages in flight.                                                        *)

\* Freeing the first slot takes exactly its page out of the FIFO.
LEMMA PopTakesHead ==
  ASSUME TypeOK, FifoHasNoDuplicates, pagesAvailable # <<>>, pagesAvailable' = Tail(pagesAvailable)
  PROVE  /\ FifoHasNoDuplicates'
         /\ \A x \in Pages : InFifo(x)' <=> InFifo(x) /\ x # pagesAvailable[1]
<1> DEFINE n == Len(pagesAvailable)
<1>1. n \in Nat \ {0} /\ pagesAvailable \in [1 .. n -> Pages] /\ DOMAIN pagesAvailable = 1 .. n
  BY DEF TypeOK
<1>2. /\ DOMAIN pagesAvailable' = 1 .. (n - 1)
      /\ \A i \in 1 .. (n - 1) : pagesAvailable'[i] = pagesAvailable[i + 1]
  BY <1>1 DEF TypeOK
<1>3. FifoHasNoDuplicates'
  BY <1>1, <1>2 DEF FifoHasNoDuplicates
<1>4. ASSUME NEW x \in Pages, InFifo(x)' PROVE InFifo(x) /\ x # pagesAvailable[1]
  BY <1>1, <1>2, <1>4 DEF InFifo, FifoHasNoDuplicates
<1>5. ASSUME NEW x \in Pages, InFifo(x), x # pagesAvailable[1] PROVE InFifo(x)'
  <2>1. PICK i \in 1 .. n : pagesAvailable[i] = x
    BY <1>1, <1>5 DEF InFifo
  <2>2. i # 1 /\ i - 1 \in 1 .. (n - 1) /\ (i - 1) + 1 = i
    BY <1>1, <1>5, <2>1
  <2>3. pagesAvailable'[i - 1] = x
    BY <1>2, <2>1, <2>2
  <2> QED
    BY <1>2, <2>2, <2>3 DEF InFifo
<1> QED
  BY <1>3, <1>4, <1>5

\* Publishing a page that is not in the FIFO adds exactly that page to it.
LEMMA PushAddsPage ==
  ASSUME TypeOK, FifoHasNoDuplicates, NEW p \in Pages, ~ InFifo(p),
         pagesAvailable' = Append(pagesAvailable, p)
  PROVE  /\ FifoHasNoDuplicates'
         /\ \A x \in Pages : InFifo(x)' <=> InFifo(x) \/ x = p
<1> DEFINE n == Len(pagesAvailable)
<1>1. n \in Nat /\ pagesAvailable \in [1 .. n -> Pages] /\ DOMAIN pagesAvailable = 1 .. n
  BY DEF TypeOK
<1>2. /\ DOMAIN pagesAvailable' = 1 .. (n + 1)
      /\ pagesAvailable'[n + 1] = p
      /\ \A i \in 1 .. n : pagesAvailable'[i] = pagesAvailable[i]
  BY <1>1 DEF TypeOK
<1>3. FifoHasNoDuplicates'
  BY <1>1, <1>2 DEF FifoHasNoDuplicates, InFifo
<1>4. \A x \in Pages : InFifo(x)' <=> InFifo(x) \/ x = p
  BY <1>1, <1>2 DEF InFifo
<1> QED
  BY <1>3, <1>4

\* A page being popped stays first, and the slot being filled is left alone by
\* the other threads, because each kind of operation has its mutex.
LEMMA InFlightStep == IInv /\ [Next]_vars => InFlight'
<1> SUFFICES ASSUME TypeOK, Locks, InFlight, PageConservation, [Next]_vars PROVE InFlight'
  BY DEF IInv
<1> USE PoolAssumption DEF TypeOK, Locks, InFlight, UpdatePoints, Points, At, Goto, NoPage,
        fifoVars, blockVars, mutexes, usageVars
<1>1. CASE UNCHANGED vars
  BY <1>1 DEF vars
<1>2. ASSUME NEW t \in Threads, GetPage(t) PROVE InFlight'
  BY <1>2 DEF GetPage
<1>3. ASSUME NEW t \in Threads, PopPage(t) PROVE InFlight'
  BY <1>3 DEF PopPage
<1>4. ASSUME NEW t \in Threads, MarkAllocated(t) PROVE InFlight'
  BY <1>4 DEF MarkAllocated
<1>5. ASSUME NEW t \in Threads, MarkIdle(t) PROVE InFlight'
  BY <1>5 DEF MarkIdle
<1>6. ASSUME NEW t \in Threads, PushPage(t) PROVE InFlight'
  <2>1. page[t] \in Pages /\ Carries(t, page[t])
    BY <1>6 DEF PushPage, Carries
  <2>2. FifoHasNoDuplicates /\ ~ InFifo(page[t])
    BY <2>1 DEF PageConservation
  <2>3. Len(pagesAvailable) < NumberOfPages
    BY <2>1, <2>2, RoomForCarriedPage
  <2>4. slot' = page[t] /\ UNCHANGED <<page, pagesAvailable>> /\ pc' = [pc EXCEPT ![t] = "pushing"]
    BY <1>6, <2>3 DEF PushPage, FillSlot
  <2>5. ASSUME NEW u \in Threads PROVE pc[u] # "pushing"
    <3> SUFFICES ASSUME pc[u] = "pushing" PROVE FALSE
      OBVIOUS
    <3>1. op[u] = "release" /\ pushMutex = u
      OBVIOUS
    <3> QED
      BY <1>6, <3>1 DEF PushPage
  <2> QED
    BY <1>6, <2>1, <2>4, <2>5 DEF PushPage, Pages
<1>7. ASSUME NEW t \in Threads, PublishPage(t) PROVE InFlight'
  <2>1. ASSUME NEW u \in Threads, u # t PROVE pc[u] # "pushing"
    <3> SUFFICES ASSUME pc[u] = "pushing" PROVE FALSE
      OBVIOUS
    <3>1. pushMutex = u /\ pushMutex = t
      BY <1>7 DEF PublishPage
    <3> QED
      BY <2>1, <3>1
  <2>2. pc' = [pc EXCEPT ![t] = "sample"] /\ page' = [page EXCEPT ![t] = NoPage]
    BY <1>7 DEF PublishPage
  <2>3. pagesAvailable # <<>> =>
          pagesAvailable' # <<>> /\ pagesAvailable'[1] = pagesAvailable[1]
    BY <1>7 DEF PublishPage
  <2> QED
    BY <2>1, <2>2, <2>3
<1>8. ASSUME NEW t \in Threads, SampleUsage(t) PROVE InFlight'
  BY <1>8 DEF SampleUsage
<1>9. ASSUME NEW t \in Threads, DecideState(t) PROVE InFlight'
  BY <1>9 DEF DecideState, NextBufferState
<1>10. ASSUME NEW t \in Threads, WriteState(t) PROVE InFlight'
  BY <1>10 DEF WriteState
<1>11. ASSUME NEW t \in Threads, StoreUsage(t) PROVE InFlight'
  BY <1>11 DEF StoreUsage
<1>12. ASSUME NEW t \in Threads, Wrap(t) PROVE InFlight'
  BY <1>12 DEF Wrap, OwnsPage
<1>13. ASSUME NEW t \in Threads, ReleaseRaw(t) PROVE InFlight'
  BY <1>13 DEF ReleaseRaw, StartRelease, OwnsPage
<1>14. ASSUME NEW t \in Threads, NEW p \in Pages, NEW u \in Threads, Share(t, u, p) PROVE InFlight'
  BY <1>14 DEF Share
<1>15. ASSUME NEW t \in Threads, NEW p \in Pages, NEW s \in Stages, EnterStage(t, p, s) PROVE InFlight'
  BY <1>15 DEF EnterStage
<1>16. ASSUME NEW t \in Threads, NEW p \in Pages, GetChildBlock(t, p) PROVE InFlight'
  BY <1>16 DEF GetChildBlock
<1>17. ASSUME NEW t \in Threads, NEW p \in Pages, DropReference(t, p) PROVE InFlight'
  <2>1. pagesAvailable' = pagesAvailable /\ slot' = slot /\ p # NoPage
    BY <1>17 DEF DropReference, Pages
  <2>2. \/ UNCHANGED <<pc, page>>
        \/ pc' = [pc EXCEPT ![t] = "idling"] /\ page' = [page EXCEPT ![t] = p]
    BY <1>17 DEF DropReference, DestroyUnused, StartRelease
  <2> QED
    BY <2>1, <2>2
<1>18. ASSUME NEW t \in Threads, NEW p \in Pages, DropChild(t, p) PROVE InFlight'
  <2>1. pagesAvailable' = pagesAvailable /\ slot' = slot /\ p # NoPage
    BY <1>18 DEF DropChild, Pages
  <2>2. \/ UNCHANGED <<pc, page>>
        \/ pc' = [pc EXCEPT ![t] = "idling"] /\ page' = [page EXCEPT ![t] = p]
    BY <1>18 DEF DropChild, DestroyUnused, StartRelease
  <2> QED
    BY <2>1, <2>2
<1> QED
  BY <1>1, <1>2, <1>3, <1>4, <1>5, <1>6, <1>7, <1>8, <1>9, <1>10, <1>11, <1>12, <1>13, <1>14,
     <1>15, <1>16, <1>17, <1>18 DEF Next

-----------------------------------------------------------------------------
(* Conservation of pages.                                                  *)

\* A step that changes neither the FIFO nor what is carried or contained
\* keeps every page where it is.
LEMMA SamePlaces ==
  ASSUME PageConservation, pagesAvailable' = pagesAvailable, refs' = refs, children' = children,
         \A t \in Threads, p \in Pages : Carries(t, p)' <=> Carries(t, p)
  PROVE  PageConservation'
BY DEF PageConservation, FifoHasNoDuplicates, InFifo, InContainer

\* Every step moves a page from one place to another, or none.
LEMMA ConservationStep == IInv /\ [Next]_vars => PageConservation'
<1> SUFFICES ASSUME TypeOK, Locks, InFlight, PageConservation, [Next]_vars
             PROVE  PageConservation'
  BY DEF IInv
<1> USE DEF fifoVars, blockVars, mutexes, usageVars
<1>1. CASE UNCHANGED vars
  BY <1>1, SamePlaces DEF vars, Carries
<1>2. ASSUME NEW t \in Threads, GetPage(t) PROVE PageConservation'
  <2>1. \A u \in Threads, x \in Pages : Carries(u, x)' <=> Carries(u, x)
    BY <1>2 DEF GetPage, Carries, At, Goto, TypeOK, NoPage, Pages
  <2> QED
    BY <1>2, <2>1, SamePlaces DEF GetPage
<1>3. ASSUME NEW t \in Threads, PopPage(t) PROVE PageConservation'
  <2>1. CASE page[t] = NoPage
    <3>1. \A u \in Threads, p \in Pages : Carries(u, p)' <=> Carries(u, p)
      BY <1>3, <2>1 DEF PopPage, Carries, At, Goto, TypeOK, NoPage, Pages
    <3> QED
      BY <1>3, <2>1, <3>1, SamePlaces DEF PopPage
  <2>2. CASE page[t] # NoPage
    <3> DEFINE q == page[t]
    <3>1. q \in Pages /\ pagesAvailable # <<>> /\ q = pagesAvailable[1]
      BY <1>3, <2>2 DEF PopPage, At, TypeOK, InFlight
    <3>2. FifoHasNoDuplicates' /\ \A x \in Pages : InFifo(x)' <=> InFifo(x) /\ x # q
      BY <1>3, <2>2, <3>1, PopTakesHead DEF PopPage, PageConservation
    <3>3. InFifo(q)
      BY <3>1 DEF InFifo, TypeOK
    <3>4. \A x \in Pages : InContainer(x)' <=> InContainer(x)
      BY <1>3 DEF PopPage, InContainer
    <3>5. \A u \in Threads, x \in Pages : Carries(u, x)' <=> Carries(u, x) \/ (u = t /\ x = q)
      BY <1>3 DEF PopPage, At, Goto, Carries, TypeOK
    <3> QED
      BY <3>1, <3>2, <3>3, <3>4, <3>5 DEF PageConservation
  <2> QED
    BY <2>1, <2>2
<1>4. ASSUME NEW t \in Threads, MarkAllocated(t) PROVE PageConservation'
  <2>1. \A u \in Threads, x \in Pages : Carries(u, x)' <=> Carries(u, x)
    BY <1>4 DEF MarkAllocated, Carries, At, Goto, TypeOK, NoPage, Pages
  <2> QED
    BY <1>4, <2>1, SamePlaces DEF MarkAllocated
<1>5. ASSUME NEW t \in Threads, MarkIdle(t) PROVE PageConservation'
  <2>1. \A u \in Threads, x \in Pages : Carries(u, x)' <=> Carries(u, x)
    BY <1>5 DEF MarkIdle, Carries, At, Goto, TypeOK, NoPage, Pages
  <2> QED
    BY <1>5, <2>1, SamePlaces DEF MarkIdle
<1>6. ASSUME NEW t \in Threads, PushPage(t) PROVE PageConservation'
  <2>1. \A u \in Threads, x \in Pages : Carries(u, x)' <=> Carries(u, x)
    BY <1>6 DEF PushPage, Carries, At, Goto, TypeOK, NoPage, Pages
  <2> QED
    BY <1>6, <2>1, SamePlaces DEF PushPage
<1>7. ASSUME NEW t \in Threads, PublishPage(t) PROVE PageConservation'
  <2> DEFINE q == page[t]
  <2>1. q \in Pages /\ slot = q /\ q # NoPage /\ Carries(t, q)
    BY <1>7 DEF PublishPage, At, TypeOK, InFlight, Carries
  <2>2. ~ InFifo(q) /\ FifoHasNoDuplicates
    BY <2>1 DEF PageConservation
  <2>3. FifoHasNoDuplicates' /\ \A x \in Pages : InFifo(x)' <=> InFifo(x) \/ x = q
    BY <1>7, <2>1, <2>2, PushAddsPage DEF PublishPage
  <2>4. \A x \in Pages : InContainer(x)' <=> InContainer(x)
    BY <1>7 DEF PublishPage, InContainer
  <2>5. \A u \in Threads, x \in Pages : Carries(u, x)' <=> Carries(u, x) /\ u # t
    BY <1>7, <2>1 DEF PublishPage, At, Goto, Carries, TypeOK, NoPage, Pages
  <2>6. \A x \in Pages : Carries(t, x) => x = q
    BY DEF Carries
  <2> QED
    BY <2>1, <2>2, <2>3, <2>4, <2>5, <2>6 DEF PageConservation
<1>8. ASSUME NEW t \in Threads, SampleUsage(t) PROVE PageConservation'
  <2>1. \A u \in Threads, x \in Pages : Carries(u, x)' <=> Carries(u, x)
    BY <1>8 DEF SampleUsage, Carries, At, Goto, TypeOK, NoPage, Pages
  <2> QED
    BY <1>8, <2>1, SamePlaces DEF SampleUsage
<1>9. ASSUME NEW t \in Threads, DecideState(t) PROVE PageConservation'
  <2>1. \A u \in Threads, x \in Pages : Carries(u, x)' <=> Carries(u, x)
    BY <1>9 DEF DecideState, Carries, At, Goto, TypeOK, NoPage, Pages
  <2> QED
    BY <1>9, <2>1, SamePlaces DEF DecideState
<1>10. ASSUME NEW t \in Threads, WriteState(t) PROVE PageConservation'
  <2>1. \A u \in Threads, x \in Pages : Carries(u, x)' <=> Carries(u, x)
    BY <1>10 DEF WriteState, Carries, At, Goto, TypeOK, NoPage, Pages
  <2> QED
    BY <1>10, <2>1, SamePlaces DEF WriteState
<1>11. ASSUME NEW t \in Threads, StoreUsage(t) PROVE PageConservation'
  <2>1. \A u \in Threads, x \in Pages : Carries(u, x)' <=> Carries(u, x)
    BY <1>11 DEF StoreUsage, Carries, At, Goto, TypeOK, NoPage, Pages
  <2> QED
    BY <1>11, <2>1, SamePlaces DEF StoreUsage
<1>12. ASSUME NEW t \in Threads, Wrap(t) PROVE PageConservation'
  <2> DEFINE q == page[t]
  <2>1. q \in Pages /\ Carries(t, q)
    BY <1>12 DEF Wrap, OwnsPage, At, TypeOK, Carries
  <2>2. FifoHasNoDuplicates' /\ \A x \in Pages : InFifo(x)' <=> InFifo(x)
    BY <1>12 DEF Wrap, InFifo, PageConservation, FifoHasNoDuplicates
  <2>3. \A x \in Pages : InContainer(x)' <=> InContainer(x) \/ x = q
    BY <1>12, <2>1 DEF Wrap, InContainer, TypeOK
  <2>4. \A u \in Threads, x \in Pages : Carries(u, x)' <=> Carries(u, x) /\ u # t
    BY <1>12, <2>1 DEF Wrap, Carries, TypeOK, NoPage, Pages
  <2>5. \A x \in Pages : Carries(t, x) => x = q
    BY DEF Carries
  <2> QED
    BY <2>1, <2>2, <2>3, <2>4, <2>5 DEF PageConservation
<1>13. ASSUME NEW t \in Threads, ReleaseRaw(t) PROVE PageConservation'
  <2>1. \A u \in Threads, x \in Pages : Carries(u, x)' <=> Carries(u, x)
    BY <1>13 DEF ReleaseRaw, StartRelease, OwnsPage, Carries, At, Goto, TypeOK, NoPage, Pages
  <2> QED
    BY <1>13, <2>1, SamePlaces DEF ReleaseRaw, StartRelease, OwnsPage
<1>14. ASSUME NEW t \in Threads, NEW p \in Pages, NEW u \in Threads, Share(t, u, p) PROVE PageConservation'
  <2>1. FifoHasNoDuplicates' /\ \A x \in Pages : InFifo(x)' <=> InFifo(x)
    BY <1>14 DEF Share, InFifo, PageConservation, FifoHasNoDuplicates
  <2>2. \A x \in Pages : InContainer(x)' <=> InContainer(x)
    BY <1>14 DEF Share, InContainer, TypeOK
  <2>3. \A v \in Threads, x \in Pages : Carries(v, x)' <=> Carries(v, x)
    BY <1>14 DEF Share, Carries
  <2> QED
    BY <2>1, <2>2, <2>3 DEF PageConservation
<1>15. ASSUME NEW t \in Threads, NEW p \in Pages, NEW s \in Stages, EnterStage(t, p, s) PROVE PageConservation'
  <2>1. \A u \in Threads, x \in Pages : Carries(u, x)' <=> Carries(u, x)
    BY <1>15 DEF EnterStage, Carries, At, Goto, TypeOK, NoPage, Pages
  <2> QED
    BY <1>15, <2>1, SamePlaces DEF EnterStage
<1>16. ASSUME NEW t \in Threads, NEW p \in Pages, GetChildBlock(t, p) PROVE PageConservation'
  <2>1. FifoHasNoDuplicates' /\ \A x \in Pages : InFifo(x)' <=> InFifo(x)
    BY <1>16 DEF GetChildBlock, InFifo, PageConservation, FifoHasNoDuplicates
  <2>2. \A x \in Pages : InContainer(x)' <=> InContainer(x)
    BY <1>16 DEF GetChildBlock, InContainer, TypeOK
  <2>3. \A v \in Threads, x \in Pages : Carries(v, x)' <=> Carries(v, x)
    BY <1>16 DEF GetChildBlock, Carries
  <2> QED
    BY <2>1, <2>2, <2>3 DEF PageConservation
<1>17. ASSUME NEW t \in Threads, NEW p \in Pages, DropReference(t, p) PROVE PageConservation'
  <2>1. FifoHasNoDuplicates' /\ \A x \in Pages : InFifo(x)' <=> InFifo(x)
    BY <1>17 DEF DropReference, InFifo, PageConservation, FifoHasNoDuplicates
  <2>2. InContainer(p) /\ \A x \in Pages : ~ Carries(t, x)
    BY <1>17 DEF DropReference, InContainer, Carries, NoPage, Pages
  <2>3. \A x \in Pages : x # p => (InContainer(x)' <=> InContainer(x))
    BY <1>17 DEF DropReference, InContainer, TypeOK
  <2>4. CASE LastReference(p)
    <3>1. ~ InContainer(p)'
      BY <2>4 DEF LastReference, InContainer
    <3>2. page' = [page EXCEPT ![t] = p] /\ pc' = [pc EXCEPT ![t] = "idling"]
      BY <1>17, <2>4 DEF DropReference, DestroyUnused, StartRelease, LastReference, Goto
    <3>3. \A u \in Threads, x \in Pages :
            Carries(u, x)' <=> Carries(u, x) \/ (u = t /\ x = p)
      BY <2>2, <3>2 DEF Carries, TypeOK
    <3> QED
      BY <2>1, <2>2, <2>3, <3>1, <3>3 DEF PageConservation
  <2>5. CASE ~ LastReference(p)
    <3>1. InContainer(p)'
      BY <1>17, <2>5 DEF LastReference, InContainer
    <3>2. UNCHANGED <<page, pc>>
      BY <1>17, <2>5 DEF DropReference, DestroyUnused, LastReference
    <3>3. \A u \in Threads, x \in Pages : Carries(u, x)' <=> Carries(u, x)
      BY <3>2 DEF Carries
    <3> QED
      BY <2>1, <2>2, <2>3, <3>1, <3>3 DEF PageConservation
  <2> QED
    BY <2>4, <2>5
<1>18. ASSUME NEW t \in Threads, NEW p \in Pages, DropChild(t, p) PROVE PageConservation'
  <2>1. FifoHasNoDuplicates' /\ \A x \in Pages : InFifo(x)' <=> InFifo(x)
    BY <1>18 DEF DropChild, InFifo, PageConservation, FifoHasNoDuplicates
  <2>2. InContainer(p) /\ \A x \in Pages : ~ Carries(t, x)
    BY <1>18 DEF DropChild, InContainer, Carries, NoPage, Pages
  <2>3. \A x \in Pages : x # p => (InContainer(x)' <=> InContainer(x))
    BY <1>18 DEF DropChild, InContainer, TypeOK
  <2>4. CASE LastReference(p)
    <3>1. ~ InContainer(p)'
      BY <2>4 DEF LastReference, InContainer
    <3>2. page' = [page EXCEPT ![t] = p] /\ pc' = [pc EXCEPT ![t] = "idling"]
      BY <1>18, <2>4 DEF DropChild, DestroyUnused, StartRelease, LastReference, Goto
    <3>3. \A u \in Threads, x \in Pages :
            Carries(u, x)' <=> Carries(u, x) \/ (u = t /\ x = p)
      BY <2>2, <3>2 DEF Carries, TypeOK
    <3> QED
      BY <2>1, <2>2, <2>3, <3>1, <3>3 DEF PageConservation
  <2>5. CASE ~ LastReference(p)
    <3>1. InContainer(p)'
      BY <1>18, <2>5 DEF LastReference, InContainer
    <3>2. UNCHANGED <<page, pc>>
      BY <1>18, <2>5 DEF DropChild, DestroyUnused, LastReference
    <3>3. \A u \in Threads, x \in Pages : Carries(u, x)' <=> Carries(u, x)
      BY <3>2 DEF Carries
    <3> QED
      BY <2>1, <2>2, <2>3, <3>1, <3>3 DEF PageConservation
  <2> QED
    BY <2>4, <2>5
<1> QED
  BY <1>1, <1>2, <1>3, <1>4, <1>5, <1>6, <1>7, <1>8, <1>9, <1>10, <1>11, <1>12, <1>13, <1>14,
     <1>15, <1>16, <1>17, <1>18 DEF Next

-----------------------------------------------------------------------------
(* Page states.                                                            *)

\* The thread that holds a page in flight is the one that carries it.
LEMMA HeldIsCarried ==
  \A t \in Threads, p \in Pages : HeldIdle(t, p) \/ HeldInUse(t, p) => Carries(t, p)
BY DEF HeldIdle, HeldInUse, Carries, UpdatePoints

\* A step that writes no page state may only move pages between places where they
\* have the same one.
LEMMA SameMarks ==
  ASSUME PageMarks, pageState' = pageState,
         \A p \in Pages : KnownIdle(p)' => KnownIdle(p),
         \A p \in Pages : KnownInUse(p)' => KnownInUse(p)
  PROVE  PageMarks'
BY DEF PageMarks

\* A page is marked Idle before it can be popped again, and Allocated before
\* getPage() returns it: only the thread with the page in its hands, or a thread
\* with a reference to its container, writes its state.
LEMMA MarksStep == IInv /\ [Next]_vars => PageMarks'
<1> SUFFICES ASSUME TypeOK, Locks, InFlight, PageConservation, PageMarks, [Next]_vars
             PROVE  PageMarks'
  BY DEF IInv
<1> USE DEF fifoVars, blockVars, mutexes, usageVars
<1>1. CASE UNCHANGED vars
  BY <1>1, SameMarks DEF vars, KnownIdle, KnownInUse, HeldIdle, HeldInUse, InFifo, InContainer
<1>2. ASSUME NEW t \in Threads, GetPage(t) PROVE PageMarks'
  <2>1. \A v \in Threads, x \in Pages :
          /\ HeldIdle(v, x)' => HeldIdle(v, x)
          /\ HeldInUse(v, x)' => HeldInUse(v, x)
    BY <1>2 DEF GetPage, HeldIdle, HeldInUse, UpdatePoints, At, Goto, TypeOK, NoPage, Pages
  <2>2. pageState' = pageState /\ pagesAvailable' = pagesAvailable /\ refs' = refs /\ children' = children
    BY <1>2 DEF GetPage
  <2> QED
    BY <2>1, <2>2, SameMarks DEF KnownIdle, KnownInUse, InFifo, InContainer
<1>3. ASSUME NEW t \in Threads, PopPage(t) PROVE PageMarks'
  <2>1. \A v \in Threads, x \in Pages :
          /\ HeldIdle(v, x)' => HeldIdle(v, x) \/ (v = t /\ x = page[t])
          /\ HeldInUse(v, x)' => HeldInUse(v, x)
    BY <1>3 DEF PopPage, HeldIdle, HeldInUse, UpdatePoints, At, Goto, TypeOK, NoPage, Pages
  <2>2. pageState' = pageState /\ refs' = refs /\ children' = children
    BY <1>3 DEF PopPage
  <2>3. page[t] # NoPage => pagesAvailable # <<>> /\ page[t] = pagesAvailable[1]
    BY <1>3 DEF PopPage, At, InFlight
  <2>4. \A x \in Pages : x = page[t] => InFifo(x)
    BY <2>3 DEF InFifo, TypeOK, NoPage, Pages
  <2>5. \A x \in Pages : InFifo(x)' => InFifo(x)
    <3>1. CASE page[t] = NoPage
      BY <1>3, <3>1 DEF PopPage, InFifo
    <3>2. CASE page[t] # NoPage
      BY <1>3, <2>3, <3>2, PopTakesHead DEF PopPage, PageConservation
    <3> QED
      BY <3>1, <3>2
  <2> QED
    BY <2>1, <2>2, <2>4, <2>5, SameMarks DEF KnownIdle, KnownInUse, InContainer
<1>4. ASSUME NEW t \in Threads, MarkAllocated(t) PROVE PageMarks'
  <2>1. \A v \in Threads, x \in Pages :
          /\ HeldIdle(v, x)' => HeldIdle(v, x) /\ v # t
          /\ HeldInUse(v, x)' => HeldInUse(v, x) \/ x = page[t]
    BY <1>4 DEF MarkAllocated, HeldIdle, HeldInUse, UpdatePoints, At, Goto, TypeOK, NoPage, Pages
  <2>2. \A x \in Pages : (InFifo(x)' <=> InFifo(x)) /\ (InContainer(x)' <=> InContainer(x))
    BY <1>4 DEF MarkAllocated, InFifo, InContainer
  <2>3. \A x \in Pages : x = page[t] => Carries(t, x)
    BY <1>4 DEF MarkAllocated, At, Carries
  <2>4. \A x \in Pages : KnownIdle(x)' => KnownIdle(x) /\ x # page[t]
    BY <2>1, <2>2, <2>3, HeldIsCarried DEF KnownIdle, PageConservation
  <2>5. \A x \in Pages : KnownInUse(x)' => KnownInUse(x) \/ x = page[t]
    BY <2>1, <2>2 DEF KnownInUse
  <2>6. \A x \in Pages : pageState'[x] = IF x = page[t] THEN "Allocated" ELSE pageState[x]
    BY <1>4 DEF MarkAllocated
  <2> QED
    BY <2>4, <2>5, <2>6 DEF PageMarks
<1>5. ASSUME NEW t \in Threads, MarkIdle(t) PROVE PageMarks'
  <2>1. \A v \in Threads, x \in Pages :
          /\ HeldIdle(v, x)' => HeldIdle(v, x) \/ x = page[t]
          /\ HeldInUse(v, x)' => HeldInUse(v, x) /\ v # t
    BY <1>5 DEF MarkIdle, HeldIdle, HeldInUse, UpdatePoints, At, Goto, TypeOK, NoPage, Pages
  <2>2. \A x \in Pages : (InFifo(x)' <=> InFifo(x)) /\ (InContainer(x)' <=> InContainer(x))
    BY <1>5 DEF MarkIdle, InFifo, InContainer
  <2>3. \A x \in Pages : x = page[t] => Carries(t, x)
    BY <1>5 DEF MarkIdle, At, Carries
  <2>4. \A x \in Pages : KnownIdle(x)' => KnownIdle(x) \/ x = page[t]
    BY <2>1, <2>2 DEF KnownIdle
  <2>5. \A x \in Pages : KnownInUse(x)' => KnownInUse(x) /\ x # page[t]
    BY <2>1, <2>2, <2>3, HeldIsCarried DEF KnownInUse, PageConservation
  <2>6. \A x \in Pages : pageState'[x] = IF x = page[t] THEN "Idle" ELSE pageState[x]
    BY <1>5 DEF MarkIdle, TypeOK
  <2> QED
    BY <2>4, <2>5, <2>6 DEF PageMarks
<1>6. ASSUME NEW t \in Threads, PushPage(t) PROVE PageMarks'
  <2>1. \A v \in Threads, x \in Pages :
          /\ HeldIdle(v, x)' => HeldIdle(v, x)
          /\ HeldInUse(v, x)' => HeldInUse(v, x)
    BY <1>6 DEF PushPage, HeldIdle, HeldInUse, UpdatePoints, At, Goto, TypeOK, NoPage, Pages
  <2>2. pageState' = pageState /\ pagesAvailable' = pagesAvailable /\ refs' = refs /\ children' = children
    BY <1>6 DEF PushPage
  <2> QED
    BY <2>1, <2>2, SameMarks DEF KnownIdle, KnownInUse, InFifo, InContainer
<1>7. ASSUME NEW t \in Threads, PublishPage(t) PROVE PageMarks'
  <2>1. \A v \in Threads, x \in Pages :
          /\ HeldIdle(v, x)' => HeldIdle(v, x)
          /\ HeldInUse(v, x)' => HeldInUse(v, x)
    BY <1>7 DEF PublishPage, HeldIdle, HeldInUse, UpdatePoints, At, Goto, TypeOK, NoPage, Pages
  <2>2. pageState' = pageState /\ refs' = refs /\ children' = children
    BY <1>7 DEF PublishPage
  <2>3. page[t] \in Pages /\ slot = page[t] /\ slot # NoPage /\ Carries(t, page[t]) /\ HeldIdle(t, page[t])
    BY <1>7 DEF PublishPage, At, TypeOK, InFlight, Carries, HeldIdle
  <2>4. ~ InFifo(page[t]) /\ FifoHasNoDuplicates
    BY <2>3 DEF PageConservation
  <2>5. \A x \in Pages : InFifo(x)' => InFifo(x) \/ x = page[t]
    BY <1>7, <2>3, <2>4, PushAddsPage DEF PublishPage
  <2> QED
    BY <2>1, <2>2, <2>3, <2>5, SameMarks DEF KnownIdle, KnownInUse, InContainer
<1>8. ASSUME NEW t \in Threads, SampleUsage(t) PROVE PageMarks'
  <2>1. \A v \in Threads, x \in Pages :
          /\ HeldIdle(v, x)' => HeldIdle(v, x)
          /\ HeldInUse(v, x)' => HeldInUse(v, x)
    BY <1>8 DEF SampleUsage, HeldIdle, HeldInUse, UpdatePoints, At, Goto, TypeOK, NoPage, Pages
  <2>2. pageState' = pageState /\ pagesAvailable' = pagesAvailable /\ refs' = refs /\ children' = children
    BY <1>8 DEF SampleUsage
  <2> QED
    BY <2>1, <2>2, SameMarks DEF KnownIdle, KnownInUse, InFifo, InContainer
<1>9. ASSUME NEW t \in Threads, DecideState(t) PROVE PageMarks'
  <2>1. \A v \in Threads, x \in Pages :
          /\ HeldIdle(v, x)' => HeldIdle(v, x)
          /\ HeldInUse(v, x)' => HeldInUse(v, x)
    BY <1>9 DEF DecideState, HeldIdle, HeldInUse, UpdatePoints, At, Goto, TypeOK, NoPage, Pages
  <2>2. pageState' = pageState /\ pagesAvailable' = pagesAvailable /\ refs' = refs /\ children' = children
    BY <1>9 DEF DecideState
  <2> QED
    BY <2>1, <2>2, SameMarks DEF KnownIdle, KnownInUse, InFifo, InContainer
<1>10. ASSUME NEW t \in Threads, WriteState(t) PROVE PageMarks'
  <2>1. \A v \in Threads, x \in Pages :
          /\ HeldIdle(v, x)' => HeldIdle(v, x)
          /\ HeldInUse(v, x)' => HeldInUse(v, x)
    BY <1>10 DEF WriteState, HeldIdle, HeldInUse, UpdatePoints, At, Goto, TypeOK, NoPage, Pages
  <2>2. pageState' = pageState /\ pagesAvailable' = pagesAvailable /\ refs' = refs /\ children' = children
    BY <1>10 DEF WriteState
  <2> QED
    BY <2>1, <2>2, SameMarks DEF KnownIdle, KnownInUse, InFifo, InContainer
<1>11. ASSUME NEW t \in Threads, StoreUsage(t) PROVE PageMarks'
  <2>1. \A v \in Threads, x \in Pages :
          /\ HeldIdle(v, x)' => HeldIdle(v, x)
          /\ HeldInUse(v, x)' => HeldInUse(v, x)
    BY <1>11 DEF StoreUsage, HeldIdle, HeldInUse, UpdatePoints, At, Goto, TypeOK, NoPage, Pages
  <2>2. pageState' = pageState /\ pagesAvailable' = pagesAvailable /\ refs' = refs /\ children' = children
    BY <1>11 DEF StoreUsage
  <2> QED
    BY <2>1, <2>2, SameMarks DEF KnownIdle, KnownInUse, InFifo, InContainer
<1>12. ASSUME NEW t \in Threads, Wrap(t) PROVE PageMarks'
  <2>1. \A v \in Threads, x \in Pages :
          /\ HeldIdle(v, x)' => HeldIdle(v, x)
          /\ HeldInUse(v, x)' => HeldInUse(v, x)
    BY <1>12 DEF Wrap, HeldIdle, HeldInUse, UpdatePoints, At, Goto, TypeOK, NoPage, Pages
  <2>2. pageState' = pageState /\ pagesAvailable' = pagesAvailable
    BY <1>12 DEF Wrap
  <2>3. page[t] \in Pages /\ HeldInUse(t, page[t])
    BY <1>12 DEF Wrap, OwnsPage, At, TypeOK, HeldInUse
  <2>4. \A x \in Pages : InContainer(x)' => InContainer(x) \/ x = page[t]
    BY <1>12, <2>3 DEF Wrap, InContainer, TypeOK
  <2> QED
    BY <2>1, <2>2, <2>3, <2>4, SameMarks DEF KnownIdle, KnownInUse, InFifo
<1>13. ASSUME NEW t \in Threads, ReleaseRaw(t) PROVE PageMarks'
  <2>1. \A v \in Threads, x \in Pages :
          /\ HeldIdle(v, x)' => HeldIdle(v, x)
          /\ HeldInUse(v, x)' => HeldInUse(v, x)
    BY <1>13 DEF ReleaseRaw, StartRelease, OwnsPage, HeldIdle, HeldInUse, UpdatePoints, At, Goto,
       TypeOK, NoPage, Pages
  <2>2. pageState' = pageState /\ pagesAvailable' = pagesAvailable /\ refs' = refs /\ children' = children
    BY <1>13 DEF ReleaseRaw, StartRelease, OwnsPage
  <2> QED
    BY <2>1, <2>2, SameMarks DEF KnownIdle, KnownInUse, InFifo, InContainer
<1>14. ASSUME NEW t \in Threads, NEW p \in Pages, NEW u \in Threads, Share(t, u, p) PROVE PageMarks'
  <2>1. \A v \in Threads, x \in Pages :
          /\ HeldIdle(v, x)' => HeldIdle(v, x)
          /\ HeldInUse(v, x)' => HeldInUse(v, x)
    BY <1>14 DEF Share, HeldIdle, HeldInUse, UpdatePoints, At, Goto, TypeOK, NoPage, Pages
  <2>2. pageState' = pageState /\ pagesAvailable' = pagesAvailable
    BY <1>14 DEF Share
  <2>3. \A x \in Pages : InContainer(x)' => InContainer(x)
    BY <1>14 DEF Share, InContainer, TypeOK
  <2> QED
    BY <2>1, <2>2, <2>3, SameMarks DEF KnownIdle, KnownInUse, InFifo
<1>15. ASSUME NEW t \in Threads, NEW p \in Pages, NEW s \in Stages, EnterStage(t, p, s) PROVE PageMarks'
  <2>1. \A v \in Threads, x \in Pages :
          /\ HeldIdle(v, x)' => HeldIdle(v, x)
          /\ HeldInUse(v, x)' => HeldInUse(v, x)
    BY <1>15 DEF EnterStage, HeldIdle, HeldInUse, UpdatePoints, At, Goto, TypeOK, NoPage, Pages
  <2>2. \A x \in Pages : (InFifo(x)' <=> InFifo(x)) /\ (InContainer(x)' <=> InContainer(x))
    BY <1>15 DEF EnterStage, InFifo, InContainer
  <2>3. InContainer(p)
    BY <1>15 DEF EnterStage, InContainer
  <2>4. \A x \in Pages : KnownIdle(x)' => KnownIdle(x) /\ x # p
    BY <2>1, <2>2, <2>3, HeldIsCarried DEF KnownIdle, PageConservation
  <2>5. \A x \in Pages : KnownInUse(x)' => KnownInUse(x)
    BY <2>1, <2>2 DEF KnownInUse
  <2>6. s # "Idle" /\ \A x \in Pages : pageState'[x] = IF x = p THEN s ELSE pageState[x]
    BY <1>15, PoolAssumption DEF EnterStage, TypeOK
  <2> QED
    BY <2>4, <2>5, <2>6 DEF PageMarks
<1>16. ASSUME NEW t \in Threads, NEW p \in Pages, GetChildBlock(t, p) PROVE PageMarks'
  <2>1. \A v \in Threads, x \in Pages :
          /\ HeldIdle(v, x)' => HeldIdle(v, x)
          /\ HeldInUse(v, x)' => HeldInUse(v, x)
    BY <1>16 DEF GetChildBlock, HeldIdle, HeldInUse, UpdatePoints, At, Goto, TypeOK, NoPage, Pages
  <2>2. pageState' = pageState /\ pagesAvailable' = pagesAvailable
    BY <1>16 DEF GetChildBlock
  <2>3. \A x \in Pages : InContainer(x)' => InContainer(x)
    BY <1>16 DEF GetChildBlock, InContainer, TypeOK
  <2> QED
    BY <2>1, <2>2, <2>3, SameMarks DEF KnownIdle, KnownInUse, InFifo
<1>17. ASSUME NEW t \in Threads, NEW p \in Pages, DropReference(t, p) PROVE PageMarks'
  <2>1. \A v \in Threads, x \in Pages :
          /\ HeldIdle(v, x)' => HeldIdle(v, x)
          /\ HeldInUse(v, x)' => HeldInUse(v, x)
    BY <1>17 DEF DropReference, DestroyUnused, StartRelease, LastReference, HeldIdle, HeldInUse,
       UpdatePoints, At, Goto, TypeOK, NoPage, Pages
  <2>2. pageState' = pageState /\ pagesAvailable' = pagesAvailable
    BY <1>17 DEF DropReference
  <2>3. \A x \in Pages : InContainer(x)' => InContainer(x)
    BY <1>17 DEF DropReference, InContainer, TypeOK
  <2> QED
    BY <2>1, <2>2, <2>3, SameMarks DEF KnownIdle, KnownInUse, InFifo
<1>18. ASSUME NEW t \in Threads, NEW p \in Pages, DropChild(t, p) PROVE PageMarks'
  <2>1. \A v \in Threads, x \in Pages :
          /\ HeldIdle(v, x)' => HeldIdle(v, x)
          /\ HeldInUse(v, x)' => HeldInUse(v, x)
    BY <1>18 DEF DropChild, DestroyUnused, StartRelease, LastReference, HeldIdle, HeldInUse,
       UpdatePoints, At, Goto, TypeOK, NoPage, Pages
  <2>2. pageState' = pageState /\ pagesAvailable' = pagesAvailable
    BY <1>18 DEF DropChild
  <2>3. \A x \in Pages : InContainer(x)' => InContainer(x)
    BY <1>18 DEF DropChild, InContainer, TypeOK
  <2> QED
    BY <2>1, <2>2, <2>3, SameMarks DEF KnownIdle, KnownInUse, InFifo
<1> QED
  BY <1>1, <1>2, <1>3, <1>4, <1>5, <1>6, <1>7, <1>8, <1>9, <1>10, <1>11, <1>12, <1>13, <1>14,
     <1>15, <1>16, <1>17, <1>18 DEF Next

-----------------------------------------------------------------------------
(* The buffer usage.                                                       *)

\* The state that updateBufferState() decides on agrees with the thresholds,
\* whatever the state was.
LEMMA DecisionAgrees ==
  ASSUME NEW n \in Nat, NEW s \in BufferStates
  PROVE  AgreesWith(n, NextBufferState(n, s))
BY PoolAssumption DEF AgreesWith, NextBufferState, Above, Below, BufferStates

\* A thread that updates alone reads and publishes the exact usage, because the
\* FIFO only changes where another update begins.
LEMMA SoloStep == TypeOK /\ SoloUpdate /\ [Next]_vars => SoloUpdate'
<1> SUFFICES ASSUME TypeOK, SoloUpdate, [Next]_vars
             PROVE  SoloUpdate'
  OBVIOUS
<1> USE DEF TypeOK, SoloUpdate, KnowsUsage, Quiet, Updating, At, Goto, Points, BeginUpdate,
        fifoVars, blockVars, mutexes, usageVars
<1>1. CASE UNCHANGED vars
  BY <1>1 DEF vars
<1>2. ASSUME NEW t \in Threads, GetPage(t) PROVE SoloUpdate'
  BY <1>2 DEF GetPage
<1>3. ASSUME NEW t \in Threads, PopPage(t) PROVE SoloUpdate'
  BY <1>3 DEF PopPage
<1>4. ASSUME NEW t \in Threads, MarkAllocated(t) PROVE SoloUpdate'
  BY <1>4 DEF MarkAllocated
<1>5. ASSUME NEW t \in Threads, MarkIdle(t) PROVE SoloUpdate'
  BY <1>5 DEF MarkIdle
<1>6. ASSUME NEW t \in Threads, PushPage(t) PROVE SoloUpdate'
  BY <1>6 DEF PushPage, FillSlot
<1>7. ASSUME NEW t \in Threads, PublishPage(t) PROVE SoloUpdate'
  BY <1>7 DEF PublishPage
<1>8. ASSUME NEW t \in Threads, SampleUsage(t) PROVE SoloUpdate'
  BY <1>8 DEF SampleUsage
<1>9. ASSUME NEW t \in Threads, DecideState(t) PROVE SoloUpdate'
  <2>1. AgreesWith(avail[t], NextBufferState(avail[t], state))
    BY DecisionAgrees
  <2>2. decided' = [decided EXCEPT ![t] = NextBufferState(avail[t], state)]
    BY <1>9 DEF DecideState
  <2>3. UNCHANGED <<pagesAvailable, avail, state, bufferUsage, raced>>
    BY <1>9 DEF DecideState
  <2>4. CASE NextBufferState(avail[t], state) = state
    BY <1>9, <2>1, <2>3, <2>4 DEF DecideState
  <2>5. CASE NextBufferState(avail[t], state) # state
    BY <1>9, <2>1, <2>2, <2>3, <2>5 DEF DecideState
  <2> QED
    BY <2>4, <2>5
<1>10. ASSUME NEW t \in Threads, WriteState(t) PROVE SoloUpdate'
  BY <1>10 DEF WriteState
<1>11. ASSUME NEW t \in Threads, StoreUsage(t) PROVE SoloUpdate'
  BY <1>11 DEF StoreUsage
<1>12. ASSUME NEW t \in Threads, Wrap(t) PROVE SoloUpdate'
  BY <1>12 DEF Wrap, OwnsPage
<1>13. ASSUME NEW t \in Threads, ReleaseRaw(t) PROVE SoloUpdate'
  BY <1>13 DEF ReleaseRaw, StartRelease, OwnsPage
<1>14. ASSUME NEW t \in Threads, NEW p \in Pages, NEW u \in Threads, Share(t, u, p) PROVE SoloUpdate'
  BY <1>14 DEF Share
<1>15. ASSUME NEW t \in Threads, NEW p \in Pages, NEW s \in Stages, EnterStage(t, p, s) PROVE SoloUpdate'
  BY <1>15 DEF EnterStage
<1>16. ASSUME NEW t \in Threads, NEW p \in Pages, GetChildBlock(t, p) PROVE SoloUpdate'
  BY <1>16 DEF GetChildBlock
<1>17. ASSUME NEW t \in Threads, NEW p \in Pages, DropReference(t, p) PROVE SoloUpdate'
  <2>1. UNCHANGED <<pagesAvailable, avail, decided, state, bufferUsage, raced>>
    BY <1>17 DEF DropReference
  <2>2. pc' = pc \/ (At(t, "out") /\ pc' = [pc EXCEPT ![t] = "idling"])
    BY <1>17 DEF DropReference, DestroyUnused, StartRelease
  <2> QED
    BY SMTT(30), <2>1, <2>2
<1>18. ASSUME NEW t \in Threads, NEW p \in Pages, DropChild(t, p) PROVE SoloUpdate'
  <2>1. UNCHANGED <<pagesAvailable, avail, decided, state, bufferUsage, raced>>
    BY <1>18 DEF DropChild
  <2>2. pc' = pc \/ (At(t, "out") /\ pc' = [pc EXCEPT ![t] = "idling"])
    BY <1>18 DEF DropChild, DestroyUnused, StartRelease
  <2> QED
    BY SMTT(30), <2>1, <2>2
<1> QED
  BY <1>1, <1>2, <1>3, <1>4, <1>5, <1>6, <1>7, <1>8, <1>9, <1>10, <1>11, <1>12, <1>13, <1>14,
     <1>15, <1>16, <1>17, <1>18 DEF Next

\* Initially the pool owns every page, once.
LEMMA IInvInit == Init => IInv
<1> SUFFICES ASSUME Init PROVE IInv
  OBVIOUS
<1>1. TypeOK
  BY TypeInit
<1>2. Locks /\ InFlight
  BY DEF Init, Locks, InFlight
<1>3. PageConservation
  BY PoolAssumption
     DEF Init, PageConservation, FifoHasNoDuplicates, InFifo, Carries, InContainer, Pages, NoPage
<1>4. PageMarks
  BY DEF Init, PageMarks, KnownIdle, KnownInUse, HeldInUse, InContainer, Pages, NoPage
<1>5. SoloUpdate
  <2>1. Len(pagesAvailable) = NumberOfPages
    BY PoolAssumption DEF Init
  <2>2. \A t \in Threads : pc[t] = "out"
    BY DEF Init
  <2>3. AgreesWith(NumberOfPages, state)
    BY PoolAssumption DEF Init, AgreesWith, Above, Below
  <2> QED
    BY <2>1, <2>2, <2>3 DEF Init, SoloUpdate, Updating, KnowsUsage
<1> QED
  BY <1>1, <1>2, <1>3, <1>4, <1>5 DEF IInv

\* Every step of a thread keeps the inductive invariant.
LEMMA IInvStep == IInv /\ [Next]_vars => IInv'
BY TypeStep, LocksStep, InFlightStep, ConservationStep, MarksStep, SoloStep DEF IInv

\* The inductive invariant (types, mutexes, the operations in flight, the
\* conservation of pages, their states and the usage published) holds in every state the pool reaches.
THEOREM Invariance == Spec => []IInv
BY IInvInit, IInvStep, PTL DEF Spec

\* Every variable of the pool keeps its type: in particular child blocks never
\* use more room than their page has.
THEOREM TypeCorrect == Spec => []TypeOK
<1>1. IInv => TypeOK
  BY DEF IInv
<1> QED
  BY <1>1, Invariance, PTL

\* However many threads get, share and release pages, no page is lost and none
\* is in two places: the concurrency of getPage() and releasePage() is safe.
THEOREM PagesConserved == Spec => []PageConservation
<1>1. IInv => PageConservation
  BY DEF IInv
<1> QED
  BY <1>1, Invariance, PTL

\* The push in releasePage(), whose result is ignored, never meets a full FIFO.
THEOREM ReleaseAlwaysAccepted == Spec => []ReleaseNeverRejected
<1>1. IInv => ReleaseNeverRejected
  <2> SUFFICES ASSUME IInv, NEW t \in Threads, At(t, "lock")
               PROVE  Len(pagesAvailable) < NumberOfPages
    BY DEF ReleaseNeverRejected
  <2>1. page[t] \in Pages /\ Carries(t, page[t])
    BY DEF IInv, TypeOK, InFlight, At, Carries
  <2>2. TypeOK /\ FifoHasNoDuplicates /\ ~ InFifo(page[t])
    BY <2>1 DEF IInv, PageConservation
  <2> QED
    BY <2>1, <2>2, RoomForCarriedPage
<1> QED
  BY <1>1, Invariance, PTL

\* The page states the memory monitor reports agree with where the pages are, at
\* every moment, and an update of the buffer usage that no other one overlaps
\* leaves the exact usage and a state that agrees with the thresholds, whatever
\* earlier races left: updateBufferState() under two mutexes repairs itself.
THEOREM StatesTrue == Spec => []StatesAgree
<1>1. IInv => PageStateAgrees
  BY DEF IInv, PageMarks, PageStateAgrees, KnownIdle, KnownInUse, HeldInUse, OwnsPage, At
<1>2. IInv => SoloUpdateIsExact
  BY DEF IInv, SoloUpdate, SoloUpdateIsExact, AgreesWith
<1>3. IInv => StatesAgree
  BY <1>1, <1>2 DEF StatesAgree
<1> QED
  BY <1>3, Invariance, PTL

=============================================================================
