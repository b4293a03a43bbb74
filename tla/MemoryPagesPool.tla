-------------------------- MODULE MemoryPagesPool --------------------------
(***************************************************************************)
(* The pool of data pages of readout (MemoryPagesPool.cxx) and the         *)
(* reference-counted containers that hand its pages back to it             *)
(* (DataBlockContainer.h).                                                 *)
(*                                                                         *)
(* Free pages wait in a FIFO.  getPage() and releasePage() each have a     *)
(* mutex of their own, so that one thread may take a page while another    *)
(* gives one back.  Both end in updateBufferState(), which therefore runs  *)
(* under two different mutexes: its steps are modelled one by one.         *)
(*                                                                         *)
(* The FIFO is Common::Fifo, a lock-free queue of one producer and one     *)
(* consumer (external): a pop reads the first slot and then frees it, a    *)
(* push fills the slot behind the last one and then publishes it.          *)
(***************************************************************************)
EXTENDS Naturals, Sequences, FiniteSets

CONSTANTS
  Threads,          \* threads that use pages of this pool
  NumberOfPages,    \* numberOfPages, once the constructor has fitted it
  Stages,           \* page states of pages in use (InEquipment, InFMQ, ...)
  ChildSlots,       \* child blocks that fit in one page
  HighPct, OkPct    \* thHigh and thOk, in percent

ASSUME PoolAssumption ==
  /\ NumberOfPages \in Nat \ {0}
  /\ ChildSlots \in Nat
  /\ HighPct \in Nat /\ OkPct \in Nat /\ OkPct <= HighPct /\ OkPct <= 100
  /\ Stages \cap {"Idle", "Allocated"} = {}
  /\ "free" \notin Threads

Pages == 1 .. NumberOfPages

\* nullptr, as a page
NoPage == 0

VARIABLES
  pagesAvailable,   \* the FIFO of free pages
  slot,             \* its slot being filled by a push, before it is published
  pageState,        \* pages[].currentPageState
  refs,             \* per page, the threads with a reference to its container
  children,         \* per page, the threads with a reference to a child block
  used,             \* dataBufferUsed of the container of each page, in slots
  popMutex, pushMutex,
  op,               \* the pool operation each thread is in
  pc,               \* and where it is in it
  page,             \* the page it got, or is giving back
  avail,            \* the number of free pages it read in updateBufferState()
  decided,          \* the value it decided to give to state
  state,            \* BufferState
  bufferUsage,      \* free pages behind the ratio last stored in *pBufferState
  raced             \* history: the last update overlapped with another one

fifoVars == <<pagesAvailable, slot>>
blockVars == <<refs, children, used>>
mutexes == <<popMutex, pushMutex>>
usageVars == <<avail, decided, state, bufferUsage>>
vars == <<fifoVars, pageState, blockVars, mutexes, op, pc, page, usageVars, raced>>

BufferStates == {"empty", "high", "full"}
PageStates == {"Idle", "Allocated"} \cup Stages
Points == {"out", "popping", "popped", "idling", "lock", "pushing", "pushed",
           "sample", "decide", "write", "store"}

TypeOK ==
  /\ pagesAvailable \in Seq(Pages)
  /\ slot \in Pages \cup {NoPage}
  /\ pageState \in [Pages -> PageStates]
  /\ refs \in [Pages -> SUBSET Threads]
  /\ children \in [Pages -> SUBSET Threads]
  /\ used \in [Pages -> 0 .. ChildSlots]
  /\ popMutex \in Threads \cup {"free"}
  /\ pushMutex \in Threads \cup {"free"}
  /\ op \in [Threads -> {"none", "get", "release"}]
  /\ pc \in [Threads -> Points]
  /\ page \in [Threads -> Pages \cup {NoPage}]
  /\ avail \in [Threads -> Nat]
  /\ decided \in [Threads -> BufferStates]
  /\ state \in BufferStates
  /\ bufferUsage \in Nat
  /\ raced \in BOOLEAN

Init ==
  /\ pagesAvailable = [i \in 1 .. NumberOfPages |-> i]
  /\ slot = NoPage
  /\ pageState = [p \in Pages |-> "Idle"]
  /\ refs = [p \in Pages |-> {}]
  /\ children = [p \in Pages |-> {}]
  /\ used = [p \in Pages |-> 0]
  /\ popMutex = "free"
  /\ pushMutex = "free"
  /\ op = [t \in Threads |-> "none"]
  /\ pc = [t \in Threads |-> "out"]
  /\ page = [t \in Threads |-> NoPage]
  /\ avail = [t \in Threads |-> 0]
  /\ decided = [t \in Threads |-> "empty"]
  /\ state = "empty"
  /\ bufferUsage = NumberOfPages
  /\ raced = FALSE

At(t, p) == pc[t] = p

Goto(t, p) == pc' = [pc EXCEPT ![t] = p]

\* a thread between its change of the FIFO and the end of its updateBufferState()
Updating(t) == pc[t] \in {"popped", "pushed", "sample", "decide", "write", "store"}

\* a pool operation has just changed the FIFO and will report the new usage
BeginUpdate(t) == raced' = (\E u \in Threads \ {t} : Updating(u))

-----------------------------------------------------------------------------
(* getPage(): lock, pop, mark Allocated, update the buffer state, unlock.  *)

\* the lock of pagesAvailableMutexPop and the read of the first slot
GetPage(t) ==
  /\ popMutex = "free"
  /\ At(t, "out") /\ page[t] = NoPage
  /\ op' = [op EXCEPT ![t] = "get"]
  /\ page' = [page EXCEPT ![t] = IF pagesAvailable = <<>> THEN NoPage ELSE Head(pagesAvailable)]
  /\ popMutex' = t
  /\ Goto(t, "popping")
  /\ UNCHANGED <<fifoVars, pageState, blockVars, pushMutex, usageVars, raced>>

\* the first slot is freed; nothing happens when the FIFO was empty
PopPage(t) ==
  /\ At(t, "popping")
  /\ pagesAvailable' = IF page[t] = NoPage THEN pagesAvailable ELSE Tail(pagesAvailable)
  /\ BeginUpdate(t)
  /\ Goto(t, "popped")
  /\ UNCHANGED <<slot, pageState, blockVars, mutexes, op, page, usageVars>>

\* updatePageState(ptr, Allocated), which ignores nullptr
MarkAllocated(t) ==
  /\ At(t, "popped")
  /\ pageState' = [p \in Pages |-> IF p = page[t] THEN "Allocated" ELSE pageState[p]]
  /\ Goto(t, "sample")
  /\ UNCHANGED <<fifoVars, blockVars, mutexes, op, page, usageVars, raced>>

-----------------------------------------------------------------------------
(* releasePage(): mark Idle, lock, push, update the buffer state, unlock.  *)

\* the call, with a page in the range isPageValid() accepts
StartRelease(t, p) ==
  /\ op' = [op EXCEPT ![t] = "release"]
  /\ page' = [page EXCEPT ![t] = p]
  /\ Goto(t, "idling")

\* Variant: the page keeps the state of its last stage.
SkipMarkIdle(t) ==
  /\ At(t, "idling")
  /\ Goto(t, "lock")
  /\ UNCHANGED <<fifoVars, pageState, blockVars, mutexes, op, page, usageVars, raced>>

\* updatePageState(address, Idle), before the lock
MarkIdle(t) ==
  /\ At(t, "idling")
  /\ pageState' = [pageState EXCEPT ![page[t]] = "Idle"]
  /\ Goto(t, "lock")
  /\ UNCHANGED <<fifoVars, blockVars, mutexes, op, page, usageVars, raced>>

\* a push fills the slot after the last page, unless the FIFO is full
FillSlot(t) ==
  slot' = IF Len(pagesAvailable) < NumberOfPages THEN page[t] ELSE NoPage

\* Variant: releasePage() without its mutex.
PushPageNoLock(t) ==
  /\ At(t, "lock")
  /\ FillSlot(t)
  /\ Goto(t, "pushing")
  /\ UNCHANGED <<pagesAvailable, pageState, blockVars, mutexes, op, page, usageVars, raced>>

\* the lock of pagesAvailableMutexPush and the first half of the push
PushPage(t) ==
  /\ At(t, "lock")
  /\ pushMutex = "free"
  /\ pushMutex' = t
  /\ FillSlot(t)
  /\ Goto(t, "pushing")
  /\ UNCHANGED <<pagesAvailable, pageState, blockVars, popMutex, op, page, usageVars, raced>>

\* and publishes it; the return value of push() is not looked at
PublishPage(t) ==
  /\ At(t, "pushing")
  /\ pagesAvailable' = IF slot = NoPage THEN pagesAvailable ELSE Append(pagesAvailable, slot)
  /\ slot' = NoPage
  /\ page' = [page EXCEPT ![t] = NoPage]
  /\ BeginUpdate(t)
  /\ Goto(t, "sample")
  /\ UNCHANGED <<pageState, blockVars, mutexes, op, usageVars>>

-----------------------------------------------------------------------------
(* updateBufferState(), common to both.                                    *)

\* the number of free pages behind the ratio r
SampleUsage(t) ==
  /\ At(t, "sample")
  /\ avail' = [avail EXCEPT ![t] = Len(pagesAvailable)]
  /\ Goto(t, "decide")
  /\ UNCHANGED <<fifoVars, pageState, blockVars, mutexes, op, page, decided, state,
                 bufferUsage, raced>>

\* r is above, or below, a threshold in percent
Above(n, pct) == 100 * (NumberOfPages - n) > pct * NumberOfPages
Below(n, pct) == 100 * (NumberOfPages - n) < pct * NumberOfPages

\* Variant: the warning "usage is high" is never cleared.
NextBufferStateNoOk(n, s) ==
  IF n = 0 THEN "full"
  ELSE IF Above(n, HighPct) /\ s = "empty" THEN "high"
  ELSE IF Below(n, OkPct) /\ s = "full" THEN "empty"
  ELSE s

\* the chain of tests on r and state: n free pages, in state s
NextBufferState(n, s) ==
  IF n = 0 THEN "full"
  ELSE IF Above(n, HighPct) /\ s = "empty" THEN "high"
  ELSE IF Below(n, OkPct) /\ s \in {"full", "high"} THEN "empty"
  ELSE s

DecideState(t) ==
  /\ At(t, "decide")
  /\ decided' = [decided EXCEPT ![t] = NextBufferState(avail[t], state)]
  /\ Goto(t, IF NextBufferState(avail[t], state) = state THEN "store" ELSE "write")
  /\ UNCHANGED <<fifoVars, pageState, blockVars, mutexes, op, page, avail, state,
                 bufferUsage, raced>>

WriteState(t) ==
  /\ At(t, "write")
  /\ state' = decided[t]
  /\ Goto(t, "store")
  /\ UNCHANGED <<fifoVars, pageState, blockVars, mutexes, op, page, avail, decided,
                 bufferUsage, raced>>

\* the store to *pBufferState, the unlock and the return to the caller, which
\* ends the life of the local variables
StoreUsage(t) ==
  /\ At(t, "store")
  /\ bufferUsage' = avail[t]
  /\ popMutex' = IF op[t] = "get" THEN "free" ELSE popMutex
  /\ pushMutex' = IF op[t] = "release" THEN "free" ELSE pushMutex
  /\ op' = [op EXCEPT ![t] = "none"]
  /\ avail' = [avail EXCEPT ![t] = 0]
  /\ decided' = [decided EXCEPT ![t] = "empty"]
  /\ Goto(t, "out")
  /\ UNCHANGED <<fifoVars, pageState, blockVars, page, state, raced>>

-----------------------------------------------------------------------------
(* Containers.  A thread that is in no pool operation owns the page that   *)
(* getPage() returned to it, until it wraps it or releases it.             *)

OwnsPage(t) == At(t, "out") /\ page[t] # NoPage

\* getNewDataBlockContainer(page): a container whose destruction releases the page
Wrap(t) ==
  /\ OwnsPage(t)
  /\ refs' = [refs EXCEPT ![page[t]] = {t}]
  /\ page' = [page EXCEPT ![t] = NoPage]
  /\ UNCHANGED <<fifoVars, pageState, children, used, mutexes, op, pc, usageVars, raced>>

\* a page that no container was made for goes straight back
ReleaseRaw(t) ==
  /\ OwnsPage(t)
  /\ StartRelease(t, page[t])
  /\ UNCHANGED <<fifoVars, pageState, blockVars, mutexes, usageVars, raced>>

\* a reference is copied to another thread, through a FIFO of data blocks
Share(t, u, p) ==
  /\ t \in refs[p]
  /\ refs' = [refs EXCEPT ![p] = @ \cup {u}]
  /\ UNCHANGED <<fifoVars, pageState, children, used, mutexes, op, pc, page, usageVars, raced>>

\* updatePageState() by a stage of the data flow that holds the block
EnterStage(t, p, s) ==
  /\ t \in refs[p]
  /\ pageState' = [pageState EXCEPT ![p] = s]
  /\ UNCHANGED <<fifoVars, blockVars, mutexes, op, pc, page, usageVars, raced>>

\* Variant: the room left in the page is not checked.
GetChildBlockUnchecked(t, p) ==
  /\ t \in refs[p] \ children[p]
  /\ used' = [used EXCEPT ![p] = @ + 1]
  /\ children' = [children EXCEPT ![p] = @ \cup {t}]
  /\ UNCHANGED <<fifoVars, pageState, refs, mutexes, op, pc, page, usageVars, raced>>

\* getChildBlock(): a block inside the page, which holds a reference to its parent
GetChildBlock(t, p) ==
  /\ t \in refs[p] \ children[p]
  /\ used[p] < ChildSlots
  /\ used' = [used EXCEPT ![p] = @ + 1]
  /\ children' = [children EXCEPT ![p] = @ \cup {t}]
  /\ UNCHANGED <<fifoVars, pageState, refs, mutexes, op, pc, page, usageVars, raced>>

\* Variant: a child block does not keep its parent alive.
NoOwnReference(p) == refs'[p] = {}

\* the last reference to a container is gone: its destructor releases the page
LastReference(p) == refs'[p] = {} /\ children'[p] = {}

DestroyUnused(t, p) ==
  IF LastReference(p)
    THEN StartRelease(t, p) /\ used' = [used EXCEPT ![p] = 0]
    ELSE UNCHANGED <<op, pc, page, used>>

DropReference(t, p) ==
  /\ At(t, "out") /\ page[t] = NoPage
  /\ t \in refs[p]
  /\ refs' = [refs EXCEPT ![p] = @ \ {t}]
  /\ UNCHANGED children
  /\ DestroyUnused(t, p)
  /\ UNCHANGED <<fifoVars, pageState, mutexes, usageVars, raced>>

DropChild(t, p) ==
  /\ At(t, "out") /\ page[t] = NoPage
  /\ t \in children[p]
  /\ children' = [children EXCEPT ![p] = @ \ {t}]
  /\ UNCHANGED refs
  /\ DestroyUnused(t, p)
  /\ UNCHANGED <<fifoVars, pageState, mutexes, usageVars, raced>>

-----------------------------------------------------------------------------
Next ==
  \E t \in Threads :
    \/ GetPage(t)
    \/ PopPage(t)
    \/ MarkAllocated(t)
    \/ MarkIdle(t)
    \/ PushPage(t)
    \/ PublishPage(t)
    \/ SampleUsage(t)
    \/ DecideState(t)
    \/ WriteState(t)
    \/ StoreUsage(t)
    \/ Wrap(t)
    \/ ReleaseRaw(t)
    \/ \E p \in Pages :
         \/ \E u \in Threads : Share(t, u, p)
         \/ \E s \in Stages : EnterStage(t, p, s)
         \/ GetChildBlock(t, p)
         \/ DropReference(t, p)
         \/ DropChild(t, p)

Spec == Init /\ [][Next]_vars

-----------------------------------------------------------------------------
(* Properties.                                                             *)

InFifo(p) == \E i \in DOMAIN pagesAvailable : pagesAvailable[i] = p

\* t has page p in its hands: it got it and has not wrapped it, or is giving it back
Carries(t, p) == page[t] = p /\ pc[t] # "popping"

InContainer(p) == refs[p] \cup children[p] # {}

\* No two slots of the FIFO hold the same page: no page can be handed out twice.
FifoHasNoDuplicates ==
  \A i, j \in DOMAIN pagesAvailable : pagesAvailable[i] = pagesAvailable[j] => i = j

\* Every page is in exactly one place at any time, whatever threads get, share
\* and release pages concurrently: in the FIFO (once), in the hands of one
\* thread inside getPage()/releasePage() or between the two, or in a container
\* that someone references.  None is lost, none is handed out twice.
PageConservation ==
  /\ FifoHasNoDuplicates
  /\ \A p \in Pages :
       /\ InFifo(p) \/ InContainer(p) \/ \E t \in Threads : Carries(t, p)
       /\ ~ (InFifo(p) /\ InContainer(p))
       /\ \A t \in Threads : Carries(t, p) =>
            /\ ~ InFifo(p) /\ ~ InContainer(p)
            /\ \A u \in Threads : Carries(u, p) => u = t

\* releasePage() ignores what push() returns: the FIFO has room for every page
\* that is given back, at the moment it is pushed.
ReleaseNeverRejected ==
  \A t \in Threads : At(t, "lock") => Len(pagesAvailable) < NumberOfPages

\* The page states that the memory monitor reports agree with where the pages
\* are: a free page is Idle, and a page that a thread owns or that a container
\* refers to is not, although states are written outside the push mutex.
PageStateAgrees ==
  \A p \in Pages :
    /\ InFifo(p) => pageState[p] = "Idle"
    /\ InContainer(p) => pageState[p] # "Idle"
    /\ \A t \in Threads : OwnsPage(t) /\ page[t] = p => pageState[p] # "Idle"

Quiet == \A t \in Threads : ~ Updating(t)

\* updateBufferState() repairs itself: once a get or a release has run with no
\* other one overlapping it, the published usage is exact and the buffer state
\* agrees with the thresholds, whatever value earlier races left in them.
SoloUpdateIsExact ==
  Quiet /\ ~ raced =>
    LET n == Len(pagesAvailable) IN
      /\ bufferUsage = n
      /\ n = 0 => state = "full"
      /\ Above(n, HighPct) => state # "empty"
      /\ Below(n, OkPct) => state = "empty"

\* What getPage() and releasePage() publish about the pages and about the buffer is
\* true, as far as their two mutexes let it be.
StatesAgree == PageStateAgrees /\ SoloUpdateIsExact

=============================================================================
