------------------------- MODULE MemoryBankManager -------------------------
(***************************************************************************)
(* The manager of the memory banks (MemoryBankManager.cxx): it carves the  *)
(* blocks of the page pools out of big banks of memory, with alignment     *)
(* constraints and in the arithmetic of size_t and int, and it publishes   *)
(* the state of the pools from a monitoring thread.                        *)
(*                                                                         *)
(* Two threads: the main one, which configures and resets the process, and *)
(* the monitor.  They share one mutex, which reset() still holds while it  *)
(* waits for the monitor to end.                                           *)
(***************************************************************************)
EXTENDS Integers, Sequences, FiniteSets

CONSTANTS
  Banks,            \* names of the banks of the configuration
  BankBase,         \* base address of each,
  BankSize,         \* and size
  Requests,         \* the pools asked for: pageSize, pageNumber, bank, firstPageOffset, blockAlign
  SystemPageSize,   \* getpagesize()
  SizeMod,          \* size_t counts modulo this (2^64),
  IntMod,           \* and int modulo this (2^32)
  Monitored,        \* whether membanksMonitorRate is set
  MaxPools,         \* bound: pools created between two resets
  MaxResets         \* bound: resets

ASSUME BankAssumption ==
  /\ SizeMod \in Nat \ {0} /\ IntMod \in Nat \ {0}
  /\ SystemPageSize \in Nat \ {0}
  /\ BankBase \in [Banks -> 0 .. SizeMod - 1]
  /\ BankSize \in [Banks -> 0 .. SizeMod - 1]
  /\ \A b \in Banks : BankBase[b] + BankSize[b] < SizeMod
  /\ Requests \subseteq [pageSize : Nat \ {0}, pageNumber : Nat \ {0}, bank : Banks,
                         firstPageOffset : Nat, blockAlign : Nat]
  /\ \A r \in Requests : /\ BankSize[r.bank] + SystemPageSize + r.blockAlign < SizeMod
                         /\ r.pageSize * r.pageNumber + r.firstPageOffset < SizeMod
  /\ Monitored \in BOOLEAN
  /\ MaxPools \in Nat /\ MaxResets \in Nat

VARIABLES
  banks,            \* the banks registered
  rangesInUse,      \* per bank, the blocks taken from it, in order
  pools,            \* the pools created, in order
  poolIndex,
  bankMutex,        \* "free", or the thread that has it
  pc,               \* where the main thread is
  block,            \* the block of the getPagedPool() under way
  monitorTh,        \* where the monitor is: "none" when there is no thread
  monitorThShutdown,
  nResets           \* resets so far

bankVars == <<banks, rangesInUse, pools, poolIndex, block>>
vars == <<bankVars, bankMutex, pc, monitorTh, monitorThShutdown, nResets>>

NoBlock == [id |-> 0, request |-> 0, offset |-> 0, size |-> 0]

Range == [offset : 0 .. SizeMod - 1, size : 0 .. SizeMod - 1]
Block == [id : Nat, request : Requests, offset : 0 .. SizeMod - 1, size : 0 .. SizeMod - 1]
Pool == [id : Nat, request : Requests, first : Nat, numberOfPages : Nat]

\* Every variable has its type; blocks are expressed in size_t.
TypeOK ==
  /\ banks \subseteq Banks
  /\ rangesInUse \in [Banks -> Seq(Range)]
  /\ pools \in Seq(Pool)
  /\ poolIndex \in -1 .. MaxPools - 1
  /\ bankMutex \in {"free", "main", "monitor"}
  /\ pc \in {"idle", "zero", "create", "stopping", "join", "exit", "gone"}
  /\ block \in Block \cup {NoBlock}
  /\ monitorTh \in {"none", "loop", "lock", "publish", "ended"}
  /\ monitorThShutdown \in BOOLEAN
  /\ nResets \in 0 .. MaxResets

\* the monitor is started once, when the process starts
Init ==
  /\ banks = {}
  /\ rangesInUse = [b \in Banks |-> <<>>]
  /\ pools = <<>>
  /\ poolIndex = -1
  /\ bankMutex = "free"
  /\ pc = "idle"
  /\ block = NoBlock
  /\ monitorTh = IF Monitored THEN "loop" ELSE "none"
  /\ monitorThShutdown = FALSE
  /\ nResets = 0

-----------------------------------------------------------------------------
(* Arithmetic.                                                             *)

\* the value of x as a size_t; a difference may be negative
SizeT(x) == x % SizeMod

\* the conversion of a size_t to int
ToInt(x) == LET m == x % IntMod IN IF 2 * m < IntMod THEN m ELSE m - IntMod

\* Variant: the new block starts where the last one starts.
LastStart(rs, e) ==
  /\ e = 0 \/ \E i \in DOMAIN rs : e = rs[i].offset
  /\ \A i \in DOMAIN rs : rs[i].offset <= e

\* e is the offset after all the ranges in use
EndOfRanges(rs, e) ==
  /\ e = 0 \/ \E i \in DOMAIN rs : e = SizeT(rs[i].offset + rs[i].size)
  /\ \A i \in DOMAIN rs : SizeT(rs[i].offset + rs[i].size) <= e

\* at least the size of a memory page; the test is done on an int
EffectiveAlign(blockAlign) ==
  IF ToInt(blockAlign) < SystemPageSize THEN SystemPageSize ELSE blockAlign

\* Variant: the base address of the bank is left out.
AlignOffsetOfOffset(b, offset, align) ==
  LET bytesExcess == offset % align IN IF bytesExcess = 0 THEN 0 ELSE align - bytesExcess

\* bytes to skip in bank b so that the block starts at a multiple of align
AlignOffset(b, offset, align) ==
  LET bytesExcess == SizeT(BankBase[b] + offset) % align
  IN IF bytesExcess = 0 THEN 0 ELSE align - bytesExcess

-----------------------------------------------------------------------------
(* The main thread.                                                        *)

AddBank(b) ==
  /\ pc = "idle" /\ bankMutex = "free"
  /\ b \notin banks
  /\ banks' = banks \cup {b}
  /\ UNCHANGED <<rangesInUse, pools, poolIndex, block, bankMutex, pc, monitorTh, monitorThShutdown,
                 nResets>>

\* the part of bank r.bank, starting after offset start, that a request r gets
NewBlock(r, start) ==
  LET alignOffset == AlignOffset(r.bank, start, EffectiveAlign(r.blockAlign))
  IN [id |-> poolIndex + 1, request |-> r, offset |-> SizeT(start + alignOffset),
      size |-> SizeT(r.pageSize * (r.pageNumber + 1) - alignOffset)]

\* the locked part of getPagedPool(), when the bank exists and has room: a
\* request that is refused changes nothing
GetPagedPool(r) ==
  /\ pc = "idle" /\ bankMutex = "free"
  /\ r.bank \in banks
  /\ poolIndex < MaxPools - 1
  /\ \E start \in 0 .. BankSize[r.bank] :
       /\ EndOfRanges(rangesInUse[r.bank], start)
       /\ block' = NewBlock(r, start)
  /\ SizeT(block'.offset + block'.size) <= BankSize[r.bank]
  /\ rangesInUse' = [rangesInUse EXCEPT ![r.bank] =
       Append(@, [offset |-> block'.offset, size |-> block'.size])]
  /\ poolIndex' = poolIndex + 1
  /\ pc' = "zero"
  /\ UNCHANGED <<banks, pools, bankMutex, monitorTh, monitorThShutdown, nResets>>

InBank(b) == b.offset + b.size <= BankSize[b.request.bank]

\* bzero() of the block: out of the bank it ends the process
ZeroMemory ==
  /\ pc = "zero"
  /\ pc' = IF InBank(block) THEN "create" ELSE "gone"
  /\ UNCHANGED <<bankVars, bankMutex, monitorTh, monitorThShutdown, nResets>>

\* the number of pages that the constructor of the pool finally makes
NumberOfPages(b) ==
  LET r == b.request IN
  IF SizeT(r.pageSize * r.pageNumber + r.firstPageOffset) > b.size
    THEN (b.size - r.firstPageOffset) \div r.pageSize
    ELSE r.pageNumber

\* the pool is made from the block, and listed; its constructor refuses a first
\* page outside of the block, which stays reserved
CreatePool ==
  /\ pc = "create" /\ bankMutex = "free"
  /\ pools' = IF block.request.firstPageOffset >= block.size THEN pools
              ELSE Append(pools, [id |-> block.id, request |-> block.request,
                                  first |-> block.offset + block.request.firstPageOffset,
                                  numberOfPages |-> NumberOfPages(block)])
  /\ block' = NoBlock
  /\ pc' = "idle"
  /\ UNCHANGED <<banks, rangesInUse, poolIndex, bankMutex, monitorTh, monitorThShutdown, nResets>>

\* reset(), which keeps the mutex until it returns
Reset ==
  /\ pc = "idle" /\ bankMutex = "free" /\ nResets < MaxResets
  /\ bankMutex' = "main"
  /\ pools' = <<>>
  /\ banks' = {}
  /\ rangesInUse' = [b \in Banks |-> <<>>]
  /\ poolIndex' = -1
  /\ nResets' = nResets + 1
  /\ pc' = "stopping"
  /\ UNCHANGED <<block, monitorTh, monitorThShutdown>>

\* stopMonitoring(), from reset() with the mutex, or from the destructor
StopMonitoring ==
  /\ pc \in {"stopping", "exit"}
  /\ IF monitorTh = "none"
       THEN /\ bankMutex' = IF pc = "stopping" THEN "free" ELSE bankMutex
            /\ pc' = IF pc = "stopping" THEN "idle" ELSE "gone"
            /\ UNCHANGED monitorThShutdown
       ELSE /\ monitorThShutdown' = TRUE
            /\ pc' = IF pc = "stopping" THEN "join" ELSE pc
            /\ UNCHANGED bankMutex
  /\ UNCHANGED <<bankVars, monitorTh, nResets>>

JoinMonitor ==
  /\ pc \in {"join", "exit"} /\ monitorTh = "ended"
  /\ monitorTh' = "none"
  /\ bankMutex' = IF pc = "join" THEN "free" ELSE bankMutex
  /\ pc' = IF pc = "join" THEN "idle" ELSE "gone"
  /\ UNCHANGED <<bankVars, monitorThShutdown, nResets>>

\* the end of the process, which destroys the manager
Exit ==
  /\ pc = "idle"
  /\ pc' = "exit"
  /\ UNCHANGED <<bankVars, bankMutex, monitorTh, monitorThShutdown, nResets>>

-----------------------------------------------------------------------------
(* The monitor thread.                                                     *)

\* the shutdown flag is looked at between two updates
MonitorLoop ==
  /\ monitorTh = "loop" /\ pc # "gone"
  /\ monitorTh' = IF monitorThShutdown THEN "ended" ELSE "lock"
  /\ UNCHANGED <<bankVars, bankMutex, pc, monitorThShutdown, nResets>>

MonitorLock ==
  /\ monitorTh = "lock" /\ bankMutex = "free" /\ pc # "gone"
  /\ bankMutex' = "monitor"
  /\ monitorTh' = "publish"
  /\ UNCHANGED <<bankVars, pc, monitorThShutdown, nResets>>

\* the statistics of every pool of the list are published
MonitorPublish ==
  /\ monitorTh = "publish" /\ pc # "gone"
  /\ bankMutex' = "free"
  /\ monitorTh' = "loop"
  /\ UNCHANGED <<bankVars, pc, monitorThShutdown, nResets>>

-----------------------------------------------------------------------------
MainThread == ZeroMemory \/ CreatePool \/ StopMonitoring \/ JoinMonitor

Monitor == MonitorLoop \/ MonitorLock \/ MonitorPublish

Next ==
  \/ \E b \in Banks : AddBank(b)
  \/ \E r \in Requests : GetPagedPool(r)
  \/ MainThread
  \/ Reset
  \/ Exit
  \/ Monitor

Spec == Init /\ [][Next]_vars

\* both threads are scheduled; a thread may lose every race for the mutex
FairSpec == Spec /\ WF_vars(MainThread) /\ WF_vars(Monitor)

-----------------------------------------------------------------------------
(* Properties.                                                             *)

PoolEnd(p) == p.first + p.request.pageSize * p.numberOfPages

\* The pages of a pool are inside its bank and no page belongs to two pools,
\* whatever sizes, alignments and offsets were asked for: no two equipments
\* ever write to the same memory.
PoolsDisjoint ==
  \A i \in DOMAIN pools :
    /\ PoolEnd(pools[i]) <= BankSize[pools[i].request.bank]
    /\ \A j \in DOMAIN pools :
         i # j /\ pools[i].request.bank = pools[j].request.bank =>
           PoolEnd(pools[i]) <= pools[j].first \/ PoolEnd(pools[j]) <= pools[i].first

\* "Pool will start at a multiple of this value": every block starts at an
\* address with the alignment that was asked for, as long as it is one that an
\* int can hold.  (Every variable has its type besides.)
PoolsAligned ==
  /\ TypeOK
  /\ \A i \in DOMAIN pools :
       LET r == pools[i].request IN
       r.blockAlign > 0 /\ 2 * r.blockAlign < IntMod /\ r.blockAlign % SystemPageSize = 0 =>
         (BankBase[r.bank] + pools[i].first - r.firstPageOffset) % r.blockAlign = 0

\* "reset bank manager in fresh state": reset() returns.
ResetReturns == nResets > 0 /\ pc \in {"stopping", "join"} ~> pc = "idle"

=============================================================================
