--------------------------- MODULE ThreadLocalSlots ---------------------------
(***************************************************************************)
(* ThreadLocalStorage (chromium/base/thread_local_storage.h and _win.cc): one *)
(* index of the native storage, made by the first thread that needs it, holds *)
(* a table of slots per thread; a destructor per slot is called when a thread *)
(* exits.                                                                  *)
(*                                                                         *)
(* User code initialises no more slots than fit, uses a slot while it is      *)
(* initialised, and frees none while a thread exits: ThreadExit reads a       *)
(* destructor twice, once to see that there is one and once to call it.      *)
(***************************************************************************)
EXTENDS ThreadCalls

CONSTANTS
  Slots,       \* the ThreadLocalStorage::Slots,
  Cleaned,     \* the ones with a destructor
  Size,        \* kThreadLocalStorageSize
  Values       \* what threads set

ASSUME SlotsAssumption ==
  /\ IsFiniteSet(Slots) /\ Cleaned \subseteq Slots /\ Size \in Nat \ {0}
  /\ NULL \notin [0..Size - 1 -> Values \cup {NULL}]

VARIABLES
  tls_key_,         \* the native index, or NULL for TLS_OUT_OF_INDEXES
  tls_max_,         \* the next slot's number
  tls_destructors_, \* the numbers with a destructor
  number,           \* slot_ per Slot
  ready,            \* the Slots with initialized_
  table,            \* the table per thread, or NULL
  wrote             \* history: what each thread last set, per Slot

slotVars == <<tls_key_, tls_max_, tls_destructors_, number, ready, table, wrote>>

SlotsInit ==
  /\ tls_key_ = NULL /\ tls_max_ = 1 /\ tls_destructors_ = {}
  /\ number = [s \in Slots |-> 0] /\ ready = {}
  /\ table = [t \in OSThreads |-> NULL]
  /\ wrote = [t \in OSThreads |-> [s \in Slots |-> NULL]]

-----------------------------------------------------------------------------
HasTable(t) == tls_key_ # NULL /\ native[tls_key_][t] # NULL
MakeTable == Frame("table", NULL, "key", << >>)
TableFirst(t) == IF HasTable(t) THEN << >> ELSE <<MakeTable>>

InitializingSlot(s) == \E t \in OSThreads, k \in 1..2 :
  k \in DOMAIN calls[t] /\ calls[t][k].fn = "initialize" /\ calls[t][k].on = s
Unborn == {s \in Slots : InitializingSlot(s) /\ s \notin ready}
Exiting == \E t \in OSThreads : In(t, "exits", "loop")

InitializeSlot(t, s) ==
  /\ s \notin ready /\ ~InitializingSlot(s) /\ tls_max_ + Cardinality(Unborn) < Size
  /\ UserCalls(t, "slots", <<Frame("initialize", s, "check", << >>)>>)
  /\ UNCHANGED <<native, slotVars>>

Check(t) ==
  /\ In(t, "initialize", "check")
  /\ GoTo(t, "grab", << >>, TableFirst(t))
  /\ UNCHANGED <<left, native, slotVars>>

(* InterlockedIncrement of tls_max_.                                         *)
Grab(t) ==
  /\ In(t, "initialize", "grab")
  /\ tls_max_' = tls_max_ + 1
  /\ number' = [number EXCEPT ![On(t)] = tls_max_]
  /\ GoTo(t, "destructor", << >>, << >>)
  /\ UNCHANGED <<left, native, tls_key_, tls_destructors_, ready, table, wrote>>

SetDestructor(t) ==
  /\ In(t, "initialize", "destructor")
  /\ tls_destructors_' = tls_destructors_ \cup {number[s] : s \in {On(t)} \cap Cleaned}
  /\ ready' = ready \cup {On(t)}
  /\ wrote' = [u \in OSThreads |-> [wrote[u] EXCEPT ![On(t)] = NULL]]
  /\ Return(t)
  /\ UNCHANGED <<left, native, tls_key_, tls_max_, number, table>>

(* ThreadLocalStorage::Initialize.                                           *)
Key(t) ==
  /\ In(t, "table", "key")
  /\ IF tls_key_ = NULL
     THEN \E i \in Indexes : TlsAlloc(i) /\ GoTo(t, "swap", <<i>>, << >>)
     ELSE GoTo(t, "create", << >>, << >>) /\ UNCHANGED native
  /\ UNCHANGED <<left, slotVars>>

WinsKey == tls_key_ = NULL

SwapKey(t) ==
  /\ In(t, "table", "swap")
  /\ IF WinsKey
     THEN tls_key_' = Local(t)[1] /\ UNCHANGED native
     ELSE TlsFree(Local(t)[1]) /\ UNCHANGED tls_key_
  /\ GoTo(t, "create", << >>, << >>)
  /\ UNCHANGED <<left, tls_max_, tls_destructors_, number, ready, table, wrote>>

CreateTable(t) ==
  /\ In(t, "table", "create")
  /\ table' = [table EXCEPT ![t] = [n \in 0..Size - 1 |-> NULL]]
  /\ TlsSetValue(t, tls_key_, "table")
  /\ Return(t)
  /\ UNCHANGED <<left, tls_key_, tls_max_, tls_destructors_, number, ready, wrote>>

-----------------------------------------------------------------------------
(* Slot::Get and Slot::Set.                                                  *)
GetSlot(t, s) ==
  /\ s \in ready
  /\ UserCalls(t, "slots", <<Frame("getSlot", s, "read", << >>)>> \o TableFirst(t))
  /\ UNCHANGED <<native, slotVars>>
SetSlot(t, s, v) ==
  /\ s \in ready
  /\ UserCalls(t, "slots", <<Frame("setSlot", s, "write", <<v>>)>> \o TableFirst(t))
  /\ UNCHANGED <<native, slotVars>>

Read(t) ==
  /\ In(t, "getSlot", "read") /\ Return(t)
  /\ UNCHANGED <<left, native, slotVars>>
Write(t) ==
  /\ In(t, "setSlot", "write")
  /\ table' = [table EXCEPT ![t][number[On(t)]] = Local(t)[1]]
  /\ wrote' = [wrote EXCEPT ![t][On(t)] = Local(t)[1]]
  /\ Return(t)
  /\ UNCHANGED <<left, native, tls_key_, tls_max_, tls_destructors_, number, ready>>

(* Slot::Free.  Nobody uses the slot then.                                   *)
FreeSlot(t, s) ==
  /\ s \in ready /\ ~Exiting
  /\ \A u \in OSThreads : \A k \in DOMAIN calls[u] : calls[u][k].on # s
  /\ UserCalls(t, "slots", << >>)
  /\ tls_destructors_' = tls_destructors_ \ {number[s]} /\ ready' = ready \ {s}
  /\ UNCHANGED <<native, tls_key_, tls_max_, number, table, wrote>>

-----------------------------------------------------------------------------
(* ThreadExit, when the thread ends; its index's value was NULL if it never   *)
(* had a table.  x is the slot's number, what destructors got, and (history)  *)
(* the slots whose destructors are due.                                      *)
ThreadExit(t) ==
  /\ Idle(t) /\ table[t] # NULL
  /\ calls' = [calls EXCEPT ![t] = <<Frame("exits", NULL, "loop", <<0, << >>, ready \cap Cleaned>>)>>]
  /\ UNCHANGED <<left, native, slotVars>>

CallDestructor(t) ==
  /\ In(t, "exits", "loop") /\ Local(t)[1] < tls_max_
  /\ LET n == Local(t)[1]
         passed == IF n \in tls_destructors_
                   THEN Append(Local(t)[2], <<n, table[t][n]>>) ELSE Local(t)[2]
     IN  GoTo(t, "loop", <<n + 1, passed, Local(t)[3]>>, << >>)
  /\ UNCHANGED <<left, native, slotVars>>

(* The table is deleted, and with the thread the values of all indexes.       *)
ThreadGone(t) ==
  /\ In(t, "exits", "loop") /\ Local(t)[1] >= tls_max_
  /\ table' = [table EXCEPT ![t] = NULL]
  /\ native' = Forgotten(t)
  /\ wrote' = [wrote EXCEPT ![t] = [s \in Slots |-> NULL]]
  /\ Return(t)
  /\ UNCHANGED <<left, tls_key_, tls_max_, tls_destructors_, number, ready>>

SlotStep(t) ==
  \/ Check(t) \/ Grab(t) \/ SetDestructor(t) \/ Key(t) \/ SwapKey(t) \/ CreateTable(t)
  \/ Read(t) \/ Write(t) \/ CallDestructor(t) \/ ThreadGone(t)

SlotCalls(t) ==
  \E s \in Slots : \/ InitializeSlot(t, s) \/ GetSlot(t, s) \/ FreeSlot(t, s)
                   \/ \E v \in Values : SetSlot(t, s, v)

-----------------------------------------------------------------------------
(* Each slot keeps what the thread set, and starts with NULL; no table is     *)
(* lost; no two slots share a number; a destructor that is due gets the       *)
(* thread's value once, in the order of the slots' numbers.                  *)
SlotsSound ==
  /\ \A t \in OSThreads :
       /\ table[t] # NULL <=> HasTable(t)
       /\ \A s \in ready : wrote[t][s] = IF table[t] = NULL THEN NULL ELSE table[t][number[s]]
       /\ In(t, "exits", "loop") =>
            LET x == Local(t)
            IN  \A s \in x[3] :
                  Cardinality({k \in DOMAIN x[2] : x[2][k] = <<number[s], wrote[t][s]>>})
                    = IF number[s] < x[1] \/ x[1] >= tls_max_ THEN 1 ELSE 0
  /\ \A s, u \in ready : s # u => number[s] # number[u]
=============================================================================
