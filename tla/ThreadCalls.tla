------------------------------ MODULE ThreadCalls ------------------------------
(***************************************************************************)
(* What chromium/base/singleton.h, lazy_instance.cc, at_exit.cc and           *)
(* thread_local_storage_win.cc run on: threads in the midst of nested calls,  *)
(* and the thread local storage of Windows, which those files share.         *)
(* Windows is external; it is modelled as the files use it.                  *)
(***************************************************************************)
EXTENDS Integers, SequencesExt

CONSTANTS
  OSThreads,     \* the threads
  MainThread,    \* the thread of main()
  Indexes,       \* the indexes TlsAlloc can return
  Budgets,       \* bounds on the calls user code makes: per thread, how many
                 \* are about objects and how many about slots
  NULL

ASSUME OSThreadsAssumption ==
  MainThread \in OSThreads /\ Budgets \subseteq [OSThreads -> [objects : Nat, slots : Nat]]
ASSUME IndexesAssumption == Indexes \subseteq Nat /\ NULL \notin Nat /\ NULL # "table"

VARIABLES
  calls,       \* per thread: the calls it is in, the innermost last
  left,        \* per thread: what its user code may still call
  native       \* per allocated index: the value of each thread

(* A call: of fn on an object or slot, at pc, with its local variables x.     *)
Frame(fn, on, pc, x) == [fn |-> fn, on |-> on, pc |-> pc, x |-> x]

In(t, fn, pc) == calls[t] # << >> /\ Last(calls[t]).fn = fn /\ Last(calls[t]).pc = pc
On(t) == Last(calls[t]).on
Local(t) == Last(calls[t]).x

(* t goes on in its innermost call, with local variables x, after it has      *)
(* made the calls in nested, a sequence of none or one.                      *)
GoTo(t, pc, x, nested) ==
  calls' = [calls EXCEPT ![t] = Front(@) \o <<Frame(Last(@).fn, Last(@).on, pc, x)>> \o nested]
Return(t) == calls' = [calls EXCEPT ![t] = Front(@)]

(* User code of t spends one of its calls about objects or slots.             *)
Idle(t) == calls[t] = << >>
Spend(t, about) ==
  /\ Idle(t) /\ left[t][about] > 0
  /\ left' = [left EXCEPT ![t][about] = @ - 1]
UserCalls(t, about, nested) == Spend(t, about) /\ calls' = [calls EXCEPT ![t] = nested]

(* TlsAlloc, TlsFree, TlsSetValue.  A new index has NULL in every thread.     *)
TlsAlloc(i) ==
  /\ i \notin DOMAIN native /\ \A j \in Indexes \ DOMAIN native : i <= j
  /\ native' = [j \in DOMAIN native \cup {i} |-> IF j = i THEN [t \in OSThreads |-> NULL] ELSE native[j]]
TlsFree(i) == native' = [j \in DOMAIN native \ {i} |-> native[j]]
TlsSetValue(t, i, v) == native' = [native EXCEPT ![i][t] = v]

(* When a thread is gone, a new one in its place finds no values.             *)
Forgotten(t) == [i \in DOMAIN native |-> [native[i] EXCEPT ![t] = NULL]]

CallsInit ==
  /\ calls = [t \in OSThreads |-> << >>]
  /\ left \in Budgets
  /\ native = [i \in {} |-> << >>]
=============================================================================
