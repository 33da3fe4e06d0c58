-------------------------------- MODULE Dict ---------------------------------
(***************************************************************************)
(* The hash table of datastruct/dict.c: two tables, entries moved from the *)
(* first to the second one bucket at a time, and iterators that hold off    *)
(* the moving.  A call of the API is one step: nothing runs concurrently,   *)
(* the hard part is the order in which legal calls come.                    *)
(***************************************************************************)
EXTENDS Integers, FiniteSets, SequencesExt

CONSTANTS
  Keys, Vals,
  Iters,         \* iterator objects
  Hash,          \* the hash function, of the dictType the caller supplies
  InitialSize,   \* DICT_HT_INITIAL_SIZE, 4 in the code
  ForceRatio,    \* dict_force_resize_ratio, 5 in the code
  ExpandSizes,   \* sizes the caller passes to dictExpand
  RehashSteps,   \* numbers of steps the caller passes to dictRehash
  EmptiesEarly,  \* whether callers empty the dict before they release iterators
  NoKey, NoVal

ASSUME HashAssumption    == Hash \in [Keys -> Nat]
ASSUME SizeAssumption    == InitialSize \in Nat \ {0} /\ ForceRatio \in Nat
ASSUME CallsAssumption   == ExpandSizes \subseteq Nat /\ RehashSteps \subseteq Nat \ {0}
ASSUME EmptyAssumption   == EmptiesEarly \in BOOLEAN
ASSUME NothingAssumption == NoKey \notin Keys /\ NoVal \notin Vals

VARIABLES
  d,          \* the dict: ht[0], ht[1], rehashidx and iterators
  canResize,  \* dict_can_resize
  iter,       \* per iterator: what dictGetIterator allocated
  cursor,     \* history, per iterator: keys present since its start, keys returned
  reply       \* history: the last call that a map knows, and its result

vars == <<d, canResize, iter, cursor, reply>>

-----------------------------------------------------------------------------
(* Tables.  A bucket is the sequence of its chained entries.                 *)
NoTable     == [size |-> 0, table |-> << >>, used |-> 0]
NewTable(n) == [size |-> n, table |-> [b \in 0..n - 1 |-> << >>], used |-> 0]

IsRehashing(dd) == dd.rehashidx # -1

(* h & sizemask: sizes are powers of two.                                    *)
Bucket(t, k) == Hash[k] % t.size

Chain(t, k) == IF t.size = 0 THEN << >> ELSE t.table[Bucket(t, k)]

Chained(chain, k) == \E n \in DOMAIN chain : chain[n].key = k

Position(chain, k) == CHOOSE n \in DOMAIN chain : /\ chain[n].key = k
                                                  /\ \A m \in 1..n - 1 : chain[m].key # k

Holds(t, k) == Chained(Chain(t, k), k)

(* Mutant of Has: the second table is forgotten.                             *)
HasInFirst(dd, k) == Holds(dd.ht[0], k)

(* A lookup searches the first table and, while rehashing, the second; it    *)
(* stops at the first entry with the key.                                    *)
Has(dd, k) == Holds(dd.ht[0], k) \/ (IsRehashing(dd) /\ Holds(dd.ht[1], k))

Holder(dd, k) == IF Holds(dd.ht[0], k) THEN 0 ELSE 1

ValueIn(t, k) == Chain(t, k)[Position(Chain(t, k), k)].val

Value(dd, k) ==
  IF Holds(dd.ht[0], k) THEN ValueIn(dd.ht[0], k)
  ELSE IF IsRehashing(dd) /\ Holds(dd.ht[1], k) THEN ValueIn(dd.ht[1], k)
  ELSE NoVal

(* A table in which the chain of key k is c, and has n entries more.         *)
Rechain(t, k, c, n) == [t EXCEPT !.table[Bucket(t, k)] = c, !.used = @ + n]

InUse(dd) == IF IsRehashing(dd) THEN {0, 1} ELSE {0}

(* _dictNextPower: DICT_HT_INITIAL_SIZE doubled until it is large enough.    *)
NextPower(n) ==
  LET doubled[p \in 0..n] == IF p = 0 THEN InitialSize ELSE 2 * doubled[p - 1]
  IN  doubled[CHOOSE p \in 0..n : doubled[p] >= n /\ \A q \in 0..p - 1 : doubled[q] < n]

(* dictExpand: refused while rehashing and when the elements would not fit;  *)
(* the first table is used at once, later ones are filled by rehashing.      *)
ExpandFails(dd, n) == IsRehashing(dd) \/ dd.ht[0].used > n

Expand(dd, n) ==
  IF ExpandFails(dd, n) THEN dd
  ELSE IF dd.ht[0].size = 0 THEN [dd EXCEPT !.ht[0] = NewTable(NextPower(n))]
  ELSE [dd EXCEPT !.ht[1] = NewTable(NextPower(n)), !.rehashidx = 0]

(* _dictExpandIfNeeded.                                                      *)
Larger(m, n) == IF m > n THEN m ELSE n

ExpandIfNeeded(dd) ==
  LET size == dd.ht[0].size
      used == dd.ht[0].used
  IN  IF IsRehashing(dd) THEN dd
      ELSE IF size = 0 THEN Expand(dd, InitialSize)
      ELSE IF used >= size /\ (canResize \/ used \div size > ForceRatio)
           THEN Expand(dd, Larger(size, used) * 2)
           ELSE dd

(* A round of dictRehash moves the next bucket that is not empty, entry by   *)
(* entry, to the fronts of the new chains; with none left the tables swap.   *)
NextBucket(dd) ==
  CHOOSE b \in dd.rehashidx..dd.ht[0].size - 1 :
    /\ dd.ht[0].table[b] # << >>
    /\ \A c \in dd.rehashidx..b - 1 : dd.ht[0].table[c] = << >>

(* The entry goes to the front of its chain.                                 *)
Pushed(t, e) == Rechain(t, e.key, <<e>> \o Chain(t, e.key), 1)

Filled(t, entries) ==
  LET filled[n \in 0..Len(entries)] == IF n = 0 THEN t ELSE Pushed(filled[n - 1], entries[n])
  IN  filled[Len(entries)]

Emptied(t, b) == [t EXCEPT !.table[b] = << >>, !.used = @ - Len(t.table[b])]

BucketMoved(dd) ==
  LET b == NextBucket(dd)
  IN  [dd EXCEPT !.ht[0] = Emptied(@, b),
                 !.ht[1] = Filled(@, dd.ht[0].table[b]),
                 !.rehashidx = b + 1]

Swapped(dd) == [dd EXCEPT !.ht[0] = dd.ht[1], !.ht[1] = NoTable, !.rehashidx = -1]

RehashRound(dd) == IF dd.ht[0].used = 0 THEN Swapped(dd) ELSE BucketMoved(dd)

(* dictRehash(d, n): n rounds, fewer when rehashing ends.                    *)
RehashRounds(dd, n) ==
  LET after[m \in 0..n] ==
        IF m = 0 THEN dd
        ELSE IF IsRehashing(after[m - 1]) THEN RehashRound(after[m - 1]) ELSE after[m - 1]
  IN  after[n]

(* Mutant of RehashStep: it does not wait for iterators.                     *)
StepUnderIterators(dd) == IF IsRehashing(dd) THEN RehashRounds(dd, 1) ELSE dd

(* _dictRehashStep, where it is called.                                      *)
RehashStep(dd) ==
  IF IsRehashing(dd) /\ dd.iterators = 0 THEN RehashRounds(dd, 1) ELSE dd

-----------------------------------------------------------------------------
NoDict   == [ht |-> [t \in {0, 1} |-> NoTable], rehashidx |-> -1, iterators |-> 0]
NoIter   == [live |-> FALSE, table |-> 0, index |-> -1, entry |-> NoKey, next |-> NoKey]
NoCursor == [open |-> FALSE, stable |-> {}, returned |-> {}]
NoReply  == [op |-> "none"]

(* dictCreate.                                                               *)
Init ==
  /\ d = NoDict
  /\ canResize = TRUE
  /\ iter = [i \in Iters |-> NoIter]
  /\ cursor = [i \in Iters |-> NoCursor]
  /\ reply = NoReply

Map == [k \in Keys |-> Value(d, k)]

(* dictAdd up to the test for the key, and the dict when it is not there:    *)
(* the entry goes to the front of its chain in the newest table.             *)
BeforeAdd == ExpandIfNeeded(RehashStep(d))

Added(dd, k, v) ==
  [dd EXCEPT !.ht[IF IsRehashing(dd) THEN 1 ELSE 0] = Pushed(@, [key |-> k, val |-> v])]

DictAdd(k, v) ==
  LET found == Has(BeforeAdd, k)
  IN
  /\ d' = IF found THEN BeforeAdd ELSE Added(BeforeAdd, k, v)
  /\ reply' = [op |-> "dictAdd", ok |-> ~found]
  /\ UNCHANGED <<canResize, iter, cursor>>

(* dictReplace: dictAdd, and when that fails dictFind and a new value.       *)
Assigned(dd, k, v) ==
  LET t     == Holder(dd, k)
      chain == Chain(dd.ht[t], k)
  IN  [dd EXCEPT !.ht[t] = Rechain(@, k, [chain EXCEPT ![Position(chain, k)].val = v], 0)]

DictReplace(k, v) ==
  LET found == Has(BeforeAdd, k)
  IN
  /\ d' = IF found THEN Assigned(RehashStep(BeforeAdd), k, v) ELSE Added(BeforeAdd, k, v)
  /\ reply' = [op |-> "dictReplace", ok |-> ~found]
  /\ UNCHANGED <<canResize, iter, cursor>>

(* dictDelete: the entry is unlinked from the first table that holds it.  A  *)
(* caller that iterates may delete the entry it was given, not the one that  *)
(* comes next.                                                               *)
Unlinked(dd, k) ==
  LET t     == Holder(dd, k)
      chain == Chain(dd.ht[t], k)
  IN  [dd EXCEPT !.ht[t] = Rechain(@, k, RemoveAt(chain, Position(chain, k)), -1)]

DictDelete(k) ==
  LET dd    == RehashStep(d)
      found == Has(dd, k)
  IN
  /\ \A i \in Iters : iter[i].next # k
  /\ d' = IF found THEN Unlinked(dd, k) ELSE dd
  /\ reply' = [op |-> "dictDelete", ok |-> found]
  /\ cursor' = [i \in Iters |-> [cursor[i] EXCEPT !.stable = @ \ {k}, !.returned = @ \ {k}]]
  /\ UNCHANGED <<canResize, iter>>

(* dictFetchValue, which is dictFind.                                        *)
DictFetchValue(k) ==
  /\ d' = RehashStep(d)
  /\ reply' = [op |-> "dictFetchValue", val |-> Value(RehashStep(d), k)]
  /\ UNCHANGED <<canResize, iter, cursor>>

(* dictGetRandomKey: any entry of any bucket of the tables in use.           *)
DictGetRandomKey ==
  LET dd == RehashStep(d)
  IN
  /\ IF d.ht[0].used + d.ht[1].used = 0
     THEN d' = d /\ reply' = [op |-> "dictGetRandomKey", key |-> NoKey]
     ELSE /\ d' = dd
          /\ \E t \in InUse(dd) : \E b \in DOMAIN dd.ht[t].table :
               \E n \in DOMAIN dd.ht[t].table[b] :
                 reply' = [op |-> "dictGetRandomKey", key |-> dd.ht[t].table[b][n].key]
  /\ UNCHANGED <<canResize, iter, cursor>>

(* dictEmpty.  No iterator stands on an entry, which would be freed under it; *)
(* with EmptiesEarly one that came to its end may still be bound to the dict. *)
DictEmpty ==
  /\ \A i \in Iters : iter[i] = NoIter \/ (EmptiesEarly /\ iter[i].entry = NoKey)
  /\ d' = NoDict
  /\ reply' = [op |-> "dictEmpty"]
  /\ UNCHANGED <<canResize, iter, cursor>>

(* dictExpand and dictResize as called by the user.                          *)
DictExpand(n) ==
  /\ d' = Expand(d, n)
  /\ reply' = NoReply
  /\ UNCHANGED <<canResize, iter, cursor>>

DictResize ==
  /\ d' = IF ~canResize \/ IsRehashing(d) THEN d
          ELSE Expand(d, Larger(d.ht[0].used, InitialSize))
  /\ reply' = NoReply
  /\ UNCHANGED <<canResize, iter, cursor>>

(* dictEnableResize and dictDisableResize.                                   *)
DictEnableResize(can) ==
  /\ canResize' = can
  /\ reply' = NoReply
  /\ UNCHANGED <<d, iter, cursor>>

(* dictRehash as called by the user, who does not call it while iterating.   *)
DictRehash(n) ==
  /\ d.iterators = 0
  /\ d' = RehashRounds(d, n)
  /\ reply' = NoReply
  /\ UNCHANGED <<canResize, iter, cursor>>

-----------------------------------------------------------------------------
(* Iterators.                                                                *)
DictGetIterator(i) ==
  /\ ~iter[i].live
  /\ iter' = [iter EXCEPT ![i] = [NoIter EXCEPT !.live = TRUE]]
  /\ reply' = NoReply
  /\ UNCHANGED <<d, canResize, cursor>>

(* The buckets dictNext has still to look at that are not empty, and the     *)
(* first of them: the second table follows the first while rehashing.        *)
Ahead(it) ==
  {p \in {0, 1} \X (0..d.ht[0].size + d.ht[1].size) :
     /\ p[2] < d.ht[p[1]].size
     /\ \/ p[1] = it.table /\ p[2] > it.index
        \/ p[1] > it.table /\ IsRehashing(d)
     /\ d.ht[p[1]].table[p[2]] # << >>}

Nearest(ps) == CHOOSE p \in ps : \A q \in ps : p[1] < q[1] \/ (p[1] = q[1] /\ p[2] <= q[2])

(* The entry chained after that of key k, wherever that one is now.          *)
Successor(k) ==
  LET chain == Chain(d.ht[Holder(d, k)], k)
      n     == Position(chain, k)
  IN  IF n < Len(chain) THEN chain[n + 1].key ELSE NoKey

(* dictNext: the saved successor, else the first entry of the next bucket;   *)
(* the successor of what is returned is saved.                               *)
Advanced(it) ==
  LET last == IF IsRehashing(d) THEN 1 ELSE 0
      To(k, t, b) == [it EXCEPT !.table = t, !.index = b, !.entry = k, !.next = Successor(k)]
  IN  IF it.next # NoKey
      THEN To(it.next, it.table, it.index)
      ELSE IF Ahead(it) # {}
      THEN LET p == Nearest(Ahead(it)) IN To(d.ht[p[1]].table[p[2]][1].key, p[1], p[2])
      ELSE [it EXCEPT !.table = last, !.index = d.ht[last].size, !.entry = NoKey]

(* dictNext; the caller stops at NULL.                                       *)
DictNext(i) ==
  LET it    == iter[i]
      first == it.index = -1 /\ it.table = 0
      now   == Advanced(it)
      open  == IF first THEN [open |-> TRUE, stable |-> {k \in Keys : Map[k] # NoVal},
                              returned |-> {}]
               ELSE cursor[i]
  IN
  /\ it.live
  /\ first \/ it.entry # NoKey
  /\ iter' = [iter EXCEPT ![i] = now]
  /\ d' = IF first THEN [d EXCEPT !.iterators = @ + 1] ELSE d
  /\ cursor' = [cursor EXCEPT ![i] =
                  [open EXCEPT !.returned = @ \cup ({now.entry} \ {NoKey})]]
  /\ reply' = [op |-> "dictNext", iter |-> i, key |-> now.entry]
  /\ UNCHANGED canResize

(* Mutant of DictReleaseIterator: the counter does not go down.              *)
ReleaseUncounted(i) ==
  /\ iter[i].live
  /\ iter' = [iter EXCEPT ![i] = NoIter]
  /\ cursor' = [cursor EXCEPT ![i] = NoCursor]
  /\ reply' = [op |-> "dictReleaseIterator"]
  /\ UNCHANGED <<d, canResize>>

DictReleaseIterator(i) ==
  LET it == iter[i]
  IN
  /\ it.live
  /\ d' = IF it.index = -1 /\ it.table = 0 THEN d ELSE [d EXCEPT !.iterators = @ - 1]
  /\ iter' = [iter EXCEPT ![i] = NoIter]
  /\ cursor' = [cursor EXCEPT ![i] = NoCursor]
  /\ reply' = [op |-> "dictReleaseIterator"]
  /\ UNCHANGED canResize

-----------------------------------------------------------------------------
Next ==
  \/ \E k \in Keys, v \in Vals : DictAdd(k, v) \/ DictReplace(k, v)
  \/ \E k \in Keys : DictDelete(k) \/ DictFetchValue(k)
  \/ DictGetRandomKey \/ DictEmpty \/ DictResize
  \/ \E n \in ExpandSizes : DictExpand(n)
  \/ \E n \in RehashSteps : DictRehash(n)
  \/ \E can \in BOOLEAN : DictEnableResize(can)
  \/ \E i \in Iters : DictGetIterator(i) \/ DictNext(i) \/ DictReleaseIterator(i)

Spec == Init /\ [][Next]_vars

Started(i) == iter[i].live /\ iter[i].index # -1

(* The dict is in use: now and then somebody looks up a key while nobody     *)
(* iterates, and iterators are released.                                     *)
Fairness ==
  /\ SF_vars((\A i \in Iters : ~Started(i)) /\ \E k \in Keys : DictFetchValue(k))
  /\ \A i \in Iters : WF_vars(DictReleaseIterator(i))

FairSpec == Spec /\ Fairness

-----------------------------------------------------------------------------
(* Tables have the sizes they claim.                                         *)
Entries   == [key : Keys, val : Vals]
IsTable(t) ==
  /\ t.size \in Nat /\ t.used \in Nat
  /\ DOMAIN t.table = IF t.size = 0 THEN {} ELSE 0..t.size - 1
  /\ \A b \in DOMAIN t.table : t.table[b] \in Seq(Entries)

(* An entry is where a lookup searches for it, and nowhere else: in the      *)
(* bucket of its hash, in one table, once; the insertion, the move of a      *)
(* bucket and the swap of the tables must agree on it.                       *)
Spots(k) ==
  UNION {UNION {{<<t, b, n>> : n \in {n \in DOMAIN d.ht[t].table[b] :
                                      d.ht[t].table[b][n].key = k}}
                : b \in DOMAIN d.ht[t].table} : t \in {0, 1}}

Placement ==
  \A k \in Keys : /\ Cardinality(Spots(k)) <= 1
                 /\ \A p \in Spots(k) : p[2] = Bucket(d.ht[p[1]], k)

(* The iterators counter is the number of iterators that have started, so    *)
(* rehashing is held off exactly while one of them is in the tables.         *)
IteratorsCounted ==
  d.iterators = Cardinality({i \in Iters : Started(i)})

(* Types; entries are placed and iterators are counted as the calls assume.  *)
TypeOK ==
  /\ \A t \in {0, 1} : IsTable(d.ht[t])
  /\ d.rehashidx \in -1..d.ht[0].size /\ d.iterators \in Int
  /\ IsRehashing(d) <=> d.ht[1].size > 0
  /\ canResize \in BOOLEAN
  /\ \A i \in Iters : iter[i].table \in {0, 1} /\ iter[i].entry \in Keys \cup {NoKey}
  /\ Placement /\ IteratorsCounted

(* The scan for the next bucket stays inside the table: "rehashidx can't     *)
(* overflow as we are sure there are more elements" (dictRehash).            *)
ScanInBounds ==
  IsRehashing(d) =>
    /\ \A b \in 0..d.rehashidx - 1 : d.ht[0].table[b] = << >>
    /\ d.ht[0].used > 0 => \E b \in d.rehashidx..d.ht[0].size - 1 : d.ht[0].table[b] # << >>

(* The successor an iterator has saved is still in the bucket it stands on.  *)
SavedNextLive ==
  \A i \in Iters : iter[i].next # NoKey =>
    Chained(d.ht[iter[i].table].table[iter[i].index], iter[i].next)

(* The dict is a DictMap: calls reply what a map would, whatever expansion   *)
(* and rehashing are under way, and an iterator returns every key that is    *)
(* there all along, once.                                                    *)
Abstract == INSTANCE DictMap WITH map <- Map
IsAMap == Abstract!Spec

(* "The hash table automatically migrates from H1 to H2 while it is actively *)
(* used" (_dictRehashStep).                                                  *)
Migrates == IsRehashing(d) ~> ~IsRehashing(d)

(* In every state: entries are where lookups search, the bucket scan ends    *)
(* inside the table, and iterators stand on entries that are there.          *)
TableSound == TypeOK /\ ScanInBounds /\ SavedNextLive
=============================================================================
