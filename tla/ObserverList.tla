------------------------------ MODULE ObserverList -------------------------------
(***************************************************************************)
(* An ObserverList in use on its thread.  Observers are called one by one   *)
(* and may, from within the call, add and remove observers and start        *)
(* another notification: notifications nest.                                *)
(***************************************************************************)
EXTENDS ObserverSlots

CONSTANTS
  NotifyTypes,  \* the types lists are made with
  MaxDepth,     \* bound on nested notifications
  MaxSlots      \* bound on the length of the vector

VARIABLES
  list,   \* the list: observers_ and notify_depth_
  type,   \* type_
  notes   \* the notifications under way, innermost first: the iterator's index_
          \* and max_index_, whether an observer is being called, and as history
          \* the observers registered from the start on, and those called; both
          \* without those removed since

vars == <<list, type, notes>>

Init ==
  /\ list = NewList
  /\ type \in NotifyTypes
  /\ notes = << >>

(* The owner of the list, or an observer it is calling, is running.          *)
UserRuns == notes # << >> => Head(notes).calling

AddObserver(o) ==
  /\ UserRuns
  /\ o \notin Registered(list)
  /\ Len(list.observers) < MaxSlots
  /\ list' = Added(list, o)
  /\ UNCHANGED <<type, notes>>

RemoveObserver(o) ==
  /\ UserRuns
  /\ list' = Removed(list, o)
  /\ notes' = [n \in DOMAIN notes |->
                 [notes[n] EXCEPT !.stable = @ \ {o}, !.told = @ \ {o}]]
  /\ UNCHANGED type

(* Mutant of NotifyFrom: the type is ignored.                                *)
NotifyFromAll(registered) ==
  [index |-> 0, max |-> MaxSlots, calling |-> FALSE,
   stable |-> registered, told |-> {}]

(* FOR_EACH_OBSERVER makes an iterator; for NOTIFY_ALL max_index_ is larger   *)
(* than any list is.                                                         *)
NotifyFrom(registered) ==
  [index |-> 0,
   max |-> IF type = "NOTIFY_ALL" THEN MaxSlots ELSE Len(list.observers),
   calling |-> FALSE, stable |-> registered, told |-> {}]

Notify ==
  /\ UserRuns
  /\ Len(notes) < MaxDepth
  /\ notes' = <<NotifyFrom(Registered(list))>> \o notes
  /\ list' = Entered(list)
  /\ UNCHANGED type

NextSlots == Ahead(list, Head(notes).index, Head(notes).max)

(* GetNext returns an observer, which is called.                             *)
CallNext ==
  /\ notes # << >>
  /\ NextSlots # {}
  /\ LET n    == First(NextSlots)
         note == Head(notes)
     IN  notes' = [notes EXCEPT ![1] = [note EXCEPT !.index = n, !.calling = TRUE,
                                          !.told = note.told \cup {list.observers[n]}]]
  /\ UNCHANGED <<list, type>>

(* GetNext returns NULL and the iterator is destroyed.                       *)
NotifyEnds ==
  /\ notes # << >>
  /\ NextSlots = {}
  /\ notes' = Tail(notes)
  /\ list' = Left(list)
  /\ UNCHANGED type

Next ==
  \/ \E o \in Observers : AddObserver(o) \/ RemoveObserver(o)
  \/ Notify \/ CallNext \/ NotifyEnds

Spec == Init /\ [][Next]_vars

-----------------------------------------------------------------------------
(* Types; notify_depth_ counts the iterators there are, and slots nulled     *)
(* under a notification are gone with the last, so size() is the number of   *)
(* observers again.                                                          *)
Note == [index : 0..MaxSlots, max : 0..MaxSlots, calling : BOOLEAN,
         stable : SUBSET Observers, told : SUBSET Observers]

TypeOK ==
  /\ list.observers \in Seq(Observers \cup {Null}) /\ Len(list.observers) <= MaxSlots
  /\ list.depth = Len(notes)
  /\ type \in NotifyTypes
  /\ notes \in Seq(Note) /\ Len(notes) <= MaxDepth
  /\ notes = << >> => \A n \in DOMAIN list.observers : list.observers[n] # Null

(* "It safely handles the case of an observer removing itself or other        *)
(* observers from the list while observers are being notified": a            *)
(* notification ends when every observer that was registered all along has   *)
(* been called, whatever those called did to the list.                       *)
NobodyMissed ==
  [][Len(notes') < Len(notes) => Head(notes).stable \subseteq Head(notes).told]_vars

(* A notification calls nobody twice, unless removed and added again.        *)
NobodyTwice ==
  [][Len(notes') = Len(notes) /\ notes # << >> /\ Head(notes').index # Head(notes).index
       => list.observers[Head(notes').index] \notin Head(notes).told]_vars

(* "Specifies that observers added while sending out notification are not    *)
(* notified" (NOTIFY_EXISTING_ONLY).                                         *)
OnlyExisting ==
  type = "NOTIFY_EXISTING_ONLY" =>
    \A n \in DOMAIN notes : notes[n].told \subseteq notes[n].stable

(* In every state: the depth counts the notifications, nulled slots end with *)
(* them, and lists for existing observers tell no others.                    *)
ListSound == TypeOK /\ OnlyExisting

(* Who stays registered is told, and told once.                              *)
EachToldOnce == NobodyMissed /\ NobodyTwice
=============================================================================
