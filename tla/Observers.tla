------------------------------- MODULE Observers --------------------------------
(***************************************************************************)
(* The two kinds of list the library offers: an ObserverList, which its       *)
(* thread keeps to itself, and an ObserverListThreadSafe, which makes one for *)
(* each thread.  A behaviour has one of the two.                             *)
(***************************************************************************)
EXTENDS ObserverListThreadSafe

CONSTANTS
  NotifyTypes,    \* the types an ObserverList is made with
  MaxDepth        \* bound on its nested notifications

ASSUME TypesAssumption == NotifyTypes \subseteq {"NOTIFY_ALL", "NOTIFY_EXISTING_ONLY"}
ASSUME DepthAssumption == MaxDepth \in Nat

VARIABLES
  kind,              \* "single" or "thread safe"
  list, type, notes  \* as in ObserverList

singleVars == <<list, type, notes>>
allVars == <<kind, vars, singleVars>>

Single == INSTANCE ObserverList

EitherInit == kind \in {"single", "thread safe"} /\ Init /\ Single!Init

EitherNext ==
  \/ kind = "single" /\ Single!Next /\ UNCHANGED <<kind, vars>>
  \/ kind = "thread safe" /\ Next /\ UNCHANGED <<kind, singleVars>>

(* A list that is not there has nothing to do: Fairness is about the other.  *)
EitherSpec == EitherInit /\ [][EitherNext]_allVars /\ Fairness

-----------------------------------------------------------------------------
(* In every state of a single list: the depth counts the notifications,       *)
(* nulled slots end with them, and lists for existing observers tell no       *)
(* others, whoever removes whom within which notification.                   *)
SingleSound == Single!ListSound

(* Who stays registered is told, and told once, in each of the notifications  *)
(* nested in one another.                                                    *)
EachToldOnce == Single!EachToldOnce
=============================================================================
