-------------------------------- MODULE IOPump --------------------------------
(***************************************************************************)
(* MessagePumpForIO (chromium/base/message_pump_win.cc): a loop over a        *)
(* completion port, which runs the tasks of its delegate between completions. *)
(* The port gets the completions of the operations of files, and an item of   *)
(* the pump's own when a task is posted while have_work_ is not set.          *)
(* A task or a callback may wait for the completions of one file: those of    *)
(* the others are put aside meanwhile, in completed_io_.  Files are the users *)
(* that message_pump_win.h:230-296 describes: some own one context, which     *)
(* they leave to the pump if it is in use when they are destroyed, and some   *)
(* make one for each operation, and wait for all of them when destroyed.      *)
(***************************************************************************)
EXTENDS PumpTasks

CONSTANTS
  Files, WaitingFiles,  \* the files, and those of the second kind
  NoFile,               \* the filter NULL
  MaxOperations         \* bound on the operations

ASSUME IOPumpAssumption ==
  WaitingFiles \subseteq Files /\ NoFile \notin Files /\ MaxOperations \in Nat

VARIABLES
  port,        \* the completion port: items
  saved,       \* completed_io_
  file         \* per file, its life, its operations and its contexts

ioVars == <<stack, port, saved, haveWork, delayedTime, poster, queueVars, file>>

(* A file is alive, dying (in its destructor) or gone; started, inFlight,     *)
(* completed and done count its operations; orphan says that the handler of  *)
(* its context is NULL.                                                      *)
NewFile(f) ==
  [life |-> "alive", started |-> 0, inFlight |-> 0, completed |-> 0, done |-> 0,
   contexts |-> IF f \in WaitingFiles THEN 0 ELSE 1, orphan |-> FALSE]
Outstanding(f) == file[f].started - file[f].done

Internal == [of |-> NoFile, n |-> 0]
IOFrame(what, at, of) ==
  [what |-> what, at |-> at, of |-> of, more |-> FALSE, quit |-> FALSE]
In(what) == Running /\ Top.what = what

IOInit ==
  /\ PumpInit
  /\ port = << >> /\ saved = << >>
  /\ file = [f \in Files |-> NewFile(f)]

-----------------------------------------------------------------------------
(* ScheduleWork, on another thread when the flag is set.                      *)
PostItem(t) ==
  /\ poster[t] = "post"
  /\ port' = Append(port, Internal)
  /\ poster' = [poster EXCEPT ![t] = "idle"]
  /\ UNCHANGED <<stack, saved, haveWork, delayedTime, queueVars, file>>

(* An operation ends, in whatever way.                                       *)
Completes(f) ==
  /\ file[f].inFlight > 0
  /\ file' = [file EXCEPT ![f].inFlight = @ - 1, ![f].completed = @ + 1]
  /\ port' = Append(port, [of |-> f, n |-> file[f].completed + 1])
  /\ UNCHANGED <<stack, saved, haveWork, delayedTime, poster, queueVars>>

-----------------------------------------------------------------------------
(* DoRunLoop.                                                                *)

IORun ==
  /\ ~Running /\ stack' = <<IOFrame("run", "work", NoFile)>>
  /\ UNCHANGED <<port, saved, haveWork, delayedTime, poster, queueVars, file>>

IODoWork ==
  /\ IsAt("run", "work") /\ ~Top.quit
  /\ LET d == Worked
         s == [stack EXCEPT ![Len(stack)].at = "io", ![Len(stack)].more = FALSE]
     IN  /\ workQueue' = d.work /\ incoming' = d.arrived /\ waiting' = waiting + d.moved
         /\ delayedTime' = IF d.moved > 0 /\ waiting + due = 0 THEN "future" ELSE delayedTime
         /\ stack' = IF d.ran THEN Append(s, IOFrame("task", "on", NoFile)) ELSE s
  /\ UNCHANGED <<port, saved, haveWork, poster, due, tasks, file>>

LoopPollIO ==
  /\ IsAt("run", "io") /\ ~Top.quit
  /\ Call("delayed", IOFrame("wait", "poll", NoFile))
  /\ UNCHANGED <<port, saved, haveWork, delayedTime, poster, queueVars, file>>

IODoDelayedWork ==
  /\ IsAt("run", "delayed") /\ ~Top.quit
  /\ delayedTime' = NextDelay
  /\ IF due > 0 THEN due' = due - 1 /\ Call("decide", IOFrame("task", "on", NoFile))
                ELSE UNCHANGED due /\ GoTo("decide")
  /\ UNCHANGED <<port, saved, haveWork, poster, incoming, workQueue, waiting, tasks, file>>

(* DoIdleWork has nothing to do.                                             *)
LoopDecides ==
  /\ IsAt("run", "decide") /\ ~Top.quit
  /\ GoTo(IF Top.more THEN "work" ELSE "sleep")
  /\ UNCHANGED <<port, saved, haveWork, delayedTime, poster, queueVars, file>>

IOWaitForWork ==
  /\ IsAt("run", "sleep") /\ ~Top.quit
  /\ Call("work", IOFrame("wait", "delay", NoFile))
  /\ UNCHANGED <<port, saved, haveWork, delayedTime, poster, queueVars, file>>

(* The pump is run once.                                                     *)
IORunReturns ==
  /\ In("run") /\ Top.quit /\ Top.at # "over"
  /\ GoTo("over")
  /\ UNCHANGED <<port, saved, haveWork, delayedTime, poster, queueVars, file>>

-----------------------------------------------------------------------------
(* WaitForIOCompletion: the frame has the filter, and its place is the kind   *)
(* of its timeout: none ("poll"), the current delay, or INFINITE.             *)

(* Mutant of Matching: the filter is not looked at.                          *)
MatchingAny(filter) == DOMAIN saved

(* MatchCompletedIOItem.                                                     *)
Matching(filter) == {k \in DOMAIN saved : filter \in {NoFile, saved[k].of}}

(* The callback for the context of the file: "pending_ = false", or "delete   *)
(* context".                                                                 *)
Called(f) ==
  /\ stack' = Append(Front(stack), IOFrame("callback", "on", f))
  /\ file' = [file EXCEPT ![f].done = @ + 1,
                          ![f].contexts = IF f \in WaitingFiles THEN @ - 1 ELSE @]

(* What becomes of an item: its context is deleted when it has no handler,    *)
(* the item is put at the end of rest, what is left of completed_io_, when    *)
(* the wait is for another's, and the handler is called otherwise.            *)
Deliver(item, rest) ==
  LET f == item.of
  IN  IF file[f].orphan
      THEN /\ file' = [file EXCEPT ![f].done = @ + 1, ![f].contexts = @ - 1]
           /\ saved' = rest /\ Return(TRUE)
      ELSE IF Top.of \in {NoFile, f}
      THEN Called(f) /\ saved' = rest
      ELSE saved' = Append(rest, item) /\ Return(TRUE) /\ UNCHANGED file

WaitMatches ==
  /\ In("wait") /\ Top.at # "reset" /\ Matching(Top.of) # {}
  /\ LET k == Min(Matching(Top.of)) IN Deliver(saved[k], RemoveAt(saved, k))
  /\ UNCHANGED <<port, haveWork, delayedTime, poster, queueVars>>

(* Mutant of WaitGets: the port comes before the items put aside.            *)
WaitGetsFirst ==
  /\ In("wait") /\ Top.at # "reset" /\ port # << >>
  /\ port' = Tail(port)
  /\ IF Head(port) = Internal
     THEN GoTo("reset") /\ UNCHANGED <<saved, file>>
     ELSE Deliver(Head(port), saved)
  /\ UNCHANGED <<haveWork, delayedTime, poster, queueVars>>

WaitGets ==
  /\ In("wait") /\ Top.at # "reset" /\ Matching(Top.of) = {} /\ port # << >>
  /\ port' = Tail(port)
  /\ IF Head(port) = Internal
     THEN GoTo("reset") /\ UNCHANGED <<saved, file>>
     ELSE Deliver(Head(port), saved)
  /\ UNCHANGED <<haveWork, delayedTime, poster, queueVars>>

WaitTimesOut ==
  /\ IsAt("wait", "poll") \/ (IsAt("wait", "delay") /\ delayedTime = "past")
  /\ Matching(Top.of) = {} /\ port = << >>
  /\ Return(FALSE)
  /\ UNCHANGED <<port, saved, haveWork, delayedTime, poster, queueVars, file>>

(* Mutant of ProcessInternalIOItem: the flag stays set.                      *)
ResetIOForgotten ==
  /\ IsAt("wait", "reset") /\ Return(TRUE)
  /\ UNCHANGED <<port, saved, haveWork, delayedTime, poster, queueVars, file>>

ProcessInternalIOItem ==
  /\ IsAt("wait", "reset")
  /\ haveWork' = FALSE /\ Return(TRUE)
  /\ UNCHANGED <<port, saved, delayedTime, poster, queueVars, file>>

-----------------------------------------------------------------------------
(* Code of the user, in a task or a callback.  The first task may be posted    *)
(* before there is a Run.                                                    *)

InIOUserCode == In("task") \/ In("callback")

IOUserReturns ==
  /\ InIOUserCode /\ Return(TRUE)
  /\ UNCHANGED <<port, saved, haveWork, delayedTime, poster, queueVars, file>>

IOUserPosts(kind) ==
  /\ ~Running \/ InIOUserCode
  /\ Post(kind)
  /\ IF incoming = << >>
     THEN haveWork' = TRUE /\ port' = IF haveWork THEN port ELSE Append(port, Internal)
     ELSE UNCHANGED <<haveWork, port>>
  /\ UNCHANGED <<stack, saved, delayedTime, poster, workQueue, waiting, due, file>>

IOUserQuits ==
  /\ InIOUserCode /\ ~stack[1].quit
  /\ stack' = [stack EXCEPT ![1].quit = TRUE]
  /\ UNCHANGED <<port, saved, haveWork, delayedTime, poster, queueVars, file>>

(* DoSomeIo.                                                                 *)
StartOperation(f) ==
  /\ InIOUserCode /\ file[f].life = "alive"
  /\ MapThenSumSet(LAMBDA g : file[g].started, Files) < MaxOperations
  /\ f \notin WaitingFiles => Outstanding(f) = 0
  /\ file' = [file EXCEPT ![f].started = @ + 1, ![f].inFlight = @ + 1,
                          ![f].contexts = IF f \in WaitingFiles THEN @ + 1 ELSE @]
  /\ UNCHANGED <<stack, port, saved, haveWork, delayedTime, poster, queueVars>>

DestroyFile(f) ==
  /\ InIOUserCode /\ file[f].life = "alive" /\ f \notin WaitingFiles
  /\ file' = [file EXCEPT ![f].life = "gone", ![f].orphan = Outstanding(f) > 0,
                          ![f].contexts = IF Outstanding(f) > 0 THEN @ ELSE @ - 1]
  /\ UNCHANGED <<stack, port, saved, haveWork, delayedTime, poster, queueVars>>

StartDestructor(f) ==
  /\ InIOUserCode /\ file[f].life = "alive" /\ f \in WaitingFiles
  /\ file' = [file EXCEPT ![f].life = "dying"]
  /\ Call("on", IOFrame("destroy", "on", f))
  /\ UNCHANGED <<port, saved, haveWork, delayedTime, poster, queueVars>>

(* "while (pending_) message_pump->WaitForIOCompletion(INFINITE, this)"       *)
DestructorWaits ==
  /\ In("destroy") /\ Outstanding(Top.of) > 0
  /\ Call("on", IOFrame("wait", "forever", Top.of))
  /\ UNCHANGED <<port, saved, haveWork, delayedTime, poster, queueVars, file>>

DestructorEnds ==
  /\ In("destroy") /\ Outstanding(Top.of) = 0
  /\ file' = [file EXCEPT ![Top.of].life = "gone"]
  /\ Return(FALSE)
  /\ UNCHANGED <<port, saved, haveWork, delayedTime, poster, queueVars>>

-----------------------------------------------------------------------------
IOPumpStep ==
  \/ IODoWork \/ LoopPollIO \/ IODoDelayedWork \/ LoopDecides \/ IOWaitForWork \/ IORunReturns
  \/ WaitMatches \/ WaitGets \/ WaitTimesOut \/ ProcessInternalIOItem
  \/ DestructorWaits \/ DestructorEnds

IOUserStep ==
  \/ IOUserQuits \/ \E kind \in {"now", "later"} : IOUserPosts(kind)
  \/ \E f \in Files : StartOperation(f) \/ DestroyFile(f) \/ StartDestructor(f)

IOPosterStep(t) == (SetHaveWork(t) /\ UNCHANGED <<port, saved, file>>) \/ PostItem(t)

IONext ==
  \/ IORun \/ IOPumpStep \/ IOUserStep \/ IOUserReturns
  \/ \E t \in Posters : IOPosterStep(t)
  \/ \E f \in Files : Completes(f)
  \/ /\ TimePasses \/ \E t \in Posters, kind \in {"now", "later"} : PostTask(t, kind)
     /\ UNCHANGED <<port, saved, file>>

(* The pump's thread runs, the user's code returns, time passes, and the      *)
(* system completes each operation.                                          *)
IOFairness ==
  /\ WF_ioVars(IOPumpStep \/ IOUserReturns)
  /\ WF_ioVars(TimePasses /\ UNCHANGED <<port, saved, file>>) /\ WF_ioVars(\E f \in Files : Completes(f))
  /\ \A t \in Posters : WF_ioVars(IOPosterStep(t))

IOSpec == IOInit /\ [][IONext]_ioVars /\ IOFairness

-----------------------------------------------------------------------------
(* The completions of a file that were not delivered, by their numbers.       *)
Items == saved \o port
Undelivered(f) == {Items[k].n : k \in {j \in DOMAIN Items : Items[j].of = f}}

(* Whatever is put aside, whoever waits for whom, and whoever is destroyed    *)
(* meanwhile: each handler gets its completions in the order in which they    *)
(* came, none is lost, and none is delivered twice.                          *)
CompletionsInOrder ==
  /\ \A f \in Files : Undelivered(f) = file[f].done + 1 .. file[f].completed
  /\ \A j, k \in DOMAIN Items :
       j < k /\ Items[j].of = Items[k].of /\ Items[j] # Internal => Items[j].n < Items[k].n

(* A context the system, the port or completed_io_ has still exists, and its  *)
(* handler, unless it is NULL, does too; and there are no other contexts, so  *)
(* that none is left when its file is gone.                                  *)
ContextsValid ==
  \A f \in Files :
    LET held == file[f].inFlight + Cardinality(Undelivered(f))
    IN  /\ file[f].contexts = IF f \in WaitingFiles THEN held
                              ELSE IF held > 0 \/ file[f].life = "alive" THEN 1 ELSE 0
        /\ held > 0 => file[f].life # "gone" \/ file[f].orphan

(* have_work_ is set exactly when there is one item of the pump's own: in the *)
(* port, about to be posted, or taken and with the flag not reset yet.  And   *)
(* the pump does not fall asleep on a task: when it waits for work, a task    *)
(* that could run has that item on its way, and for delayed ones there is a   *)
(* time to wake up.                                                          *)
WorkItems ==
  Cardinality({k \in DOMAIN port : port[k] = Internal})
    + Cardinality({t \in Posters : poster[t] = "post"})
    + (IF IsAt("wait", "reset") THEN 1 ELSE 0)
NoTaskSleptOn ==
  /\ WorkItems = IF haveWork THEN 1 ELSE 0
  /\ IsAt("wait", "delay") =>
       /\ incoming # << >> => WorkItems > 0 \/ \E t \in Posters : poster[t] = "schedule"
       /\ workQueue = << >>
       /\ waiting + due > 0 => delayedTime # "null"

(* While the pump runs, every task is run in the end, and every operation is  *)
(* completed and delivered, or its context deleted: items that were put aside *)
(* are not forgotten.                                                        *)
Served == incoming = << >> /\ workQueue = << >> /\ waiting + due = 0 /\ \A f \in Files : Outstanding(f) = 0
EverythingServed == Running /\ ~Served ~> (Served \/ IsAt("run", "over"))

(* In every state: each completion once, in order, with a context that is    *)
(* still there.                                                              *)
CompletionsSound == CompletionsInOrder /\ ContextsValid
=============================================================================
