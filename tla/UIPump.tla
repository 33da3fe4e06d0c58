-------------------------------- MODULE UIPump --------------------------------
(***************************************************************************)
(* MessagePumpForUI (chromium/base/message_pump_win.cc): a loop over the      *)
(* Windows messages of its thread, which runs the tasks of its delegate, a    *)
(* MessageLoop, between them.  Code of the user that a task or a message       *)
(* calls may enter a native modal loop, which knows about messages only: a    *)
(* message of its own, kMsgHaveWork, gives the pump a turn there.  have_work_  *)
(* says whether there is one, and is set by any thread that posts a task.     *)
(* The thread's calls are a stack of frames; the top one acts.  Of the        *)
(* MessageLoop this is what the pump sees: two queues, a set of delayed       *)
(* tasks, and the flag that keeps tasks from running within tasks.           *)
(***************************************************************************)
EXTENDS PumpTasks

CONSTANTS
  MaxInputs,  \* bound on the input messages
  MaxStack    \* bound on the frames from which the user calls a loop

ASSUME UIPumpAssumption == MaxInputs \in Nat /\ MaxStack \in Nat

VARIABLES
  posted,        \* the posted messages: "work" (kMsgHaveWork) and "input"
  quitMessage,   \* whether there is a WM_QUIT
  timer,         \* the Windows timer: "off", "set" or "elapsed"
  inputs,        \* how many input messages there have been
  nestable       \* nestable_tasks_allowed_

messages == <<posted, quitMessage, timer, inputs>>
taskVars == <<queueVars, nestable>>
uiVars == <<stack, messages, haveWork, delayedTime, poster, taskVars>>

(* msg is the message that a replacement took.                               *)
UIFrame(what, at) == [what |-> what, at |-> at, more |-> FALSE, quit |-> FALSE, msg |-> "none"]

(* state_, the innermost Run under way: its place in the stack, or 0.        *)
State == Max({0} \cup {k \in DOMAIN stack : stack[k].what = "run"})

UIInit ==
  /\ PumpInit
  /\ posted = << >> /\ quitMessage = FALSE /\ timer = "off" /\ inputs = 0
  /\ nestable = TRUE

-----------------------------------------------------------------------------
(* ScheduleWork, on another thread when the flag is set.                      *)
PostWorkMessage(t) ==
  /\ poster[t] = "post"
  /\ posted' = Append(posted, "work")
  /\ poster' = [poster EXCEPT ![t] = "idle"]
  /\ UNCHANGED <<stack, quitMessage, timer, inputs, haveWork, delayedTime, taskVars>>

(* On the pump's thread nothing comes between the two.                       *)
ScheduleWork ==
  /\ haveWork' = TRUE
  /\ posted' = IF haveWork THEN posted ELSE Append(posted, "work")

-----------------------------------------------------------------------------
(* The delegate.                                                             *)

(* DoWork; the frame goes on at the given place, with what DoWork returned.   *)
DoWork(at) ==
  LET d == IF nestable THEN Worked
           ELSE [ran |-> FALSE, work |-> workQueue, arrived |-> incoming, moved |-> 0]
  IN  /\ workQueue' = d.work /\ incoming' = d.arrived /\ waiting' = waiting + d.moved
      /\ IF d.moved > 0 /\ waiting + due = 0
         THEN delayedTime' = "future" /\ timer' = "set"  \* ScheduleDelayedWork
         ELSE UNCHANGED <<delayedTime, timer>>
      /\ nestable' = (nestable /\ ~d.ran)
      /\ IF d.ran THEN Call(at, UIFrame("task", "on")) ELSE GoTo(at)
      /\ UNCHANGED <<due, tasks>>

DoDelayedWork(at) ==
  LET run == nestable /\ due > 0
  IN  /\ delayedTime' = IF nestable THEN NextDelay ELSE "null"
      /\ due' = IF run THEN due - 1 ELSE due
      /\ nestable' = (nestable /\ ~run)
      /\ IF run THEN Call(at, UIFrame("task", "on")) ELSE GoTo(at)
      /\ UNCHANGED <<incoming, workQueue, waiting, tasks>>

-----------------------------------------------------------------------------
(* Messages.  Windows makes WM_QUIT and WM_TIMER up when no other is there.   *)

NextMessage ==
  CASE posted # << >> -> Head(posted)
    [] posted = << >> /\ quitMessage -> "quit"
    [] posted = << >> /\ ~quitMessage /\ timer = "elapsed" -> "timer"
    [] OTHER -> "none"

Take(m) ==
  /\ m = NextMessage
  /\ posted' = IF m \in {"work", "input"} THEN Tail(posted) ELSE posted
  /\ quitMessage' = IF m = "quit" THEN FALSE ELSE quitMessage
  /\ timer' = IF m = "timer" THEN "set" ELSE timer

(* What Windows, or a dialog, calls for a message: a window procedure.       *)
Procedure(m) ==
  CASE m = "work" -> UIFrame("handle", "start")
    [] m = "timer" -> UIFrame("timer", "start")
    [] m = "input" -> UIFrame("input", "on")

(* ProcessMessageHelper in the frames s, which calls when there is something  *)
(* to call, and returns b to the loop otherwise.  quit is what becomes of    *)
(* WM_QUIT.                                                                  *)
Helper(s, m) ==
  IF m = "quit"
  THEN stack' = [s EXCEPT ![State].quit = TRUE]
  ELSE stack' = Append(s, IF m = "work" THEN UIFrame("replace", "peek") ELSE Procedure(m))

(* One of the messages that come from elsewhere.                             *)
InputArrives ==
  /\ inputs < MaxInputs
  /\ inputs' = inputs + 1 /\ posted' = Append(posted, "input")
  /\ UNCHANGED <<stack, quitMessage, timer, haveWork, delayedTime, poster, taskVars>>

TimerElapses ==
  /\ timer = "set" /\ timer' = "elapsed"
  /\ UNCHANGED <<stack, posted, quitMessage, inputs, haveWork, delayedTime, poster, taskVars>>

-----------------------------------------------------------------------------
(* DoRunLoop.                                                                *)

UIRun ==
  /\ ~Running /\ stack' = <<UIFrame("run", "peek")>>
  /\ UNCHANGED <<messages, haveWork, delayedTime, poster, taskVars>>

(* ProcessNextWindowsMessage.                                                *)
ProcessNextWindowsMessage ==
  LET loop == [stack EXCEPT ![Len(stack)].at = "work", ![Len(stack)].more = FALSE]
  IN  /\ IsAt("run", "peek") /\ ~Top.quit
      /\ \/ NextMessage = "none" /\ stack' = loop /\ UNCHANGED <<posted, quitMessage, timer>>
         \/ NextMessage = "quit" /\ Helper(loop, "quit") /\ UNCHANGED <<posted, quitMessage, timer>>
         \/ \E m \in {"work", "input", "timer"} : Take(m) /\ Helper(loop, m)
      /\ UNCHANGED <<inputs, haveWork, delayedTime, poster, taskVars>>

LoopDoWork ==
  /\ IsAt("run", "work") /\ ~Top.quit
  /\ DoWork("delayed")
  /\ UNCHANGED <<posted, quitMessage, inputs, haveWork, poster>>

LoopDoDelayedWork ==
  /\ IsAt("run", "delayed") /\ ~Top.quit
  /\ DoDelayedWork("kill")
  /\ UNCHANGED <<messages, haveWork, poster>>

(* KillTimer comes before should_quit is looked at.                          *)
LoopKillTimer ==
  /\ IsAt("run", "kill")
  /\ timer' = IF Top.more /\ delayedTime = "null" THEN "off" ELSE timer
  /\ GoTo(IF Top.more /\ ~Top.quit THEN "peek" ELSE "idle")
  /\ UNCHANGED <<posted, quitMessage, inputs, haveWork, delayedTime, poster, taskVars>>

(* DoIdleWork has nothing to do here.                                        *)
LoopIdle ==
  /\ IsAt("run", "idle") /\ ~Top.quit
  /\ GoTo("wait")
  /\ UNCHANGED <<messages, haveWork, delayedTime, poster, taskVars>>

WaitForWork ==
  /\ IsAt("run", "wait")
  /\ NextMessage # "none" \/ delayedTime = "past"
  /\ GoTo("peek")
  /\ UNCHANGED <<messages, haveWork, delayedTime, poster, taskVars>>

RunReturns ==
  /\ Running /\ Top.what = "run" /\ Top.quit /\ Top.at # "kill"
  /\ Return(FALSE)
  /\ UNCHANGED <<messages, haveWork, delayedTime, poster, taskVars>>

-----------------------------------------------------------------------------
(* ProcessPumpReplacementMessage: with kMsgHaveWork out of the queue, the     *)
(* next message is taken, and only then the flag is reset.                   *)

PeekReplacement ==
  /\ IsAt("replace", "peek")
  /\ \/ NextMessage \in {"none", "work"} /\ UNCHANGED <<posted, quitMessage, timer>>
     \/ \E m \in {"input", "timer", "quit"} : Take(m)
  /\ stack' = [stack EXCEPT ![Len(stack)].at = "reset", ![Len(stack)].msg = NextMessage]
  /\ UNCHANGED <<inputs, haveWork, delayedTime, poster, taskVars>>

(* Mutant of ResetHaveWork: the flag stays set.                              *)
ResetForgotten ==
  /\ IsAt("replace", "reset")
  /\ IF Top.msg = "none" THEN Return(FALSE) ELSE GoTo("schedule")
  /\ UNCHANGED <<messages, haveWork, delayedTime, poster, taskVars>>

ResetHaveWork ==
  /\ IsAt("replace", "reset")
  /\ haveWork' = FALSE
  /\ IF Top.msg = "none" THEN Return(FALSE) ELSE GoTo("schedule")
  /\ UNCHANGED <<messages, delayedTime, poster, taskVars>>

RescheduleWork ==
  /\ IsAt("replace", "schedule")
  /\ ScheduleWork
  /\ GoTo("dispatch")
  /\ UNCHANGED <<quitMessage, timer, inputs, delayedTime, poster, taskVars>>

(* The frame becomes that of the message; a WM_QUIT is posted again.          *)
DispatchReplacement ==
  /\ IsAt("replace", "dispatch")
  /\ IF Top.msg = "quit"
     THEN stack' = Popped([stack EXCEPT ![State].quit = TRUE], FALSE) /\ quitMessage' = TRUE
     ELSE stack' = Append(Front(stack), Procedure(Top.msg)) /\ UNCHANGED quitMessage
  /\ UNCHANGED <<posted, timer, inputs, haveWork, delayedTime, poster, taskVars>>

-----------------------------------------------------------------------------
(* HandleWorkMessage and HandleTimerMessage.                                 *)

(* Mutant of HandleWork: outside of a Run nothing is done at all.            *)
HandleWorkKeepsFlag ==
  /\ IsAt("handle", "start")
  /\ IF State = 0 THEN Return(TRUE) ELSE Call("work", UIFrame("replace", "peek"))
  /\ UNCHANGED <<messages, haveWork, delayedTime, poster, taskVars>>

HandleWork ==
  /\ IsAt("handle", "start")
  /\ IF State = 0
     THEN haveWork' = FALSE /\ Return(TRUE)
     ELSE Call("work", UIFrame("replace", "peek")) /\ UNCHANGED haveWork
  /\ UNCHANGED <<messages, delayedTime, poster, taskVars>>

HandleWorkDoWork ==
  /\ IsAt("handle", "work") /\ ~Top.more
  /\ DoWork("done")
  /\ UNCHANGED <<posted, quitMessage, inputs, haveWork, poster>>

(* What the replacement returned is of no interest.                          *)
ForgetReplacement ==
  /\ IsAt("handle", "work") /\ Top.more
  /\ stack' = [stack EXCEPT ![Len(stack)].more = FALSE]
  /\ UNCHANGED <<messages, haveWork, delayedTime, poster, taskVars>>

HandleWorkEnds ==
  /\ IsAt("handle", "done")
  /\ IF Top.more THEN ScheduleWork ELSE UNCHANGED <<haveWork, posted>>
  /\ Return(TRUE)
  /\ UNCHANGED <<quitMessage, timer, inputs, delayedTime, poster, taskVars>>

HandleTimer ==
  /\ IsAt("timer", "start")
  /\ timer' = "off"
  /\ IF State = 0
     THEN Return(TRUE) /\ UNCHANGED <<delayedTime, due, nestable, incoming, workQueue, waiting, tasks>>
     ELSE DoDelayedWork("done")
  /\ UNCHANGED <<posted, quitMessage, inputs, haveWork, poster>>

HandleTimerEnds ==
  /\ IsAt("timer", "done")
  /\ timer' = IF delayedTime # "null" THEN "set" ELSE timer
  /\ Return(TRUE)
  /\ UNCHANGED <<posted, quitMessage, inputs, haveWork, delayedTime, poster, taskVars>>

-----------------------------------------------------------------------------
(* Code of the user, in a task or a window procedure, and native loops.      *)

InUserCode == Running /\ Top.what \in {"task", "input"}

UserReturns ==
  /\ InUserCode
  /\ Return(TRUE)
  /\ nestable' = (nestable \/ Top.what = "task")
  /\ UNCHANGED <<messages, haveWork, delayedTime, poster, incoming, workQueue, waiting, due, tasks>>

UserPosts(kind) ==
  /\ InUserCode /\ Post(kind)
  /\ IF incoming = << >> THEN ScheduleWork ELSE UNCHANGED <<haveWork, posted>>
  /\ UNCHANGED <<stack, quitMessage, timer, inputs, delayedTime, poster, workQueue, waiting, due, nestable>>

SetNestableTasksAllowed ==
  /\ InUserCode /\ ~nestable
  /\ nestable' = TRUE
  /\ ScheduleWork
  /\ UNCHANGED <<stack, quitMessage, timer, inputs, delayedTime, poster, incoming, workQueue, waiting, due, tasks>>

UserCalls(what, at) ==
  /\ InUserCode /\ Len(stack) < MaxStack
  /\ Call("on", UIFrame(what, at))
  /\ UNCHANGED <<messages, haveWork, delayedTime, poster, taskVars>>

UserQuits ==
  /\ InUserCode /\ State > 0 /\ ~stack[State].quit
  /\ stack' = [stack EXCEPT ![State].quit = TRUE]
  /\ UNCHANGED <<messages, haveWork, delayedTime, poster, taskVars>>

UserPostsQuit ==
  /\ InUserCode /\ ~quitMessage /\ quitMessage' = TRUE
  /\ UNCHANGED <<stack, posted, timer, inputs, haveWork, delayedTime, poster, taskVars>>

(* A message box before the pump runs.                                       *)
EarlyNativeLoop ==
  /\ ~Running /\ stack' = <<UIFrame("native", "on")>>
  /\ UNCHANGED <<messages, haveWork, delayedTime, poster, taskVars>>

(* GetMessage and DispatchMessage; the loop ends with WM_QUIT, which it        *)
(* leaves to the others.                                                     *)
NativeLoop ==
  /\ IsAt("native", "on")
  /\ \/ \E m \in {"work", "input", "timer"} : Take(m) /\ Call("on", Procedure(m))
     \/ NextMessage = "quit" /\ Return(FALSE) /\ UNCHANGED <<posted, quitMessage, timer>>
  /\ UNCHANGED <<inputs, haveWork, delayedTime, poster, taskVars>>

NativeLoopEnds ==
  /\ IsAt("native", "on")
  /\ Return(FALSE)
  /\ UNCHANGED <<messages, haveWork, delayedTime, poster, taskVars>>

-----------------------------------------------------------------------------
PumpStep ==
  \/ ProcessNextWindowsMessage \/ LoopDoWork \/ LoopDoDelayedWork \/ LoopKillTimer
  \/ LoopIdle \/ WaitForWork \/ RunReturns
  \/ PeekReplacement \/ ResetHaveWork \/ RescheduleWork \/ DispatchReplacement
  \/ HandleWork \/ HandleWorkDoWork \/ ForgetReplacement \/ HandleWorkEnds
  \/ HandleTimer \/ HandleTimerEnds

UserStep ==
  \/ SetNestableTasksAllowed \/ UserQuits \/ UserPostsQuit
  \/ \E kind \in {"now", "later"} : UserPosts(kind)
  \/ UserCalls("native", "on") \/ UserCalls("run", "peek")

PosterStep(t) == (SetHaveWork(t) /\ UNCHANGED <<messages, nestable>>) \/ PostWorkMessage(t)

UINext ==
  \/ UIRun \/ EarlyNativeLoop
  \/ PumpStep \/ UserStep \/ UserReturns \/ NativeLoop \/ NativeLoopEnds
  \/ \E t \in Posters : PosterStep(t)
  \/ InputArrives \/ TimerElapses
  \/ /\ TimePasses \/ \E t \in Posters, kind \in {"now", "later"} : PostTask(t, kind)
     /\ UNCHANGED <<messages, nestable>>

(* The pump's thread runs, the user's code returns, dialogs are closed, and   *)
(* time passes.                                                              *)
UIFairness ==
  /\ WF_uiVars(PumpStep \/ NativeLoop)
  /\ SF_uiVars(UserReturns) /\ SF_uiVars(NativeLoopEnds)
  /\ WF_uiVars(TimerElapses) /\ WF_uiVars(TimePasses /\ UNCHANGED <<messages, nestable>>)
  /\ \A t \in Posters : WF_uiVars(PosterStep(t))

UISpec == UIInit /\ [][UINext]_uiVars /\ UIFairness

-----------------------------------------------------------------------------
(* The messages kMsgHaveWork there are, with those about to be posted and     *)
(* those taken out whose flag is not reset yet.                              *)
WorkMessages ==
  Cardinality({k \in DOMAIN posted : posted[k] = "work"})
    + Cardinality({t \in Posters : poster[t] = "post"})
    + Cardinality({k \in DOMAIN stack :
        \/ stack[k].what = "handle" /\ stack[k].at = "start"
        \/ stack[k].what = "replace" /\ stack[k].at \in {"peek", "reset"}})

(* "There is at most one such message": have_work_ is set exactly when one is *)
(* in the queue, is about to be, or was taken out and is being replaced, in   *)
(* any nesting of loops and whichever thread posts meanwhile.  So the        *)
(* replacement is never another kMsgHaveWork and the flag is always set when *)
(* it is reset, as the pump asserts.                                         *)
OneWorkMessage == WorkMessages = IF haveWork THEN 1 ELSE 0

Runnable == nestable /\ (incoming # << >> \/ workQueue # << >>)
Notified == Contains(posted, "work") \/ \E t \in Posters : poster[t] # "idle"

(* When the pump waits, each task that could run has a message on its way,   *)
(* and when a delayed task is there the pump knows when to wake up.          *)
NoTaskLeftWaiting ==
  IsAt("run", "wait") =>
    /\ Runnable => Notified
    /\ nestable /\ waiting + due > 0 => delayedTime # "null"

(* Neither too many wake-ups nor too few.                                    *)
WakeupsSound == OneWorkMessage /\ NoTaskLeftWaiting

(* While there are tasks, delayed or not, that are allowed to run, one of     *)
(* them runs in the end, though the thread goes through dialogs, nested       *)
(* loops and the messages of others, or the loops that could run it have all *)
(* returned.                                                                 *)
TasksRun ==
  nestable /\ (incoming # << >> \/ workQueue # << >> \/ waiting + due > 0)
    ~> (~nestable \/ State = 0)
=============================================================================
