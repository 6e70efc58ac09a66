--------------------------- MODULE DeferredTasks ---------------------------
(***************************************************************************)
(* Things to do later, src/src/tools/tToDo.cpp, and the background threads *)
(* of src/src/network/nAuthentication.cpp that postpone work to the main   *)
(* thread with it.                                                         *)
(*                                                                         *)
(* The main thread runs the tasks of the list tToDos, last one first, when *)
(* it calls st_DoToDo: between frames, between rounds, in menus, and so    *)
(* from within a task too.  A recursive mutex guards the list and is held  *)
(* while the tasks run.  A job (a login process) is worked on in a thread  *)
(* of its own; it then enters the queue Pending and postpones the task     *)
(* FinishAll that empties this queue in the main thread.  A signal handler *)
(* can only leave a mark for the next call of st_DoToDo.                   *)
(***************************************************************************)
EXTENDS Integers, Sequences

CONSTANTS
  Job,        \* login processes
  Plain,      \* tasks the main thread postpones with st_ToDo
  Once,       \* tasks the main thread postpones with st_ToDoOnce
  Throwing,   \* tasks that may end with an exception
  FinishAll,  \* the task that runs the jobs in Pending
  SigHup,     \* the task of the signal handler, st_DoHandleSigHup
  None,       \* no task: a null pointer
  Budget      \* bound: requests to the main thread, nested calls included

Task == Plain \cup Once \cup {FinishAll, SigHup}
Frame == [task : Task, last : Task \cup {None}]

ASSUME TaskAssumption ==
  /\ FinishAll # SigHup /\ FinishAll \notin Plain \cup Once
  /\ SigHup \notin Plain \cup Once
  /\ None \notin Task
  /\ Throwing \subseteq Task
ASSUME BudgetAssumption == Budget \in Nat

VARIABLES
  tToDos,   \* the postponed tasks
  signal,   \* st_toDoFromSignal
  current,  \* st_toDoCurrent, the task that runs
  depth,    \* how often the main thread holds st_mutex
  frames,   \* the tasks in execution, outermost first, each with the
            \* st_toDoCurrent that it replaced
  step,     \* where the main thread is in its innermost st_DoToDo; "run" when
            \* it is in its own code or in that of a task
  thread,   \* thread[j]: the thread of job j
  pending,  \* Pending(): jobs to go on with in the main thread
  hangup,   \* history: a signal came since the task SigHup last began
  requests  \* counts what Budget bounds

vars == <<tToDos, signal, current, depth, frames, step, thread, pending, hangup, requests>>

RangeOf(s) == {s[i] : i \in 1 .. Len(s)}
AllButLast(s) == SubSeq(s, 1, Len(s) - 1)

Init ==
  /\ tToDos = <<>> /\ frames = <<>> /\ pending = <<>>
  /\ signal = None /\ current = None
  /\ depth = 0
  /\ step = "run"
  /\ thread = [j \in Job |-> "idle"]
  /\ hangup = FALSE
  /\ requests = 0

Request == requests < Budget /\ requests' = requests + 1

-----------------------------------------------------------------------------
(* Who postpones tasks.                                                    *)

(* st_ToDo in the main thread.                                             *)
Post(t) ==
  /\ step = "run" /\ Request
  /\ tToDos' = Append(tToDos, t)
  /\ UNCHANGED <<signal, current, depth, frames, step, thread, pending, hangup>>

(* st_ToDoOnce returns without releasing the mutex when it finds the task. *)
PostOnce(t) ==
  /\ step = "run" /\ Request
  /\ IF current = t \/ t \in RangeOf(tToDos)
     THEN depth' = depth + 1 /\ UNCHANGED tToDos
     ELSE tToDos' = Append(tToDos, t) /\ UNCHANGED depth
  /\ UNCHANGED <<signal, current, frames, step, thread, pending, hangup>>

(* st_ToDo_Signal, called from a signal handler at any moment.             *)
SignalArrives ==
  /\ Request
  /\ signal' = IF signal = None THEN SigHup ELSE signal
  /\ hangup' = TRUE
  /\ UNCHANGED <<tToDos, current, depth, frames, step, thread, pending>>

(* ScheduleForeground in the main thread.                                  *)
ScheduleForeground(j) ==
  /\ step = "run" /\ Request
  /\ thread[j] = "idle" /\ j \notin RangeOf(pending)
  /\ pending' = Append(pending, j)
  /\ tToDos' = Append(tToDos, FinishAll)
  /\ UNCHANGED <<signal, current, depth, frames, step, thread, hangup>>

(* ScheduleBackground starts a thread for the job ...                      *)
ScheduleBackground(j) ==
  /\ step = "run" /\ Request
  /\ thread[j] = "idle" /\ j \notin RangeOf(pending)
  /\ thread' = [thread EXCEPT ![j] = "works"]
  /\ UNCHANGED <<tToDos, signal, current, depth, frames, step, pending, hangup>>

(* ... which calls ScheduleForeground at its end: Pending has a mutex of   *)
(* its own, and st_ToDo waits until the main thread is in no st_DoToDo.    *)
AddPending(j) ==
  /\ thread[j] = "works"
  /\ pending' = Append(pending, j)
  /\ thread' = [thread EXCEPT ![j] = "posts"]
  /\ UNCHANGED <<tToDos, signal, current, depth, frames, step, hangup, requests>>

PostFinishAll(j) ==
  /\ thread[j] = "posts" /\ depth = 0
  /\ tToDos' = Append(tToDos, FinishAll)
  /\ thread' = [thread EXCEPT ![j] = "idle"]
  /\ UNCHANGED <<signal, current, depth, frames, step, pending, hangup, requests>>

-----------------------------------------------------------------------------
(* st_DoToDo.                                                              *)

(* It is called by the main loop, or within a task.                        *)
Enter ==
  /\ step = "run"
  /\ IF frames = <<>> THEN UNCHANGED requests ELSE Request
  /\ step' = IF signal = None THEN "lock" ELSE "post"
  /\ UNCHANGED <<tToDos, signal, current, depth, frames, thread, pending, hangup>>

PostSignalOnce ==
  /\ step = "post"
  /\ tToDos' = IF current = signal THEN tToDos ELSE Append(tToDos, signal)
  /\ step' = "clear"
  /\ UNCHANGED <<signal, current, depth, frames, thread, pending, hangup, requests>>

PostSignal ==
  /\ step = "post"
  /\ tToDos' = Append(tToDos, signal)
  /\ step' = "clear"
  /\ UNCHANGED <<signal, current, depth, frames, thread, pending, hangup, requests>>

ClearSignal ==
  /\ step = "clear"
  /\ signal' = None
  /\ step' = "lock"
  /\ UNCHANGED <<tToDos, current, depth, frames, thread, pending, hangup, requests>>

Lock ==
  /\ step = "lock"
  /\ depth' = depth + 1
  /\ step' = "loop"
  /\ UNCHANGED <<tToDos, signal, current, frames, thread, pending, hangup, requests>>

(* The loop takes the last task off the list and calls it.                 *)
Call ==
  LET td == tToDos[Len(tToDos)] IN
  /\ step = "loop" /\ tToDos # <<>>
  /\ tToDos' = AllButLast(tToDos)
  /\ frames' = Append(frames, [task |-> td, last |-> current])
  /\ current' = td
  /\ step' = "run"
  /\ hangup' = (hangup /\ td # SigHup)
  /\ UNCHANGED <<signal, depth, thread, pending, requests>>

Leave ==
  /\ step = "loop" /\ tToDos = <<>>
  /\ depth' = depth - 1
  /\ step' = "run"
  /\ UNCHANGED <<tToDos, signal, current, frames, thread, pending, hangup, requests>>

(* FinishAll goes on with the first job.  What the job does in the main    *)
(* thread are the requests above.                                          *)
Running(t) == step = "run" /\ frames # <<>> /\ frames[Len(frames)].task = t

RunJob ==
  /\ Running(FinishAll) /\ pending # <<>>
  /\ pending' = Tail(pending)
  /\ UNCHANGED <<tToDos, signal, current, depth, frames, step, thread, hangup, requests>>

(* A task ends; FinishAll when it finds its queue empty.                   *)
MayReturnAlways(t) == TRUE
MayReturn(t) == t = FinishAll => pending = <<>>

ReturnReleases ==
  /\ \E t \in Task : Running(t) /\ MayReturn(t)
  /\ current' = frames[Len(frames)].last
  /\ frames' = AllButLast(frames)
  /\ step' = "loop"
  /\ depth' = depth - 1
  /\ UNCHANGED <<tToDos, signal, thread, pending, hangup, requests>>

Return ==
  /\ \E t \in Task : Running(t) /\ MayReturn(t)
  /\ current' = frames[Len(frames)].last
  /\ frames' = AllButLast(frames)
  /\ step' = "loop"
  /\ UNCHANGED <<tToDos, signal, depth, thread, pending, hangup, requests>>

(* An exception leaves every st_DoToDo without releasing the mutex.        *)
Throw ==
  /\ \E t \in Throwing : Running(t)
  /\ frames' = <<>>
  /\ UNCHANGED <<tToDos, signal, current, depth, step, thread, pending, hangup, requests>>

-----------------------------------------------------------------------------
DoToDo == PostSignal \/ ClearSignal \/ Lock \/ Call \/ Leave \/ RunJob \/ Return

Next ==
  \/ \E t \in Plain : Post(t)
  \/ \E t \in Once : PostOnce(t)
  \/ SignalArrives
  \/ \E j \in Job :
       ScheduleForeground(j) \/ ScheduleBackground(j) \/ AddPending(j) \/ PostFinishAll(j)
  \/ Enter
  \/ DoToDo
  \/ Throw

(* The main loop calls st_DoToDo for ever and every task comes to an end;  *)
(* a background thread gets on, and gets the mutex if it is free again and *)
(* again.                                                                  *)
Fairness ==
  /\ WF_vars(Enter)
  /\ WF_vars(DoToDo)
  /\ \A j \in Job : WF_vars(AddPending(j)) /\ SF_vars(PostFinishAll(j))

Spec == Init /\ [][Next]_vars /\ Fairness

-----------------------------------------------------------------------------
(* Properties.                                                             *)

TypeOK ==
  /\ tToDos \in Seq(Task)
  /\ signal \in {SigHup, None}
  /\ current \in Task \cup {None}
  /\ depth \in Nat
  /\ frames \in Seq(Frame)
  /\ step \in {"run", "post", "clear", "lock", "loop"}
  /\ thread \in [Job -> {"idle", "works", "posts"}]
  /\ pending \in Seq(Job)
  /\ hangup \in BOOLEAN
  /\ requests \in Nat

(* A job in Pending is not forgotten, though the queue and the list of     *)
(* tasks have different locks: FinishAll is on the list, or runs, or the   *)
(* thread of the job that came last is about to postpone it.               *)
JobsAwaited ==
  pending # <<>> =>
    \/ FinishAll \in RangeOf(tToDos)
    \/ \E i \in 1 .. Len(frames) : frames[i].task = FinishAll
    \/ \E j \in Job : thread[j] = "posts"

(* So it is with tasks that throw too, unless one has left the mutex       *)
(* locked on its way out of the calls of st_DoToDo it was in.              *)
Kept == depth > Len(frames) + (IF step = "loop" THEN 1 ELSE 0)
JobsAwaitedUnlessKept == Kept \/ JobsAwaited

(* A signal is answered by a run of its task that begins after it, though  *)
(* the handler ignores a signal while another is marked and st_DoToDo      *)
(* reads the mark and clears it in two steps.                              *)
SignalAwaited == hangup => signal = SigHup \/ SigHup \in RangeOf(tToDos)

(* "schedule a task for execution in the next tToDo call": the work of a   *)
(* background thread is gone on with in the main thread.                   *)
EveryJobRuns == \A j \in Job :
  thread[j] = "works" ~> (thread[j] = "idle" /\ j \notin RangeOf(pending))

(* So it is as long as every call of st_DoToDo and st_ToDoOnce gives the   *)
(* mutex back, however tasks nest, post each other and get signals.        *)
Released == step = "run" /\ frames = <<>> => depth = 0
EveryJobRunsIfReleased == []Released => EveryJobRuns
=============================================================================
