------------------------ MODULE DeferredTasksProofs ------------------------
(***************************************************************************)
(* What is postponed is not forgotten: proofs about DeferredTasks.         *)
(***************************************************************************)
EXTENDS DeferredTasks, TLAPS

-----------------------------------------------------------------------------
(* What a sequence holds when it grows or shrinks at its end.              *)
LEMMA AppendRange ==
  ASSUME NEW S, NEW s \in Seq(S), NEW x \in S
  PROVE  /\ Append(s, x) \in Seq(S)
         /\ RangeOf(Append(s, x)) = RangeOf(s) \cup {x}
<1>1. /\ Len(Append(s, x)) = Len(s) + 1 /\ Len(s) \in Nat
      /\ \A i \in 1 .. Len(s) : Append(s, x)[i] = s[i]
      /\ Append(s, x)[Len(s) + 1] = x
  OBVIOUS
<1>2. 1 .. Len(s) + 1 = (1 .. Len(s)) \cup {Len(s) + 1}  BY <1>1
<1>3. RangeOf(Append(s, x)) = RangeOf(s) \cup {x}  BY <1>1, <1>2, Zenon DEF RangeOf
<1> QED BY <1>3

(* ... and what its last entry leaves.                                     *)
LEMMA AllButLastRange ==
  ASSUME NEW S, NEW s \in Seq(S), s # <<>>
  PROVE  /\ Len(s) \in Nat /\ Len(s) \in 1 .. Len(s)
         /\ AllButLast(s) \in Seq(S)
         /\ Len(AllButLast(s)) = Len(s) - 1
         /\ \A i \in 1 .. Len(s) - 1 : AllButLast(s)[i] = s[i]
         /\ RangeOf(s) = RangeOf(AllButLast(s)) \cup {s[Len(s)]}
<1>1. Len(s) \in Nat /\ Len(s) \in 1 .. Len(s)  OBVIOUS
<1>2. /\ AllButLast(s) \in Seq(S) /\ Len(AllButLast(s)) = Len(s) - 1
      /\ \A i \in 1 .. Len(s) - 1 : AllButLast(s)[i] = s[i]
  <2>1. AllButLast(s) = [i \in 1 .. Len(s) - 1 |-> s[i]]
    BY <1>1 DEF AllButLast
  <2>2. Len(s) - 1 \in Nat /\ \A i \in 1 .. Len(s) - 1 : s[i] \in S  BY <1>1
  <2>3. AllButLast(s) \in Seq(S)  BY <2>1, <2>2
  <2>4. Len(AllButLast(s)) = Len(s) - 1  BY <2>1, <2>2
  <2> QED BY <2>1, <2>3, <2>4
<1>3. 1 .. Len(s) = (1 .. Len(s) - 1) \cup {Len(s)}  BY <1>1
<1>4. RangeOf(s) = RangeOf(AllButLast(s)) \cup {s[Len(s)]}
  BY <1>2, <1>3, Zenon DEF RangeOf
<1> QED BY <1>1, <1>2, <1>4

-----------------------------------------------------------------------------
(* Every variable keeps its shape.  The mutex is never released more often *)
(* than it was taken, which needs what depth counts.                       *)
Held ==
  /\ depth >= Len(frames)
  /\ step = "loop" => depth >= Len(frames) + 1
  /\ step = "post" => signal = SigHup

ShapeInv == TypeOK /\ Held

(* The shape invariant holds at first ...                                  *)
LEMMA ShapeInit == Init => ShapeInv
<1> SUFFICES ASSUME Init PROVE ShapeInv  OBVIOUS
<1>1. Len(frames) = 0 /\ depth = 0 /\ step = "run"  BY DEF Init
<1>2. Held  BY <1>1 DEF Held
<1>3. tToDos \in Seq(Task) /\ frames \in Seq(Frame) /\ pending \in Seq(Job)
  BY DEF Init
<1>4. thread \in [Job -> {"idle", "works", "posts"}]  BY DEF Init
<1>5. TypeOK  BY <1>3, <1>4 DEF Init, TypeOK
<1> QED BY <1>2, <1>5 DEF ShapeInv

(* ... and every step keeps it.                                            *)
LEMMA ShapeStep == ShapeInv /\ [Next]_vars => ShapeInv'
<1> SUFFICES ASSUME ShapeInv, [Next]_vars PROVE ShapeInv'  OBVIOUS
<1> USE DEF ShapeInv
<1>0. /\ tToDos \in Seq(Task) /\ signal \in {SigHup, None} /\ current \in Task \cup {None}
      /\ depth \in Nat /\ frames \in Seq(Frame)
      /\ thread \in [Job -> {"idle", "works", "posts"}]
      /\ pending \in Seq(Job) /\ requests \in Nat /\ Len(frames) \in Nat
  BY DEF TypeOK
<1>1. CASE \E t \in Plain : Post(t)
  <2>1. PICK t \in Plain : Post(t)  BY <1>1
  <2>2. tToDos' \in Seq(Task)  BY <1>0, <2>1, AppendRange DEF Post, Task
  <2> QED BY <2>1, <2>2 DEF Post, Request, TypeOK, Held
<1>2. CASE \E t \in Once : PostOnce(t)
  <2>1. PICK t \in Once : PostOnce(t)  BY <1>2
  <2>2. tToDos' \in Seq(Task)
    <3>1. t \in Task  BY DEF Task
    <3>2. Append(tToDos, t) \in Seq(Task)  BY <1>0, <3>1, AppendRange
    <3> QED BY <1>0, <2>1, <3>2 DEF PostOnce
  <2>3. depth' \in Nat /\ depth' >= depth  BY <1>0, <2>1 DEF PostOnce
  <2> QED BY <1>0, <2>1, <2>2, <2>3 DEF PostOnce, Request, TypeOK, Held
<1>3. CASE SignalArrives
  BY <1>3 DEF SignalArrives, Request, TypeOK, Held
<1>4. CASE \E j \in Job : ScheduleForeground(j)
  <2>1. PICK j \in Job : ScheduleForeground(j)  BY <1>4
  <2>2. tToDos' \in Seq(Task) /\ pending' \in Seq(Job)
    BY <1>0, <2>1, AppendRange DEF ScheduleForeground, Task
  <2> QED BY <2>1, <2>2 DEF ScheduleForeground, Request, TypeOK, Held
<1>5. CASE \E j \in Job : ScheduleBackground(j)
  BY <1>5 DEF ScheduleBackground, Request, TypeOK, Held
<1>6. CASE \E j \in Job : AddPending(j)
  <2>1. PICK j \in Job : AddPending(j)  BY <1>6
  <2>2. pending' \in Seq(Job)  BY <1>0, <2>1, AppendRange DEF AddPending
  <2> QED BY <2>1, <2>2 DEF AddPending, TypeOK, Held
<1>7. CASE \E j \in Job : PostFinishAll(j)
  <2>1. PICK j \in Job : PostFinishAll(j)  BY <1>7
  <2>2. tToDos' \in Seq(Task)  BY <1>0, <2>1, AppendRange DEF PostFinishAll, Task
  <2> QED BY <2>1, <2>2 DEF PostFinishAll, TypeOK, Held
<1>8. CASE Enter
  BY <1>0, <1>8 DEF Enter, Request, TypeOK, Held
<1>9. CASE PostSignal
  <2>1. tToDos' \in Seq(Task)
    BY <1>0, <1>9, AppendRange DEF PostSignal, Held, Task
  <2> QED BY <1>0, <1>9, <2>1 DEF PostSignal, TypeOK, Held
<1>10. CASE ClearSignal
  BY <1>10 DEF ClearSignal, TypeOK, Held
<1>11. CASE Lock
  BY <1>0, <1>11 DEF Lock, TypeOK, Held
<1>12. CASE Call
  <2>1. /\ AllButLast(tToDos) \in Seq(Task) /\ tToDos[Len(tToDos)] \in Task
    BY <1>0, <1>12, AllButLastRange DEF Call
  <2>2. frames' \in Seq(Frame) /\ Len(frames') = Len(frames) + 1
    <3> DEFINE f == [task |-> tToDos[Len(tToDos)], last |-> current]
    <3>1. f \in Frame  BY <1>0, <2>1 DEF Frame
    <3>2. frames' = Append(frames, f)  BY <1>12 DEF Call
    <3> HIDE DEF f
    <3> QED BY <1>0, <3>1, <3>2
  <2> QED BY <1>0, <1>12, <2>1, <2>2 DEF Call, TypeOK, Held
<1>13. CASE Leave
  BY <1>0, <1>13 DEF Leave, TypeOK, Held
<1>14. CASE RunJob
  <2>1. pending' \in Seq(Job)  BY <1>0, <1>14 DEF RunJob
  <2> QED BY <1>14, <2>1 DEF RunJob, TypeOK, Held
<1>15. CASE Return
  <2>1. frames # <<>> /\ step = "run"  BY <1>15 DEF Return, Running
  <2>2. /\ AllButLast(frames) \in Seq(Frame)
        /\ Len(AllButLast(frames)) = Len(frames) - 1
        /\ Len(frames) \in 1 .. Len(frames)
    BY <1>0, <2>1, AllButLastRange
  <2>3. current' \in Task \cup {None}
    <3>1. frames[Len(frames)] \in Frame  BY <1>0, <2>2
    <3>2. frames[Len(frames)].last \in Task \cup {None}  BY <3>1 DEF Frame
    <3> QED BY <1>15, <3>2 DEF Return
  <2>4. Held'  BY <1>0, <1>15, <2>1, <2>2 DEF Return, Held
  <2>5. frames' \in Seq(Frame)  BY <1>15, <2>2 DEF Return
  <2>6. TypeOK'
    <3> DEFINE c == current'
    <3>1. /\ current' = c /\ step' = "loop"
          /\ UNCHANGED <<tToDos, signal, depth, thread, pending, hangup, requests>>
      BY <1>15 DEF Return
    <3>2. c \in Task \cup {None}  BY <2>3
    <3> HIDE DEF c
    <3> QED BY <2>5, <3>1, <3>2 DEF TypeOK
  <2> QED BY <2>4, <2>6
<1>16. CASE Throw
  <2>1. frames' = <<>> /\ Len(frames') = 0 /\ step' = "run"
    BY <1>16 DEF Throw, Running
  <2> QED BY <1>0, <1>16, <2>1 DEF Throw, TypeOK, Held
<1>17. CASE UNCHANGED vars
  BY <1>17 DEF vars, TypeOK, Held
<1> QED
  BY <1>1, <1>2, <1>3, <1>4, <1>5, <1>6, <1>7, <1>8, <1>9, <1>10, <1>11, <1>12, <1>13,
     <1>14, <1>15, <1>16, <1>17 DEF Next, DoToDo

(* TypeOK, for any jobs, tasks and number of requests.                     *)
THEOREM TypeCorrect == Spec => []TypeOK
<1>1. Spec => []ShapeInv  BY ShapeInit, ShapeStep, PTL DEF Spec
<1>2. ShapeInv => TypeOK  BY DEF ShapeInv
<1> QED BY <1>1, <1>2, PTL

(* The shape invariant for the theorems below.                             *)
LEMMA ShapeCorrect == Spec => []ShapeInv
BY ShapeInit, ShapeStep, PTL DEF Spec

-----------------------------------------------------------------------------
(* A signal is answered.  Between the two steps in which st_DoToDo takes   *)
(* the mark its task is on the list, so that a signal that the handler     *)
(* ignores there is answered too.                                          *)
SignalInv ==
  /\ SignalAwaited
  /\ step = "clear" => SigHup \in RangeOf(tToDos)

(* Every step keeps it.                                                    *)
LEMMA SignalStep == ShapeInv /\ SignalInv /\ [Next]_vars => SignalInv'
<1> SUFFICES ASSUME ShapeInv, SignalInv, [Next]_vars PROVE SignalInv'  OBVIOUS
<1>0. /\ tToDos \in Seq(Task) /\ signal \in {SigHup, None} /\ SigHup \in Task
      /\ FinishAll \in Task /\ None \notin Task
  BY TaskAssumption DEF ShapeInv, TypeOK, Task
<1>1. ASSUME NEW t \in Task, tToDos' = Append(tToDos, t), UNCHANGED <<signal, step, hangup>>
      PROVE  SignalInv'
  <2>1. RangeOf(tToDos') = RangeOf(tToDos) \cup {t}  BY <1>0, <1>1, AppendRange
  <2> QED BY <1>1, <2>1 DEF SignalInv, SignalAwaited
<1>2. ASSUME UNCHANGED <<tToDos, signal, hangup>>, step' # "clear"
      PROVE  SignalInv'
  BY <1>2 DEF SignalInv, SignalAwaited
<1>3. ASSUME UNCHANGED <<tToDos, signal, step, hangup>>
      PROVE  SignalInv'
  BY <1>3 DEF SignalInv, SignalAwaited
<1>4. CASE \E t \in Plain : Post(t)
  BY <1>1, <1>4 DEF Post, Task
<1>5. CASE \E t \in Once : PostOnce(t)
  BY <1>1, <1>3, <1>5 DEF PostOnce, Task
<1>6. CASE SignalArrives
  <2>1. signal' = SigHup /\ UNCHANGED <<tToDos, step>>  BY <1>0, <1>6 DEF SignalArrives
  <2> QED BY <2>1 DEF SignalInv, SignalAwaited
<1>7. CASE \E j \in Job : ScheduleForeground(j)
  BY <1>0, <1>1, <1>7 DEF ScheduleForeground
<1>8. CASE \E j \in Job : ScheduleBackground(j) \/ AddPending(j)
  BY <1>3, <1>8 DEF ScheduleBackground, AddPending
<1>9. CASE \E j \in Job : PostFinishAll(j)
  BY <1>0, <1>1, <1>9 DEF PostFinishAll
<1>10. CASE Enter
  BY <1>2, <1>10 DEF Enter
<1>11. CASE PostSignal
  <2>1. signal = SigHup  BY <1>11 DEF ShapeInv, Held, PostSignal
  <2>2. RangeOf(tToDos') = RangeOf(tToDos) \cup {SigHup}
    BY <1>0, <1>11, <2>1, AppendRange DEF PostSignal
  <2> QED BY <1>11, <2>1, <2>2 DEF PostSignal, SignalInv, SignalAwaited
<1>12. CASE ClearSignal
  BY <1>12 DEF ClearSignal, SignalInv, SignalAwaited
<1>13. CASE Lock \/ Leave
  BY <1>2, <1>13 DEF Lock, Leave
<1>14. CASE Call
  <2> DEFINE td == tToDos[Len(tToDos)]
  <2>1. RangeOf(tToDos) = RangeOf(tToDos') \cup {td}
    BY <1>0, <1>14, AllButLastRange DEF Call
  <2>2. step' = "run" /\ signal' = signal /\ hangup' = (hangup /\ td # SigHup)
    BY <1>14 DEF Call
  <2> HIDE DEF td
  <2> QED BY <2>1, <2>2 DEF SignalInv, SignalAwaited
<1>15. CASE RunJob \/ Throw
  BY <1>3, <1>15 DEF RunJob, Throw
<1>16. CASE Return
  BY <1>2, <1>16 DEF Return
<1>17. CASE UNCHANGED vars
  BY <1>3, <1>17 DEF vars
<1> QED
  BY <1>4, <1>5, <1>6, <1>7, <1>8, <1>9, <1>10, <1>11, <1>12, <1>13, <1>14, <1>15,
     <1>16, <1>17 DEF Next, DoToDo

(* SignalAwaited, for any tasks, jobs and exceptions.                      *)
THEOREM SignalAnswered == Spec => []SignalAwaited
<1>1. Init => SignalInv  BY DEF Init, SignalInv, SignalAwaited
<1>2. SignalInv => SignalAwaited  BY DEF SignalInv
<1> QED BY <1>1, <1>2, ShapeCorrect, SignalStep, PTL DEF Spec

-----------------------------------------------------------------------------
(* No step but an exception makes the work forget a job in Pending.        *)
LEMMA JobsStep ==
  ASSUME ~Throw, ShapeInv, JobsAwaited, [Next]_vars
  PROVE  JobsAwaited'
<1>0. /\ tToDos \in Seq(Task) /\ frames \in Seq(Frame) /\ pending \in Seq(Job)
      /\ thread \in [Job -> {"idle", "works", "posts"}]
      /\ FinishAll \in Task /\ signal \in {SigHup, None} /\ Len(frames) \in Nat
  BY DEF ShapeInv, TypeOK, Task
<1>1. ASSUME NEW t \in Task, tToDos' = Append(tToDos, t), UNCHANGED <<pending, frames, thread>>
      PROVE  JobsAwaited'
  <2>1. RangeOf(tToDos') = RangeOf(tToDos) \cup {t}  BY <1>0, <1>1, AppendRange
  <2> QED BY <1>1, <2>1 DEF JobsAwaited
<1>2. ASSUME tToDos' = Append(tToDos, FinishAll)
      PROVE  JobsAwaited'
  <2>1. RangeOf(tToDos') = RangeOf(tToDos) \cup {FinishAll}  BY <1>0, <1>2, AppendRange
  <2> QED BY <2>1 DEF JobsAwaited
<1>3. ASSUME UNCHANGED <<tToDos, pending, frames, thread>>
      PROVE  JobsAwaited'
  BY <1>3 DEF JobsAwaited
<1>4. CASE \E t \in Plain : Post(t)
  BY <1>1, <1>4 DEF Post, Task
<1>5. CASE \E t \in Once : PostOnce(t)
  BY <1>1, <1>3, <1>5 DEF PostOnce, Task
<1>6. CASE SignalArrives
  BY <1>3, <1>6 DEF SignalArrives
<1>7. CASE \E j \in Job : ScheduleForeground(j)
  BY <1>2, <1>7 DEF ScheduleForeground
<1>8. CASE \E j \in Job : ScheduleBackground(j)
  <2>1. PICK j \in Job : ScheduleBackground(j)  BY <1>8
  <2>2. \A k \in Job : thread[k] = "posts" => thread'[k] = "posts"
    BY <1>0, <2>1 DEF ScheduleBackground
  <2>3. UNCHANGED <<tToDos, pending, frames>>  BY <2>1 DEF ScheduleBackground
  <2> QED BY <2>2, <2>3 DEF JobsAwaited
<1>9. CASE \E j \in Job : AddPending(j)
  <2>1. PICK j \in Job : AddPending(j)  BY <1>9
  <2>2. thread'[j] = "posts"  BY <1>0, <2>1 DEF AddPending
  <2> QED BY <2>2 DEF JobsAwaited
<1>10. CASE \E j \in Job : PostFinishAll(j)
  BY <1>2, <1>10 DEF PostFinishAll
<1>11. CASE Enter \/ ClearSignal \/ Lock \/ Leave
  BY <1>3, <1>11 DEF Enter, ClearSignal, Lock, Leave
<1>12. CASE PostSignal
  <2>1. signal \in Task  BY <1>0, <1>12 DEF ShapeInv, Held, PostSignal, Task
  <2> QED BY <1>1, <1>12, <2>1 DEF PostSignal
<1>13. CASE Call
  <2> DEFINE td == tToDos[Len(tToDos)]
             f == [task |-> td, last |-> current]
  <2>1. RangeOf(tToDos) = RangeOf(tToDos') \cup {td}
    BY <1>0, <1>13, AllButLastRange DEF Call
  <2>2. /\ Len(frames') = Len(frames) + 1
        /\ \A i \in 1 .. Len(frames) : frames'[i] = frames[i]
        /\ frames'[Len(frames) + 1] = f
    BY <1>0, <1>13 DEF Call
  <2>3. f.task = td  OBVIOUS
  <2>4. UNCHANGED <<pending, thread>>  BY <1>13 DEF Call
  <2> HIDE DEF td, f
  <2>5. CASE td = FinishAll
    <3>1. Len(frames) + 1 \in 1 .. Len(frames')  BY <1>0, <2>2
    <3> QED BY <2>2, <2>3, <2>5, <3>1 DEF JobsAwaited
  <2>6. CASE td # FinishAll
    <3>1. \A i \in 1 .. Len(frames) : i \in 1 .. Len(frames')  BY <1>0, <2>2
    <3> QED BY <2>1, <2>2, <2>4, <2>6, <3>1 DEF JobsAwaited
  <2> QED BY <2>5, <2>6
<1>14. CASE RunJob
  <2>1. frames # <<>> /\ frames[Len(frames)].task = FinishAll /\ frames' = frames
    BY <1>14 DEF RunJob, Running
  <2>2. Len(frames) \in 1 .. Len(frames)  BY <1>0, <2>1
  <2> QED BY <2>1, <2>2 DEF JobsAwaited
<1>15. CASE Return
  <2>1. PICK t \in Task : Running(t) /\ MayReturn(t)  BY <1>15 DEF Return
  <2>2. /\ frames # <<>> /\ frames[Len(frames)].task = t
        /\ UNCHANGED <<tToDos, pending, thread>> /\ frames' = AllButLast(frames)
    BY <1>15, <2>1 DEF Return, Running
  <2>3. /\ Len(frames') = Len(frames) - 1
        /\ \A i \in 1 .. Len(frames) - 1 : frames'[i] = frames[i]
    BY <1>0, <2>2, AllButLastRange
  <2>4. CASE t = FinishAll
    BY <2>1, <2>2, <2>4 DEF MayReturn, JobsAwaited
  <2>5. CASE t # FinishAll
    <3>1. \A i \in 1 .. Len(frames) : i # Len(frames) => i \in 1 .. Len(frames')
      BY <1>0, <2>3
    <3>2. \A i \in 1 .. Len(frames) : i # Len(frames) => frames'[i] = frames[i]
      BY <1>0, <2>3
    <3> QED BY <2>2, <2>5, <3>1, <3>2 DEF JobsAwaited
  <2> QED BY <2>4, <2>5
<1>16. CASE Throw
  BY <1>16
<1>17. CASE UNCHANGED vars
  BY <1>3, <1>17 DEF vars
<1> QED
  BY <1>4, <1>5, <1>6, <1>7, <1>8, <1>9, <1>10, <1>11, <1>12, <1>13, <1>14, <1>15,
     <1>16, <1>17 DEF Next, DoToDo

(* What st_ToDoOnce or an exception has kept is never given back.          *)
LEMMA KeptStays ==
  ASSUME ShapeInv, Kept, [Next]_vars
  PROVE  Kept'
<1>0. frames \in Seq(Frame) /\ Len(frames) \in Nat /\ depth \in Nat
  BY DEF ShapeInv, TypeOK
<1>1. CASE \E t \in Plain : Post(t)
  BY <1>1 DEF Post, Kept
<1>2. CASE \E t \in Once : PostOnce(t)
  BY <1>0, <1>2 DEF PostOnce, Kept
<1>3. CASE SignalArrives
  BY <1>3 DEF SignalArrives, Kept
<1>4. CASE \E j \in Job : ScheduleForeground(j) \/ ScheduleBackground(j) \/ AddPending(j)
                          \/ PostFinishAll(j)
  BY <1>4 DEF ScheduleForeground, ScheduleBackground, AddPending, PostFinishAll, Kept
<1>5. CASE Enter \/ PostSignal \/ ClearSignal \/ RunJob
  BY <1>5 DEF Enter, PostSignal, ClearSignal, RunJob, Running, Kept
<1>6. CASE Lock
  BY <1>0, <1>6 DEF Lock, Kept
<1>7. CASE Call
  <2>1. Len(frames') = Len(frames) + 1  BY <1>0, <1>7 DEF Call
  <2> QED BY <1>0, <1>7, <2>1 DEF Call, Kept
<1>8. CASE Leave
  BY <1>0, <1>8 DEF Leave, Kept
<1>9. CASE Return
  <2>1. frames # <<>> /\ step = "run"  BY <1>9 DEF Return, Running
  <2>2. Len(frames') = Len(frames) - 1
    BY <1>0, <1>9, <2>1, AllButLastRange DEF Return
  <2> QED BY <1>0, <1>9, <2>1, <2>2 DEF Return, Kept
<1>10. CASE Throw
  <2>1. Len(frames') = 0 /\ step = "run" /\ UNCHANGED <<depth, step>>
    BY <1>10 DEF Throw, Running
  <2> QED BY <1>0, <2>1 DEF Kept
<1>11. CASE UNCHANGED vars
  BY <1>11 DEF vars, Kept
<1> QED
  BY <1>1, <1>2, <1>3, <1>4, <1>5, <1>6, <1>7, <1>8, <1>9, <1>10, <1>11 DEF Next, DoToDo

LEMMA ThrowKeeps ==
  ASSUME ShapeInv, Throw
  PROVE  Kept'
<1>1. frames \in Seq(Frame) /\ Len(frames) \in Nat /\ depth \in Nat
  BY DEF ShapeInv, TypeOK
<1>2. frames # <<>> /\ step = "run" /\ Len(frames') = 0 /\ UNCHANGED <<depth, step>>
  BY DEF Throw, Running
<1>3. depth >= Len(frames) /\ Len(frames) > 0  BY <1>1, <1>2 DEF ShapeInv, Held
<1> QED BY <1>1, <1>2, <1>3 DEF Kept

(* No job is forgotten, for any number of jobs and nested calls, before    *)
(* an exception or st_ToDoOnce has kept the mutex.                         *)
THEOREM NoJobForgotten == Spec => []JobsAwaitedUnlessKept
<1>1. Init => JobsAwaitedUnlessKept  BY DEF Init, JobsAwaited, JobsAwaitedUnlessKept
<1>2. ShapeInv /\ JobsAwaitedUnlessKept /\ [Next]_vars => JobsAwaitedUnlessKept'
  BY JobsStep, KeptStays, ThrowKeeps DEF JobsAwaitedUnlessKept
<1> QED BY <1>1, <1>2, ShapeCorrect, PTL DEF Spec
=============================================================================
