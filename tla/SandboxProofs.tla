--------------------------- MODULE SandboxProofs ----------------------------
(***************************************************************************)
(* Proofs about Sandbox: for any number of concurrent calls, and whatever  *)
(* requests and faults Env allows, the executor keeps the promise on which *)
(* execute_task relies.                                                    *)
(***************************************************************************)
EXTENDS Sandbox, TLAPS

(* What is true of c if its call ends with a: a says nothing about the     *)
(* program, or the program has ended the way a tells.                      *)
Truthful(c, a) ==
    \/ a \in P!Broken
    \/ /\ program[c] \in P!Ended
       /\ \/ a = "success" /\ program[c] = "zero"
          \/ a = "oom" /\ program[c] = "sigkill"
          \/ a = "timed_out"
          \/ a = "cancelled" /\ marked[c]

(* The container follows the program counter ...                           *)
BoxFits(c) ==
    /\ call[c].pc \in {"image", "pull", "create"} => box[c] = "none"
    /\ call[c].pc = "start" => box[c] = "created"
    /\ call[c].pc \in Handle \cup {"remove"} => box[c] \in {"running", "exited"}
    /\ call[c].pc = "logs" => box[c] = "exited"

(* ... the program follows the container ...                               *)
ProgramFits(c) ==
    /\ box[c] \in {"none", "created"} => program[c] = "none"
    /\ box[c] = "running" <=> program[c] = "running"
    /\ box[c] \in {"exited", "removed"} => program[c] \in P!Ended

(* ... and the answer is in the making.                                    *)
AnswerFits(c) ==
    /\ call[c].pc \in NoHandle \cup {"deadline"} \cup Polling => call[c].answer = "none"
    /\ call[c].pc \in {"kill", "await"} =>
          call[c].answer = "timed_out" \/ (call[c].answer = "cancelled" /\ marked[c])
    /\ call[c].pc \in {"logs", "remove"} => Truthful(c, call[c].answer)

CallInv(c) == BoxFits(c) /\ ProgramFits(c) /\ AnswerFits(c)

SandboxInv == TypeOK /\ \A c \in Calls : CallInv(c)

-----------------------------------------------------------------------------
(* Types.                                                                  *)

LEMMA GotoType ==
  ASSUME call \in [Calls -> Call], NEW c \in Calls, NEW l \in Pc, Goto(c, l)
  PROVE  call' \in [Calls -> Call]
  BY DEF Goto, Call

LEMMA LeaveType ==
  ASSUME call \in [Calls -> Call], NEW c \in Calls,
         NEW a \in Outcomes \cup {"none"}, Leave(c, a)
  PROVE  call' \in [Calls -> Call]
  BY DEF Leave, Call, Pc, Handle

LEMMA BoxType ==
  ASSUME TypeOK, NEW c \in Calls,
         \/ Created(c) \/ Started(c) \/ Killed(c) \/ Removed(c) \/ UnderWay(c)
         \/ UNCHANGED <<box, program>>
  PROVE  /\ box' \in [Calls -> Box]
         /\ program' \in [Calls -> {"none", "running"} \cup P!Ended]
  <1>. USE DEF TypeOK, Box, P!Ended
  <1>1. CASE Created(c)
    BY <1>1 DEF Created
  <1>2. CASE Started(c)
    BY <1>2 DEF Started
  <1>3. CASE Killed(c)
    BY <1>3 DEF Killed
  <1>4. CASE Removed(c)
    BY <1>4 DEF Removed
  <1>5. CASE UNCHANGED <<box, program>>
    BY <1>5
  <1>. QED
    BY <1>1, <1>2, <1>3, <1>4, <1>5 DEF UnderWay

LEMMA StepType ==
  ASSUME TypeOK, NEW c \in Calls, Step(c)
  PROVE  TypeOK'
  <1>t. /\ call \in [Calls -> Call] /\ marked \in [Calls -> BOOLEAN]
        /\ image \in BOOLEAN /\ daemon \in {"up", "down", "mute"}
        /\ call[c].answer \in Outcomes \cup {"none"}
    BY DEF TypeOK, Call
  <1>1. call' \in [Calls -> Call]
    <2>1. CASE \E l \in Pc : Goto(c, l)
      BY <1>t, <2>1, GotoType
    <2>2. CASE \E a \in Outcomes \cup {"none"} : Leave(c, a)
      BY <1>t, <2>2, LeaveType
    <2>3. CASE Poll(c) \/ CheckCancel(c)
      BY <1>t, <2>3 DEF Poll, CheckCancel, Goto, Call, Pc, Handle, Polling, Outcomes
    <2>4. CASE WaitReturns(c)
      <3>1. Meaning(program[c]) \in Outcomes
        BY DEF Meaning, Outcomes, P!Broken
      <3>. QED
        BY <1>t, <2>4, <3>1 DEF WaitReturns, Call, Pc, Handle
    <2>5. {"create", "pull", "start", "deadline", "poll", "check", "await", "logs"} \subseteq Pc
      BY DEF Pc, NoHandle, Handle, Polling
    <2>6. {"error", "raised"} \subseteq Outcomes
      BY DEF Outcomes, P!Broken
    <2>. QED
      BY <1>t, <2>1, <2>2, <2>3, <2>4, <2>5, <2>6
      DEF Step, EnsureImage, Pull, CreateContainer, StartContainer, StartFails, SetDeadline,
          WaitTimesOut, Kill, AwaitDeath, GetLogs, Remove, ApiError, NoAnswer
  <1>2. /\ box' \in [Calls -> Box]
        /\ program' \in [Calls -> {"none", "running"} \cup P!Ended]
    BY BoxType
    DEF Step, EnsureImage, Pull, CreateContainer, StartContainer, StartFails, SetDeadline,
        Poll, WaitReturns, WaitTimesOut, CheckCancel, Kill, AwaitDeath, GetLogs, Remove,
        ApiError, NoAnswer, dockerVars
  <1>3. marked' = marked /\ image' \in {image, TRUE} /\ daemon' = daemon
    BY DEF Step, EnsureImage, Pull, CreateContainer, StartContainer, StartFails, SetDeadline,
        Poll, WaitReturns, WaitTimesOut, CheckCancel, Kill, AwaitDeath, GetLogs, Remove,
        ApiError, NoAnswer, dockerVars
  <1>. QED
    BY <1>t, <1>1, <1>2, <1>3 DEF TypeOK

LEMMA TypeNext == TypeOK /\ [Next]_vars => TypeOK'
  <1>. SUFFICES ASSUME TypeOK, [Next]_vars PROVE TypeOK'
    OBVIOUS
  <1>1. ASSUME NEW c \in Calls, SoftLimit(c) \/ ProcessDies(c) PROVE TypeOK'
    <2>1. call' \in [Calls -> Call]
      BY <1>1 DEF SoftLimit, ProcessDies, TypeOK, Call, Pc, Handle, Polling, Outcomes, P!Broken
    <2>2. /\ box' \in [Calls -> Box]
          /\ program' \in [Calls -> {"none", "running"} \cup P!Ended]
      BY <1>1, BoxType DEF SoftLimit, ProcessDies
    <2>. QED
      BY <1>1, <2>1, <2>2 DEF SoftLimit, ProcessDies, TypeOK
  <1>2. ASSUME NEW c \in Calls, ProgramEnds(c) \/ MarkCancel(c) \/ DeadlinePasses(c)
        PROVE  TypeOK'
    <2>1. CASE ProgramEnds(c)
      BY <2>1 DEF ProgramEnds, TypeOK, Box
    <2>2. CASE MarkCancel(c)
      BY <2>2 DEF MarkCancel, dockerVars, TypeOK
    <2>3. CASE DeadlinePasses(c)
      BY <2>3 DEF DeadlinePasses, dockerVars, TypeOK, Call
    <2>. QED
      BY <1>2, <2>1, <2>2, <2>3
  <1>3. CASE DaemonLost \/ DaemonBack \/ UNCHANGED vars
    BY <1>3 DEF DaemonLost, DaemonBack, vars, TypeOK
  <1>. QED
    BY <1>1, <1>2, <1>3, StepType DEF Next

(* Type correctness of the calls and their containers.                     *)
THEOREM SandboxTypeCorrect == Spec => []TypeOK
  <1>1. Init => TypeOK
    BY DEF Init, TypeOK, NewCall, Call, Pc, NoHandle, Box
  <1>. QED
    BY <1>1, TypeNext, PTL DEF Spec

-----------------------------------------------------------------------------
(* One call and its container.                                             *)

Act(c) ==
    \/ Step(c) \/ SoftLimit(c) \/ ProcessDies(c)
    \/ ProgramEnds(c) \/ MarkCancel(c) \/ DeadlinePasses(c)

(* What a step does not touch.                                             *)
Same(c) == /\ call'[c] = call[c] /\ box'[c] = box[c]
           /\ program'[c] = program[c] /\ marked'[c] = marked[c]

LEMMA UnderWayFrame ==
  ASSUME TypeOK, NEW c \in Calls, NEW d \in Calls, d # c,
         \/ Created(c) \/ Started(c) \/ Killed(c) \/ Removed(c) \/ UnderWay(c)
         \/ UNCHANGED <<box, program>>
  PROVE  box'[d] = box[d] /\ program'[d] = program[d]
  BY DEF TypeOK, Created, Started, Killed, Removed, UnderWay

LEMMA Frame ==
  ASSUME TypeOK, NEW c \in Calls, Act(c), NEW d \in Calls, d # c
  PROVE  Same(d)
  <1>1. box'[d] = box[d] /\ program'[d] = program[d]
    <2>1. CASE ProgramEnds(c)
      BY <2>1 DEF ProgramEnds, TypeOK
    <2>2. CASE ~ProgramEnds(c)
      BY <2>2, UnderWayFrame
      DEF Act, Step, EnsureImage, Pull, CreateContainer, StartContainer, StartFails, SetDeadline,
          Poll, WaitReturns, WaitTimesOut, CheckCancel, Kill, AwaitDeath, GetLogs, Remove,
          ApiError, NoAnswer, SoftLimit, ProcessDies, MarkCancel, DeadlinePasses,
          dockerVars
    <2>. QED
      BY <2>1, <2>2
  <1>2. call'[d] = call[d]
    <2>1. CASE (\E l : Goto(c, l)) \/ (\E a : Leave(c, a)) \/ UNCHANGED call
      BY <2>1 DEF Goto, Leave, TypeOK
    <2>2. CASE Poll(c) \/ WaitReturns(c) \/ CheckCancel(c)
      BY <2>2 DEF Poll, WaitReturns, CheckCancel, Goto, TypeOK
    <2>3. CASE SoftLimit(c) \/ ProcessDies(c) \/ DeadlinePasses(c)
      BY <2>3 DEF SoftLimit, ProcessDies, DeadlinePasses, TypeOK
    <2>. QED
      BY <2>1, <2>2, <2>3
      DEF Act, Step, EnsureImage, Pull, CreateContainer, StartContainer, StartFails, SetDeadline,
          WaitTimesOut, Kill, AwaitDeath, GetLogs, Remove, ApiError, NoAnswer,
          ProgramEnds, MarkCancel
  <1>3. marked'[d] = marked[d]
    BY DEF Act, Step, EnsureImage, Pull, CreateContainer, StartContainer, StartFails, SetDeadline,
          Poll, WaitReturns, WaitTimesOut, CheckCancel, Kill, AwaitDeath, GetLogs, Remove,
          ApiError, NoAnswer, SoftLimit, ProcessDies, ProgramEnds, MarkCancel,
          DeadlinePasses, dockerVars, TypeOK
  <1>. QED
    BY <1>1, <1>2, <1>3 DEF Same

LEMMA SameInv ==
  ASSUME NEW c, CallInv(c), Same(c)
  PROVE  CallInv(c)'
  BY DEF CallInv, BoxFits, ProgramFits, AnswerFits, Truthful, Same

(* The pieces a step of c is made of.                                      *)
LEMMA GotoIs ==
  ASSUME TypeOK, NEW c \in Calls, NEW l, Goto(c, l)
  PROVE  call'[c].pc = l /\ call'[c].answer = call[c].answer
  BY DEF TypeOK, Call, Goto

LEMMA LeaveIs ==
  ASSUME TypeOK, NEW c \in Calls, NEW a, Leave(c, a)
  PROVE  /\ call'[c].answer = a
         /\ call'[c].pc = IF call[c].pc \in NoHandle \cup {"remove"} THEN "done" ELSE "remove"
  BY DEF TypeOK, Call, Leave

LEMMA UnderWayIs ==
  ASSUME TypeOK, NEW c \in Calls, BoxFits(c), ProgramFits(c),
         \/ Created(c) /\ call[c].pc = "create"
         \/ Started(c) /\ call[c].pc = "start"
         \/ Killed(c) /\ call[c].pc = "kill"
         \/ Removed(c) /\ call[c].pc = "remove"
         \/ UNCHANGED <<box, program>>
  PROVE  /\ ProgramFits(c)'
         /\ call[c].pc \in {"deadline", "poll", "wait", "check", "await", "logs"} =>
               box'[c] = box[c]
         /\ call[c].pc = "kill" => box'[c] \in {"running", "exited"}
         /\ program[c] \in P!Ended => program'[c] = program[c]
         /\ program[c] = "none" => program'[c] \in {"none", "running"}
         /\ program[c] = "running" => program'[c] \in {"running", "sigkill"}
  <1>1. CASE Created(c) /\ call[c].pc = "create"
    BY <1>1 DEF Created, TypeOK, BoxFits, ProgramFits, P!Ended
  <1>2. CASE Started(c) /\ call[c].pc = "start"
    BY <1>2 DEF Started, TypeOK, BoxFits, ProgramFits, P!Ended
  <1>3. CASE Killed(c) /\ call[c].pc = "kill"
    BY <1>3 DEF Killed, TypeOK, BoxFits, ProgramFits, P!Ended
  <1>4. CASE Removed(c) /\ call[c].pc = "remove"
    BY <1>4 DEF Removed, TypeOK, BoxFits, ProgramFits, Handle, P!Ended
  <1>5. CASE UNCHANGED <<box, program>>
    <2>1. ProgramFits(c)'
      BY <1>5 DEF ProgramFits
    <2>2. call[c].pc = "kill" => box'[c] \in {"running", "exited"}
      BY <1>5 DEF BoxFits, Handle
    <2>. QED
      BY <1>5, <2>1, <2>2
  <1>. QED
    BY <1>1, <1>2, <1>3, <1>4, <1>5

(* A step that breaks the call off, from anywhere.                         *)
LEMMA BreakInv ==
  ASSUME TypeOK, NEW c \in Calls, CallInv(c), NEW a \in P!Broken,
         call'[c].answer = a,
         call'[c].pc \in {"remove", "done"},
         call'[c].pc = "remove" => call[c].pc \in Handle,
         UnderWay(c) \/ UNCHANGED <<box, program>>
  PROVE  CallInv(c)'
  <1>1. ProgramFits(c)'
    BY UnderWayIs DEF UnderWay, CallInv
  <1>2. AnswerFits(c)'
    BY DEF AnswerFits, Truthful, NoHandle, Polling
  <1>3. BoxFits(c)'
    <2>1. call'[c].pc = "remove" => box'[c] \in {"running", "exited"}
      <3>1. ASSUME call'[c].pc = "remove" PROVE box'[c] \in {"running", "exited"}
        <4>1. call[c].pc \in Handle /\ box[c] \in {"running", "exited"}
          BY <3>1 DEF CallInv, BoxFits
        <4>2. CASE UNCHANGED <<box, program>>
          BY <4>1, <4>2
        <4>3. CASE Killed(c)
          BY <4>3 DEF Killed, TypeOK
        <4>. QED
          BY <4>1, <4>2, <4>3 DEF UnderWay, Handle, Polling
      <3>. QED
        BY <3>1
    <2>. QED
      BY <2>1 DEF BoxFits, Handle, Polling
  <1>. QED
    BY <1>1, <1>2, <1>3 DEF CallInv

(* The steps of c keep what relates its call, container and program.       *)
LEMMA ActInv ==
  ASSUME TypeOK, NEW c \in Calls, CallInv(c), Act(c)
  PROVE  CallInv(c)'
  <1>. USE DEF CallInv
  <1>1. CASE EnsureImage(c)
    BY <1>1, GotoIs
    DEF EnsureImage, dockerVars, BoxFits, ProgramFits, AnswerFits, NoHandle, Handle, Polling
  <1>2. CASE Pull(c)
    <2>1. CASE Goto(c, "create")
      BY <1>2, <2>1, GotoIs
      DEF Pull, BoxFits, ProgramFits, AnswerFits, NoHandle, Handle, Polling
    <2>2. CASE Leave(c, "error")
      BY <1>2, <2>2, LeaveIs, BreakInv DEF Pull, NoHandle, P!Broken
    <2>. QED
      BY <1>2, <2>1, <2>2 DEF Pull
  <1>3. CASE CreateContainer(c)
    BY <1>3, GotoIs
    DEF CreateContainer, Created, TypeOK, BoxFits, ProgramFits, AnswerFits, NoHandle, Handle,
        Polling
  <1>4. CASE StartContainer(c)
    BY <1>4, GotoIs
    DEF StartContainer, Started, TypeOK, BoxFits, ProgramFits, AnswerFits, NoHandle, Handle,
        Polling
  <1>5. CASE StartFails(c)
    BY <1>5, LeaveIs, BreakInv DEF StartFails, dockerVars, NoHandle, P!Broken
  <1>6. CASE SetDeadline(c)
    <2>1. CASE Goto(c, "poll")
      BY <1>6, <2>1, GotoIs
      DEF SetDeadline, dockerVars, BoxFits, ProgramFits, AnswerFits, NoHandle, Handle, Polling
    <2>2. CASE Leave(c, "raised")
      BY <1>6, <2>2, LeaveIs, BreakInv DEF SetDeadline, dockerVars, NoHandle, Handle, P!Broken
    <2>. QED
      BY <1>6, <2>1, <2>2 DEF SetDeadline
  <1>7. CASE Poll(c)
    BY <1>7
    DEF Poll, dockerVars, TypeOK, Call, BoxFits, ProgramFits, AnswerFits, NoHandle, Handle,
        Polling
  <1>8. CASE WaitReturns(c)
    <2>1. Truthful(c, Meaning(program[c]))
      BY <1>8 DEF WaitReturns, ProgramFits, Truthful, Meaning, P!Ended, P!Broken
    <2>2. /\ call'[c].pc = "logs" /\ call'[c].answer = Meaning(program[c])
          /\ UNCHANGED <<box, program, marked>>
      BY <1>8 DEF WaitReturns, dockerVars, TypeOK, Call
    <2>3. AnswerFits(c)'
      BY <2>1, <2>2 DEF AnswerFits, Truthful, NoHandle, Polling
    <2>. QED
      BY <1>8, <2>2, <2>3 DEF WaitReturns, BoxFits, ProgramFits, Handle, Polling
  <1>9. CASE WaitTimesOut(c)
    BY <1>9, GotoIs
    DEF WaitTimesOut, dockerVars, BoxFits, ProgramFits, AnswerFits, NoHandle, Handle, Polling
  <1>10. CASE CheckCancel(c)
    <2>1. CASE Goto(c, "poll")
      BY <1>10, <2>1, GotoIs
      DEF CheckCancel, dockerVars, BoxFits, ProgramFits, AnswerFits, NoHandle, Handle, Polling
    <2>2. CASE ~Goto(c, "poll")
      BY <1>10, <2>2
      DEF CheckCancel, dockerVars, TypeOK, Call, BoxFits, ProgramFits, AnswerFits, NoHandle,
          Handle, Polling
    <2>. QED
      BY <2>1, <2>2
  <1>11. CASE Kill(c)
    <2>1. /\ ProgramFits(c)' /\ box'[c] \in {"running", "exited"}
      BY <1>11, UnderWayIs DEF Kill, BoxFits, Handle
    <2>2. call'[c].pc = "await" /\ call'[c].answer = call[c].answer /\ marked' = marked
      BY <1>11, GotoIs DEF Kill
    <2>. QED
      BY <1>11, <2>1, <2>2 DEF Kill, BoxFits, AnswerFits, NoHandle, Handle, Polling
  <1>12. CASE AwaitDeath(c)
    <2>1. /\ call'[c].pc = "logs" /\ call'[c].answer = call[c].answer
          /\ UNCHANGED <<box, program, marked>> /\ box[c] = "exited"
      BY <1>12, GotoIs DEF AwaitDeath, Dead, dockerVars
    <2>2. AnswerFits(c)'
      BY <1>12, <2>1 DEF AwaitDeath, AnswerFits, Truthful, ProgramFits, NoHandle, Polling
    <2>. QED
      BY <2>1, <2>2 DEF BoxFits, ProgramFits, Handle, Polling
  <1>13. CASE GetLogs(c)
    <2>1. /\ call'[c].pc = "remove" /\ call'[c].answer = call[c].answer
          /\ UNCHANGED <<box, program, marked>>
      BY <1>13, LeaveIs DEF GetLogs, dockerVars, NoHandle
    <2>2. AnswerFits(c)'
      BY <1>13, <2>1 DEF GetLogs, AnswerFits, Truthful, NoHandle, Polling
    <2>. QED
      BY <1>13, <2>1, <2>2 DEF GetLogs, BoxFits, ProgramFits, Handle, Polling
  <1>14. CASE Remove(c)
    <2>1. call'[c].pc = "done"
      BY <1>14, LeaveIs DEF Remove
    <2>2. ProgramFits(c)'
      BY <1>14, UnderWayIs DEF Remove
    <2>. QED
      BY <2>1, <2>2 DEF BoxFits, AnswerFits, NoHandle, Handle, Polling
  <1>15. CASE ApiError(c)
    BY <1>15, LeaveIs, BreakInv
    DEF ApiError, dockerVars, NoHandle, Handle, Polling, P!Broken
  <1>16. CASE NoAnswer(c)
    BY <1>16, LeaveIs, BreakInv DEF NoAnswer, NoHandle, Handle, P!Broken
  <1>17. CASE SoftLimit(c)
    <2>1. CASE call'[c].answer = "soft"
      <3>1. \/ call'[c].pc = IF call[c].pc \in NoHandle \cup {"remove"} THEN "done"
                                                                       ELSE "remove"
            \/ call[c].pc = "check" /\ call'[c].pc = "poll" /\ call[c].answer = "soft"
        BY <1>17, <2>1 DEF SoftLimit, TypeOK, Call
      <3>2. call[c].pc # "check" \/ call[c].answer = "none"
        BY DEF AnswerFits, Polling
      <3>3. call[c].pc \in Pc /\ call[c].pc # "done"
        BY <1>17 DEF SoftLimit, TypeOK, Call
      <3>. QED
        BY <1>17, <2>1, <3>1, <3>2, <3>3, BreakInv DEF SoftLimit, Pc, P!Broken
    <2>2. CASE call'[c].answer # "soft"
      <3>1. /\ call[c].pc = "check" /\ call'[c].pc = "poll"
            /\ call'[c].answer = call[c].answer /\ UNCHANGED <<box, program, marked>>
        BY <1>17, <2>2 DEF SoftLimit, TypeOK, Call
      <3>. QED
        BY <3>1 DEF BoxFits, ProgramFits, AnswerFits, NoHandle, Handle, Polling
    <2>. QED
      BY <2>1, <2>2
  <1>18. CASE ProcessDies(c)
    <2>1. call'[c].pc = "done" /\ call'[c].answer = "killed"
      BY <1>18 DEF ProcessDies, TypeOK, Call
    <2>. QED
      BY <1>18, <2>1, BreakInv DEF ProcessDies, P!Broken
  <1>19. CASE ProgramEnds(c)
    <2>1. /\ box[c] = "running" /\ box'[c] = "exited" /\ program'[c] \in P!Ended
          /\ program[c] = "running" /\ UNCHANGED <<call, marked>>
      BY <1>19 DEF ProgramEnds, TypeOK, ProgramFits
    <2>2. AnswerFits(c)'
      BY <2>1 DEF AnswerFits, Truthful, P!Ended
    <2>. QED
      BY <2>1, <2>2 DEF BoxFits, ProgramFits, P!Ended, NoHandle
  <1>20. CASE MarkCancel(c)
    <2>1. marked'[c] /\ UNCHANGED <<call, box, program>>
      BY <1>20 DEF MarkCancel, dockerVars, TypeOK
    <2>. QED
      BY <2>1 DEF BoxFits, ProgramFits, AnswerFits, Truthful
  <1>21. CASE DeadlinePasses(c)
    <2>1. /\ call'[c].pc = call[c].pc /\ call'[c].answer = call[c].answer
          /\ UNCHANGED <<box, program, marked>>
      BY <1>21 DEF DeadlinePasses, dockerVars, TypeOK, Call
    <2>. QED
      BY <2>1 DEF BoxFits, ProgramFits, AnswerFits, Truthful
  <1>. QED
    BY <1>1, <1>2, <1>3, <1>4, <1>5, <1>6, <1>7, <1>8, <1>9, <1>10, <1>11, <1>12, <1>13,
       <1>14, <1>15, <1>16, <1>17, <1>18, <1>19, <1>20, <1>21
    DEF Act, Step

LEMMA SandboxInvNext == SandboxInv /\ [Next]_vars => SandboxInv'
  <1>. SUFFICES ASSUME SandboxInv, [Next]_vars PROVE SandboxInv'
    OBVIOUS
  <1>1. TypeOK'
    BY TypeNext DEF SandboxInv
  <1>2. ASSUME NEW d \in Calls PROVE CallInv(d)'
    <2>1. ASSUME NEW c \in Calls, Act(c) PROVE CallInv(d)'
      BY <2>1, ActInv, Frame, SameInv DEF SandboxInv
    <2>2. CASE DaemonLost \/ DaemonBack \/ UNCHANGED vars
      BY <2>2, SameInv DEF DaemonLost, DaemonBack, vars, Same, SandboxInv
    <2>. QED
      BY <2>1, <2>2 DEF Next, Act
  <1>. QED
    BY <1>1, <1>2 DEF SandboxInv

-----------------------------------------------------------------------------
(* The promise.                                                            *)

Out == [c \in Calls |-> IF call[c].pc = "done" THEN call[c].answer ELSE "none"]

(* A step of c that does not end its call: something happens to the        *)
(* program, or the user marks the task, or nothing that the promise sees.  *)
Quiet(c) ==
    /\ call'[c].pc = "done" => call[c].pc = "done" /\ call'[c].answer = call[c].answer
    /\ call[c].pc = "done" => call'[c].pc = "done"
    /\ \/ program'[c] = program[c] /\ marked'[c] = marked[c]
       \/ program'[c] = program[c] /\ call[c].pc # "done" /\ marked'[c] = TRUE
       \/ /\ program[c] = "running" /\ program'[c] \in P!Ended
          /\ marked'[c] = marked[c]
       \/ /\ program[c] = "none" /\ program'[c] = "running"
          /\ call[c].pc # "done" /\ marked'[c] = marked[c]

(* A step of c that ends its call.                                         *)
Last(c) ==
    /\ call[c].pc # "done" /\ call'[c].pc = "done"
    /\ marked'[c] = marked[c]
    /\ \/ call'[c].answer \in P!Broken
       \/ call[c].pc = "remove" /\ call'[c].answer = call[c].answer
    /\ program[c] \in P!Ended => program'[c] = program[c]
    /\ program[c] = "none" => program'[c] \in {"none", "running"}
    /\ program[c] = "running" => program'[c] \in {"running", "sigkill"}

LEMMA EndsOrNot ==
  ASSUME TypeOK, NEW c \in Calls, CallInv(c), Act(c)
  PROVE  Quiet(c) \/ Last(c)
  <1>i. BoxFits(c) /\ ProgramFits(c)
    BY DEF CallInv
  <1>1. ASSUME NEW a \in P!Broken, Leave(c, a), call[c].pc # "done", marked' = marked,
               UnderWay(c) \/ UNCHANGED <<box, program>>,
               call[c].pc \notin NoHandle \cup {"remove"} =>
                  call[c].pc = "kill" \/ UNCHANGED <<box, program>>
        PROVE  Quiet(c) \/ Last(c)
    <2>1. /\ call'[c].answer = a
          /\ call'[c].pc = IF call[c].pc \in NoHandle \cup {"remove"} THEN "done" ELSE "remove"
      BY <1>1, LeaveIs
    <2>2. CASE call[c].pc \in NoHandle \cup {"remove"}
      <3>1. /\ program[c] \in P!Ended => program'[c] = program[c]
            /\ program[c] = "none" => program'[c] \in {"none", "running"}
            /\ program[c] = "running" => program'[c] \in {"running", "sigkill"}
        BY <1>1, <1>i, UnderWayIs DEF UnderWay
      <3>. QED
        BY <1>1, <2>1, <2>2, <3>1 DEF Last
    <2>3. CASE call[c].pc \notin NoHandle \cup {"remove"}
      <3>1. program'[c] = program[c]
              \/ (program[c] = "running" /\ program'[c] \in P!Ended)
        BY <1>1, <2>3, <1>i
        DEF UnderWay, Killed, ProgramFits, TypeOK, P!Ended, NoHandle
      <3>. QED
        BY <1>1, <2>1, <2>3, <3>1 DEF Quiet
    <2>. QED
      BY <2>2, <2>3
  <1>2. ASSUME NEW l \in Pc \ {"done"}, Goto(c, l), call[c].pc # "done", marked' = marked,
               \/ program'[c] = program[c]
               \/ program[c] = "running" /\ program'[c] \in P!Ended
               \/ program[c] = "none" /\ program'[c] = "running"
        PROVE  Quiet(c)
    BY <1>2, GotoIs DEF Quiet
  <1>3. CASE \/ EnsureImage(c) \/ CreateContainer(c) \/ WaitTimesOut(c) \/ AwaitDeath(c)
    BY <1>2, <1>3
    DEF EnsureImage, CreateContainer, Created, WaitTimesOut, AwaitDeath, dockerVars, Pc,
        NoHandle, Handle, Polling
  <1>4. CASE StartContainer(c)
    <2>1. program[c] = "none" /\ program'[c] = "running"
      BY <1>4, <1>i DEF StartContainer, Started, BoxFits, ProgramFits, TypeOK
    <2>. QED
      BY <1>2, <1>4, <2>1 DEF StartContainer, Pc, Handle
  <1>5. CASE Kill(c)
    <2>1. program'[c] = program[c] \/ (program[c] = "running" /\ program'[c] \in P!Ended)
      BY <1>5, <1>i DEF Kill, Killed, ProgramFits, TypeOK, P!Ended
    <2>. QED
      BY <1>2, <1>5, <2>1 DEF Kill, Pc, Handle
  <1>6. CASE Pull(c) \/ SetDeadline(c)
    <2>1. UNCHANGED <<box, program, marked>> /\ call[c].pc # "done"
      BY <1>6 DEF Pull, SetDeadline, dockerVars
    <2>2. Goto(c, "create") \/ Goto(c, "poll") \/ Leave(c, "error") \/ Leave(c, "raised")
      BY <1>6 DEF Pull, SetDeadline
    <2>3. {"create", "poll"} \subseteq Pc \ {"done"} /\ {"error", "raised"} \subseteq P!Broken
      BY DEF Pc, NoHandle, Handle, Polling, P!Broken
    <2>. QED
      BY <1>1, <1>2, <2>1, <2>2, <2>3
  <1>7. CASE StartFails(c) \/ ApiError(c) \/ NoAnswer(c)
    <2>1. /\ \E a \in P!Broken : Leave(c, a)
          /\ call[c].pc # "done" /\ marked' = marked
          /\ UnderWay(c) \/ UNCHANGED <<box, program>>
      BY <1>7 DEF StartFails, ApiError, NoAnswer, dockerVars, P!Broken, NoHandle
    <2>2. call[c].pc \notin NoHandle \cup {"remove"} =>
                  call[c].pc = "kill" \/ UNCHANGED <<box, program>>
      BY <1>7 DEF StartFails, ApiError, NoAnswer, dockerVars, UnderWay, NoHandle
    <2>. QED
      BY <1>1, <2>1, <2>2
  <1>8. CASE Poll(c) \/ WaitReturns(c) \/ CheckCancel(c) \/ DeadlinePasses(c)
    <2>1. /\ UNCHANGED <<program, marked>> /\ call[c].pc # "done"
      BY <1>8 DEF Poll, WaitReturns, CheckCancel, DeadlinePasses, dockerVars, Polling
    <2>2. call'[c].pc # "done"
      BY <1>8 DEF Poll, WaitReturns, CheckCancel, DeadlinePasses, Goto, TypeOK, Call, Polling
    <2>. QED
      BY <2>1, <2>2 DEF Quiet
  <1>9. CASE GetLogs(c)
    <2>1. call[c].pc # "done" /\ call'[c].pc # "done" /\ UNCHANGED <<program, marked>>
      BY <1>9, LeaveIs DEF GetLogs, dockerVars, NoHandle
    <2>. QED
      BY <2>1 DEF Quiet
  <1>10. CASE Remove(c)
    <2>1. call'[c].pc = "done" /\ call'[c].answer = call[c].answer /\ marked' = marked
      BY <1>10, LeaveIs DEF Remove
    <2>2. /\ program[c] \in P!Ended => program'[c] = program[c]
          /\ program[c] = "none" => program'[c] \in {"none", "running"}
          /\ program[c] = "running" => program'[c] \in {"running", "sigkill"}
      BY <1>10, <1>i, UnderWayIs DEF Remove
    <2>. QED
      BY <1>10, <2>1, <2>2 DEF Remove, Last
  <1>11. CASE SoftLimit(c) \/ ProcessDies(c)
    <2>1. call[c].pc # "done" /\ marked' = marked
      BY <1>11 DEF SoftLimit, ProcessDies
    <2>2. UnderWay(c)
      BY <1>11 DEF SoftLimit, ProcessDies, UnderWay
    <2>3. /\ program[c] \in P!Ended => program'[c] = program[c]
          /\ program[c] = "none" => program'[c] \in {"none", "running"}
          /\ program[c] = "running" => program'[c] \in {"running", "sigkill"}
      BY <1>i, <2>2, UnderWayIs DEF UnderWay
    <2>4. program[c] \in {"none", "running"} \cup P!Ended
      BY DEF TypeOK
    <2>5. call'[c].pc = "done" => call'[c].answer \in P!Broken
      BY <1>11 DEF SoftLimit, ProcessDies, TypeOK, Call, P!Broken
    <2>6. CASE call'[c].pc = "done"
      BY <2>1, <2>3, <2>5, <2>6 DEF Last
    <2>7. CASE call'[c].pc # "done"
      BY <2>1, <2>3, <2>4, <2>7 DEF Quiet, P!Ended
    <2>. QED
      BY <2>6, <2>7
  <1>12. CASE ProgramEnds(c)
    BY <1>12, <1>i DEF ProgramEnds, ProgramFits, TypeOK, Quiet
  <1>13. CASE MarkCancel(c)
    BY <1>13 DEF MarkCancel, dockerVars, TypeOK, Quiet
  <1>. QED
    BY <1>3, <1>4, <1>5, <1>6, <1>7, <1>8, <1>9, <1>10, <1>11, <1>12, <1>13 DEF Act, Step

LEMMA Refines ==
  ASSUME SandboxInv, NEW c \in Calls, Act(c)
  PROVE  [P!PromiseNext]_<<Out, program, marked>>
  <1>t. /\ call \in [Calls -> Call] /\ program \in [Calls -> {"none", "running"} \cup P!Ended]
        /\ marked \in [Calls -> BOOLEAN]
        /\ TypeOK /\ TypeOK' /\ CallInv(c)
    BY TypeNext DEF SandboxInv, TypeOK, Act, Next
  <1>f. /\ Out' = [Out EXCEPT ![c] = IF call'[c].pc = "done" THEN call'[c].answer ELSE "none"]
        /\ program' = [program EXCEPT ![c] = program'[c]]
        /\ marked' = [marked EXCEPT ![c] = marked'[c]]
    BY <1>t, Frame DEF Same, Out, TypeOK
  <1>o. Out[c] = IF call[c].pc = "done" THEN call[c].answer ELSE "none"
    BY DEF Out
  <1>1. CASE Last(c)
    <2>1. Out[c] = "none" /\ Out' = [Out EXCEPT ![c] = call'[c].answer] /\ marked' = marked
      BY <1>1, <1>t, <1>f, <1>o DEF Last
    <2>2. CASE call'[c].answer \in P!Broken
      <3>1. \/ program' = program
            \/ program[c] = "none" /\ program' = [program EXCEPT ![c] = "running"]
            \/ program[c] = "running" /\ program' = [program EXCEPT ![c] = "sigkill"]
        BY <1>1, <1>t, <1>f DEF Last
      <3>2. P!Break(c)
        BY <2>1, <2>2, <3>1 DEF P!Break, Out
      <3>. QED
        BY <3>2 DEF P!PromiseNext
    <2>3. CASE call'[c].answer \notin P!Broken
      <3>1. Truthful(c, call'[c].answer)
        BY <1>1, <1>t, <2>3 DEF Last, CallInv, AnswerFits
      <3>2. program[c] \in P!Ended /\ program' = program
        BY <1>1, <1>t, <1>f, <2>3, <3>1 DEF Last, Truthful
      <3>3. P!Answer(c)
        BY <2>1, <2>3, <3>1, <3>2 DEF P!Answer, Truthful, Out
      <3>. QED
        BY <3>3 DEF P!PromiseNext
    <2>. QED
      BY <2>2, <2>3
  <1>2. CASE Quiet(c)
    <2>1. Out' = Out
      BY <1>2, <1>t, <1>f, <1>o DEF Quiet, Out
    <2>2. CASE program'[c] = program[c] /\ marked'[c] = marked[c]
      BY <1>t, <1>f, <2>1, <2>2
    <2>3. CASE program'[c] = program[c] /\ call[c].pc # "done" /\ marked'[c] = TRUE
      <3>1. program' = program
        BY <1>t, <1>f, <2>3
      <3>2. marked' = [marked EXCEPT ![c] = TRUE]
        BY <1>f, <2>3, Zenon
      <3>3. Out[c] = "none"
        BY <1>o, <2>3
      <3>4. P!Mark(c)
        BY <2>1, <3>1, <3>2, <3>3, Zenon DEF P!Mark, Out
      <3>. QED
        BY <3>4 DEF P!PromiseNext
    <2>4. CASE program[c] = "running" /\ program'[c] \in P!Ended /\ marked'[c] = marked[c]
      <3>1. P!End(c)
        BY <1>t, <1>f, <2>1, <2>4 DEF P!End, Out
      <3>. QED
        BY <3>1 DEF P!PromiseNext
    <2>5. CASE /\ program[c] = "none" /\ program'[c] = "running"
               /\ call[c].pc # "done" /\ marked'[c] = marked[c]
      <3>1. P!Launch(c)
        BY <1>t, <1>f, <1>o, <2>1, <2>5 DEF P!Launch, Out
      <3>. QED
        BY <3>1 DEF P!PromiseNext
    <2>. QED
      BY <1>2, <2>2, <2>3, <2>4, <2>5 DEF Quiet
  <1>. QED
    BY <1>1, <1>2, <1>t, EndsOrNot

(* The executor implements SandboxPromise: an answer that speaks of the    *)
(* program is true of a program that has ended, and cancelled is only      *)
(* answered to a user who asked, for any number of calls and whatever      *)
(* timers, users and Docker do.                                            *)
THEOREM ExecutorKeepsPromise == Spec => KeepsPromise
  <1>1. Init => SandboxInv /\ P!PromiseInit
    BY DEF Init, SandboxInv, TypeOK, NewCall, Call, Pc, NoHandle, Box, CallInv, BoxFits,
           ProgramFits, AnswerFits, Truthful, Handle, Polling, P!PromiseInit
  <1>2. SandboxInv /\ [Next]_vars => [P!PromiseNext]_<<Out, program, marked>>
    <2>. SUFFICES ASSUME SandboxInv, [Next]_vars
                  PROVE  [P!PromiseNext]_<<Out, program, marked>>
      OBVIOUS
    <2>1. CASE DaemonLost \/ DaemonBack \/ UNCHANGED vars
      BY <2>1 DEF DaemonLost, DaemonBack, vars, Out
    <2>. QED
      BY <2>1, Refines DEF Next, Act
  <1>3. SandboxInv /\ [Next]_vars => [P!PromiseNext]_(P!promiseVars)
    BY <1>2 DEF Out, P!promiseVars
  <1>. QED
    BY <1>1, <1>3, SandboxInvNext, PTL DEF Spec, KeepsPromise, P!Promise

-----------------------------------------------------------------------------
(* Containers.  A call that has no handle has no container, or has just    *)
(* created one; what ends it there, and in the finally clause, is listed.  *)
LEMMA DoneBy ==
  ASSUME TypeOK, NEW c \in Calls, CallInv(c), Act(c),
         call[c].pc # "done", call'[c].pc = "done", ~ProcessDies(c)
  PROVE  /\ call[c].pc \in NoHandle \cup {"remove"}
         /\ \/ Pull(c) \/ StartFails(c) \/ Remove(c) \/ ApiError(c)
            \/ NoAnswer(c) \/ SoftLimit(c)
  <1>1. \A l : Goto(c, l) => l = "done"
    BY GotoIs
  <1>2. \A a : Leave(c, a) => call[c].pc \in NoHandle \cup {"remove"}
    BY LeaveIs
  <1>3. ~Poll(c) /\ ~WaitReturns(c) /\ ~CheckCancel(c) /\ ~DeadlinePasses(c)
    BY DEF Poll, WaitReturns, CheckCancel, DeadlinePasses, Goto, TypeOK, Call
  <1>4. SoftLimit(c) => call[c].pc \in NoHandle \cup {"remove"}
    BY DEF SoftLimit, TypeOK, Call
  <1>5. ~ProgramEnds(c) /\ ~MarkCancel(c)
    BY DEF ProgramEnds, MarkCancel
  <1>6. ~EnsureImage(c) /\ ~CreateContainer(c) /\ ~StartContainer(c) /\ ~WaitTimesOut(c)
        /\ ~Kill(c) /\ ~AwaitDeath(c)
    BY <1>1
    DEF EnsureImage, CreateContainer, StartContainer, WaitTimesOut, Kill, AwaitDeath
  <1>7. ~SetDeadline(c) /\ ~GetLogs(c)
    BY <1>1, <1>2 DEF SetDeadline, GetLogs, NoHandle
  <1>. QED
    BY <1>1, <1>2, <1>3, <1>4, <1>5, <1>6, <1>7
    DEF Act, Step, Pull, StartFails, Remove, ApiError, NoAnswer

LEMMA OutlivedStep ==
  ASSUME TypeOK, NEW c \in Calls, CallInv(c), Act(c), ~Outlived(c), Outlived(c)'
  PROVE  \/ ProcessDies(c)
         \/ call[c].pc = "start" /\ StartFails(c)
         \/ call[c].pc = "remove" /\ Remove(c) /\ UNCHANGED box
         \/ /\ call[c].pc \in {"create", "start", "remove"}
            /\ NoAnswer(c) \/ SoftLimit(c)
  <1>. SUFFICES ASSUME ~ProcessDies(c)
                PROVE  \/ call[c].pc = "start" /\ StartFails(c)
                       \/ call[c].pc = "remove" /\ Remove(c) /\ UNCHANGED box
                       \/ /\ call[c].pc \in {"create", "start", "remove"}
                          /\ NoAnswer(c) \/ SoftLimit(c)
    OBVIOUS
  <1>1. call'[c].pc = "done" /\ box'[c] \notin {"none", "removed"}
    BY DEF Outlived
  <1>2. call[c].pc # "done"
    <2>1. SUFFICES ASSUME call[c].pc = "done" PROVE box'[c] = box[c]
      BY <1>1 DEF Outlived
    <2>2. box[c] \in {"none", "removed"}
      BY <2>1 DEF Outlived
    <2>. QED
      BY <2>1, <2>2
      DEF Act, Step, EnsureImage, Pull, CreateContainer, StartContainer, StartFails,
          SetDeadline, Poll, WaitReturns, WaitTimesOut, CheckCancel, Kill, AwaitDeath,
          GetLogs, Remove, ApiError, NoAnswer, SoftLimit, ProcessDies, ProgramEnds,
          MarkCancel, DeadlinePasses, Polling, NoHandle, dockerVars
  <1>3. /\ call[c].pc \in NoHandle \cup {"remove"}
        /\ \/ Pull(c) \/ StartFails(c) \/ Remove(c) \/ ApiError(c)
           \/ NoAnswer(c) \/ SoftLimit(c)
    BY <1>1, <1>2, DoneBy
  <1>4. call[c].pc \in {"image", "pull", "create"} => box[c] = "none"
    BY DEF CallInv, BoxFits
  <1>5. ~Pull(c) /\ ~ApiError(c)
    BY <1>1, <1>3, <1>4 DEF Pull, ApiError, NoHandle, dockerVars
  <1>6. ASSUME NoAnswer(c) \/ SoftLimit(c)
        PROVE  call[c].pc \in {"create", "start", "remove"}
    <2>1. SUFFICES ASSUME call[c].pc \in {"image", "pull"} PROVE FALSE
      BY <1>3 DEF NoHandle
    <2>. QED
      BY <1>1, <1>4, <1>6, <2>1 DEF NoAnswer, SoftLimit, UnderWay
  <1>7. ASSUME Remove(c) PROVE call[c].pc = "remove" /\ UNCHANGED box
    BY <1>1, <1>7 DEF Remove, Removed, TypeOK
  <1>. QED
    BY <1>3, <1>5, <1>6, <1>7 DEF StartFails

(* A container outlives its call only by the faults of OutlivedByFault:    *)
(* between its creation and the handle, in the finally clause, or when the *)
(* process dies.  Every answer, error and soft limit on the way from the   *)
(* handle to the clause reaches it.                                        *)
THEOREM ContainersOutlivedByFault == Spec => OutlivedByFault
  <1>1. SandboxInv /\ [Next]_vars =>
          [\A c \in Calls : ~Outlived(c) /\ Outlived(c)' =>
             \/ ProcessDies(c)
             \/ call[c].pc = "start" /\ StartFails(c)
             \/ call[c].pc = "remove" /\ Remove(c) /\ UNCHANGED box
             \/ /\ call[c].pc \in {"create", "start", "remove"}
                /\ NoAnswer(c) \/ SoftLimit(c)]_vars
    <2>1. ASSUME SandboxInv, Next, NEW c \in Calls, ~Outlived(c), Outlived(c)'
          PROVE  Act(c)
      <3>1. ASSUME NEW d \in Calls, d # c, Act(d) PROVE FALSE
        <4>1. Same(c)
          BY <2>1, <3>1, Frame DEF SandboxInv
        <4>. QED
          BY <2>1, <4>1 DEF Same, Outlived
      <3>2. ~DaemonLost /\ ~DaemonBack
        BY <2>1 DEF DaemonLost, DaemonBack, Outlived
      <3>. QED
        BY <2>1, <3>1, <3>2 DEF Next, Act
    <2>. QED
      BY <2>1, OutlivedStep DEF SandboxInv
  <1>2. Init => SandboxInv
    BY DEF Init, SandboxInv, TypeOK, NewCall, Call, Pc, NoHandle, Box, CallInv, BoxFits,
           ProgramFits, AnswerFits, Truthful, Handle, Polling
  <1>. QED
    BY <1>1, <1>2, SandboxInvNext, PTL DEF Spec, OutlivedByFault
=============================================================================
