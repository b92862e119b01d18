-------------------------- MODULE HeartbeatProofs --------------------------
(***************************************************************************)
(* The node table implements the failure detector, for any number of       *)
(* workers and of concurrent detections, and any interval and limit that   *)
(* leave a report its time.                                                *)
(***************************************************************************)
EXTENDS NodeHeartbeat, TLAPS

(* A thread runs in a live process, is never longer in a stage than the    *)
(* stage may last, and took its time after it woke.                        *)
Timely(q) ==
    /\ q.pc # "off" => q.up
    /\ q.pc = "wait" => q.timer <= Interval
    /\ q.pc \in {"register", "save"} => q.timer <= Latency
    /\ q.pc = "save" => q.stamp <= q.timer

Timers == \A n \in Nodes : Timely(proc[n])

(* How old the heartbeat of a steady node is: its last stamp took up to    *)
(* Latency to be saved, and its thread has waited or reported since.       *)
Beating ==
    \A n \in steady :
        /\ proc[n].up
        /\ row[n].status = "online"
        /\ proc[n].pc \in {"wait", "register", "save"}
        /\ proc[n].pc = "wait" => row[n].age <= Latency + proc[n].timer
        /\ proc[n].pc \in {"register", "save"}
              => row[n].age <= Interval + Latency + proc[n].timer

(* Between its two statements a detection has listed all it will mark.     *)
Listed ==
    \A c \in Checkers, n \in Nodes :
        check[c].pc = "mark" /\ row[n].status = "online"
            /\ row[n].age > Limit + check[c].since => n \in check[c].names

HInv == TypeOK /\ Timers /\ Beating /\ SelectSeesFresh /\ Listed

-----------------------------------------------------------------------------
LEMMA Constants ==
  /\ Interval \in Nat /\ Limit \in Nat /\ Latency \in Nat /\ CheckTime \in Nat
  /\ Oldest \in Nat /\ Oldest > Limit + CheckTime
  /\ Latency <= Limit
  BY HeartbeatAssumption, SlackAssumption DEF Oldest

LEMMA InitInv == Init => HInv
  BY Constants DEF Init, HInv, TypeOK, Timers, Timely, Beating, SelectSeesFresh, Listed,
     NoRow, Row, Down, Proc, NoCheck, Check

(* A stamp on its way is no older than Latency.                            *)
LEMMA StampAge ==
  ASSUME TypeOK, Timers, NEW n \in Nodes, proc[n].pc = "save"
  PROVE  /\ proc[n].stamp \in Nat
         /\ proc[n].stamp <= Latency
         /\ proc[n].stamp <= Limit
  <1>. /\ proc[n].stamp \in Nat /\ proc[n].timer \in Nat
       /\ proc[n].stamp <= proc[n].timer /\ proc[n].timer <= Latency
    BY Constants DEF TypeOK, Proc, Timers, Timely
  <1>. QED
    BY Constants

-----------------------------------------------------------------------------
(* What the operations make of a row.                                      *)
Older(r) == [r EXCEPT !.age = IF r.heard /\ @ < Oldest THEN @ + 1 ELSE @]
Off(r) == [r EXCEPT !.status = "offline"]

LEMMA RegisteredRow ==
  ASSUME NEW r \in Row
  PROVE  /\ Registered(r) \in Row
         /\ Registered(r).age = r.age /\ Registered(r).heard = r.heard
         /\ (Registered(r).status = "online") <=> (r.status = "online")
  BY DEF Registered, Row

LEMMA ReportedRow ==
  ASSUME NEW r \in Row, NEW s \in Nat
  PROVE  /\ Reported(r, s) \in Row
         /\ Reported(r, s).age = s /\ Reported(r, s).heard
         /\ Reported(r, s).status = "online"
  BY DEF Reported, Row

LEMMA OffRow ==
  ASSUME NEW r \in Row
  PROVE  Off(r) \in Row /\ Off(r).age = r.age /\ Off(r).heard = r.heard /\ Off(r).status = "offline"
  BY DEF Off, Row

LEMMA OlderRow ==
  ASSUME NEW r \in Row
  PROVE  /\ Older(r) \in Row
         /\ Older(r).heard = r.heard /\ Older(r).status = r.status
         /\ Older(r).age = IF r.heard /\ r.age < Oldest THEN r.age + 1 ELSE r.age
  BY Constants DEF Older, Row

(* And of a worker.                                                        *)
At(q, l) == [q EXCEPT !.pc = l, !.timer = 0, !.stamp = 0]
Ticked(q) == [q EXCEPT !.timer = IF q.pc = "off" THEN @ ELSE @ + 1,
                       !.stamp = IF q.pc = "save" THEN @ + 1 ELSE @]

LEMMA StartRow ==
  /\ Down \in Proc /\ Waiting \in Proc /\ [Down EXCEPT !.up = TRUE] \in Proc
  /\ Waiting.up /\ Waiting.pc = "wait" /\ Waiting.timer = 0
  /\ Down.pc = "off" /\ [Down EXCEPT !.up = TRUE].pc = "off"
  BY DEF Down, Waiting, Proc

LEMMA AtProc ==
  ASSUME NEW q \in Proc, NEW l \in {"off", "wait", "register", "save"}
  PROVE  /\ At(q, l) \in Proc
         /\ At(q, l).pc = l /\ At(q, l).up = q.up
         /\ At(q, l).timer = 0 /\ At(q, l).stamp = 0
  BY DEF At, Proc

LEMMA TickedProc ==
  ASSUME NEW q \in Proc
  PROVE  /\ Ticked(q) \in Proc
         /\ Ticked(q).pc = q.pc /\ Ticked(q).up = q.up
         /\ q.pc # "off" => Ticked(q).timer = q.timer + 1
         /\ q.pc = "save" => Ticked(q).stamp = q.stamp + 1
  <1>. DEFINE timer == IF q.pc = "off" THEN q.timer ELSE q.timer + 1
              stamp == IF q.pc = "save" THEN q.stamp + 1 ELSE q.stamp
  <1>1. timer \in Nat /\ stamp \in Nat
    BY DEF Proc
  <1>2. Ticked(q) = [q EXCEPT !.timer = timer, !.stamp = stamp]
    BY DEF Ticked
  <1>3. /\ Ticked(q) \in Proc
        /\ Ticked(q).pc = q.pc /\ Ticked(q).up = q.up
        /\ Ticked(q).timer = timer /\ Ticked(q).stamp = stamp
    <2>. HIDE DEF timer, stamp
    <2>. QED
      BY <1>1, <1>2 DEF Proc
  <1>. QED
    BY <1>3

LEMMA TypeNext ==
  ASSUME TypeOK, Timers, [Next]_vars
  PROVE  TypeOK'
  <1>. /\ row \in [Nodes -> Row]
       /\ proc \in [Nodes -> Proc]
       /\ steady \in SUBSET Nodes
       /\ check \in [Checkers -> Check]
       /\ \A n \in Nodes : row[n].status = "online" => row[n].heard
    BY DEF TypeOK
  <1>1. ASSUME NEW n \in Nodes, Worker(n)
        PROVE  TypeOK'
    <2>1. row' = [row EXCEPT ![n] = Registered(row[n])] \/ row' = row
      BY <1>1 DEF Worker, WorkerReady, WorkerReadyFails, WorkerShutdown, Exit, Crash, Gone
    <2>2. \/ \E q \in Proc : proc' = [proc EXCEPT ![n] = q]
          \/ proc' = [proc EXCEPT ![n].stop = TRUE]
      BY <1>1, StartRow DEF Worker, WorkerReady, WorkerReadyFails, WorkerShutdown,
         Exit, Crash, Gone
    <2>3. proc' \in [Nodes -> Proc]
      BY <2>2 DEF Proc
    <2>. QED
      BY <1>1, <2>1, <2>3, RegisteredRow
      DEF TypeOK, Worker, WorkerReady, WorkerReadyFails, WorkerShutdown, Exit, Crash, Gone
  <1>2. ASSUME NEW n \in Nodes, Stopped(n) \/ Wake(n) \/ ReportFails(n)
        PROVE  TypeOK'
    <2>1. \E l \in {"off", "wait", "register"} : proc' = [proc EXCEPT ![n] = At(@, l)]
      BY <1>2 DEF Stopped, Wake, ReportFails, Enter, At
    <2>2. proc' \in [Nodes -> Proc]
      BY <2>1, AtProc
    <2>. QED
      BY <1>2, <2>2 DEF TypeOK, Stopped, Wake, ReportFails
  <1>3. ASSUME NEW n \in Nodes, TakeTime(n)
        PROVE  TypeOK'
    <2>1. proc' \in [Nodes -> Proc]
      BY <1>3, Constants DEF TakeTime, Proc
    <2>. QED
      BY <1>3, <2>1, RegisteredRow DEF TypeOK, TakeTime
  <1>4. ASSUME NEW n \in Nodes, Save(n)
        PROVE  TypeOK'
    BY <1>4, StampAge, AtProc, ReportedRow DEF TypeOK, Save, Enter, At
  <1>5. ASSUME NEW n \in Nodes, AdminOffline(n)
        PROVE  TypeOK'
    BY <1>5, OffRow DEF TypeOK, AdminOffline, Off
  <1>6. ASSUME NEW c \in Checkers, Threshold(c) \/ List(c) \/ Select(c) \/ CheckFails(c)
        PROVE  TypeOK'
    <2>1. check' \in [Checkers -> Check]
      BY <1>6, Constants DEF Threshold, List, Select, CheckFails, Stale, NoCheck, Check
    <2>. QED
      BY <1>6, <2>1 DEF TypeOK, Threshold, List, Select, CheckFails
  <1>7. ASSUME NEW c \in Checkers, Mark(c)
        PROVE  TypeOK'
    <2>1. check' \in [Checkers -> Check]
      BY <1>7 DEF Mark, Check
    <2>2. row' = [m \in Nodes |-> IF m \in ToMark(c) THEN Off(row[m]) ELSE row[m]]
      BY <1>7 DEF Mark, Off
    <2>. QED
      BY <1>7, <2>1, <2>2, OffRow DEF TypeOK, Mark
  <1>8. ASSUME Tick
        PROVE  TypeOK'
    <2>1. row' = [n \in Nodes |-> Older(row[n])]
      BY <1>8 DEF Tick, Older
    <2>2. proc' = [n \in Nodes |-> Ticked(proc[n])]
      BY <1>8 DEF Tick, Ticked
    <2>3. \A n \in Nodes : Ticked(proc[n]) \in Proc
      BY TickedProc
    <2>4. check' \in [Checkers -> Check]
      <3>1. ASSUME NEW c \in Checkers
            PROVE  \E k \in Nat : check'[c] = [check[c] EXCEPT !.since = k]
        <4>. DEFINE k == IF check[c].pc = "idle" THEN check[c].since ELSE check[c].since + 1
        <4>1. k \in Nat
          BY DEF Check
        <4>2. check'[c] = [check[c] EXCEPT !.since = k]
          BY <1>8 DEF Tick
        <4>. QED
          BY <4>1, <4>2
      <3>2. check' = [c \in Checkers |-> check'[c]]
        BY <1>8 DEF Tick
      <3>3. \A c \in Checkers : check'[c] \in Check
        BY <3>1 DEF Check
      <3>. QED
        BY <3>2, <3>3
    <2>5. row' \in [Nodes -> Row] /\ \A n \in Nodes : row'[n].status = "online" => row'[n].heard
      BY <2>1, OlderRow
    <2>6. proc' \in [Nodes -> Proc]
      BY <2>2, <2>3
    <2>. QED
      BY <1>8, <2>4, <2>5, <2>6 DEF Tick, TypeOK
  <1>9. CASE UNCHANGED vars
    BY <1>9 DEF vars, TypeOK
  <1>. QED
    BY <1>1, <1>2, <1>3, <1>4, <1>5, <1>6, <1>7, <1>8, <1>9
    DEF Next, Thread, Detect

-----------------------------------------------------------------------------
(* The change of one worker's process, and of its row, spelled out.        *)
LEMMA TimersNext ==
  ASSUME TypeOK, Timers, [Next]_vars
  PROVE  Timers'
  <1>. proc \in [Nodes -> Proc]
    BY DEF TypeOK
  <1>1. ASSUME NEW n \in Nodes, Worker(n)
        PROVE  Timers'
    <2>1. \/ \E q \in {Down, Waiting, [Down EXCEPT !.up = TRUE]} : proc' = [proc EXCEPT ![n] = q]
          \/ proc' = [proc EXCEPT ![n].stop = TRUE]
      BY <1>1 DEF Worker, WorkerReady, WorkerReadyFails, WorkerShutdown, Exit, Crash, Gone
    <2>2. ASSUME NEW q \in {Down, Waiting, [Down EXCEPT !.up = TRUE]},
                 proc' = [proc EXCEPT ![n] = q]
          PROVE  Timers'
      <3>1. Timely(q)
        <4>1. Timely(Down) /\ Timely([Down EXCEPT !.up = TRUE])
          BY StartRow DEF Timely
        <4>2. Timely(Waiting)
          BY StartRow, Constants DEF Timely
        <4>. QED
          BY <4>1, <4>2
      <3>. QED
        BY <2>2, <3>1 DEF Timers
    <2>3. CASE proc' = [proc EXCEPT ![n].stop = TRUE]
      <3>1. Timely(proc'[n])
        BY <2>3 DEF Timers, Timely, Proc
      <3>. QED
        BY <2>3, <3>1 DEF Timers
    <2>. QED
      BY <2>1, <2>2, <2>3
  <1>2. ASSUME NEW n \in Nodes, Stopped(n) \/ Wake(n) \/ ReportFails(n) \/ Save(n)
        PROVE  Timers'
    <2>1. \E l \in {"off", "wait", "register"} : proc' = [proc EXCEPT ![n] = At(@, l)]
      BY <1>2 DEF Stopped, Wake, ReportFails, Save, Enter, At
    <2>2. proc[n].up
      BY <1>2 DEF Timers, Timely, Stopped, Wake, ReportFails, Save
    <2>3. \A l \in {"off", "wait", "register"} : Timely(At(proc[n], l))
      BY <2>2, AtProc, Constants DEF Timely
    <2>. QED
      BY <2>1, <2>3 DEF Timers
  <1>3. ASSUME NEW n \in Nodes, TakeTime(n)
        PROVE  Timers'
    BY <1>3 DEF Timers, Timely, TakeTime, Proc
  <1>4. ASSUME Tick
        PROVE  Timers'
    <2>1. proc' = [n \in Nodes |-> Ticked(proc[n])]
      BY <1>4 DEF Tick, Ticked
    <2>2. ASSUME NEW n \in Nodes
          PROVE  /\ proc[n].timer \in Nat /\ proc[n].stamp \in Nat
                 /\ proc[n].pc = "wait" => proc[n].timer < Interval
                 /\ proc[n].pc \in {"register", "save"} => proc[n].timer < Latency
      BY <1>4 DEF Tick, InTime, Proc
    <2>. QED
      BY <2>1, <2>2, TickedProc, Constants DEF Timers, Timely
  <1>5. CASE UNCHANGED proc
    BY <1>5 DEF Timers, Timely
  <1>. QED
    BY <1>1, <1>2, <1>3, <1>4, <1>5
    DEF Next, Thread, Detect, AdminOffline, Threshold, List, Mark, Select, CheckFails, vars

-----------------------------------------------------------------------------
(* Only its own save makes a row younger or brings it online; only time    *)
(* makes it older.                                                         *)
LEMMA RowChange ==
  ASSUME TypeOK, [Next]_vars, NEW n \in Nodes
  PROVE  \/ /\ row'[n].age = row[n].age
            /\ row'[n].status = "online" => row[n].status = "online"
         \/ Save(n) /\ row'[n].age = proc[n].stamp
         \/ Tick /\ row'[n] = Older(row[n])
  <1>. row \in [Nodes -> Row]
    BY DEF TypeOK
  <1>1. ASSUME NEW m \in Nodes, Worker(m) \/ TakeTime(m)
        PROVE  /\ row'[n].age = row[n].age
               /\ row'[n].status = "online" => row[n].status = "online"
    <2>1. row' = [row EXCEPT ![m] = Registered(row[m])] \/ row' = row
      BY <1>1 DEF Worker, WorkerReady, WorkerReadyFails, WorkerShutdown, Exit, Crash, Gone,
         TakeTime
    <2>. QED
      BY <2>1, RegisteredRow
  <1>2. ASSUME NEW m \in Nodes, Save(m)
        PROVE  IF n = m THEN row'[n].age = proc[n].stamp ELSE row'[n] = row[n]
    <2>1. row' = [row EXCEPT ![m] = Reported(row[m], proc[m].stamp)]
      BY <1>2 DEF Save
    <2>2. proc[m].stamp \in Nat
      BY DEF TypeOK, Proc
    <2>. QED
      BY <2>1, <2>2, ReportedRow
  <1>3. ASSUME NEW m \in Nodes, AdminOffline(m)
        PROVE  /\ row'[n].age = row[n].age
               /\ row'[n].status = "online" => row[n].status = "online"
    BY <1>3, OffRow DEF AdminOffline, Off
  <1>4. ASSUME NEW c \in Checkers, Mark(c)
        PROVE  /\ row'[n].age = row[n].age
               /\ row'[n].status = "online" => row[n].status = "online"
    BY <1>4, OffRow DEF Mark, Off
  <1>5. ASSUME Tick
        PROVE  row'[n] = Older(row[n])
    BY <1>5 DEF Tick, Older
  <1>6. CASE UNCHANGED row
    BY <1>6
  <1>. QED
    BY <1>1, <1>2, <1>3, <1>4, <1>5, <1>6
    DEF Next, Thread, Detect, Stopped, Wake, ReportFails, Threshold, List, Select, CheckFails, vars

(* A failure detection never takes a steady node.                          *)
LEMMA SteadyNotStale ==
  ASSUME HInv, NEW c \in Checkers
  PROVE  ToMark(c) \cap steady = {}
  <1>. SUFFICES ASSUME NEW n \in steady, n \in ToMark(c)
                PROVE  FALSE
    OBVIOUS
  <1>1. /\ row[n].age > Limit + check[c].since
        /\ row[n].age \in Nat /\ check[c].since \in Nat /\ proc[n].timer \in Nat
    BY DEF HInv, TypeOK, Row, Proc, Check, ToMark, Stale
  <1>2. row[n].age <= Interval + 2 * Latency
    BY <1>1, Constants DEF HInv, TypeOK, Beating, Timers, Timely
  <1>. QED
    BY <1>1, <1>2, Constants, SlackAssumption

LEMMA BeatingNext ==
  ASSUME HInv, [Next]_vars
  PROVE  Beating'
  <1>. /\ TypeOK /\ Timers /\ Beating
       /\ row \in [Nodes -> Row] /\ proc \in [Nodes -> Proc] /\ steady \subseteq Nodes
    BY DEF HInv, TypeOK
  <1>. DEFINE Beats(n) == /\ proc[n].up
                          /\ row[n].status = "online"
                          /\ proc[n].pc \in {"wait", "register", "save"}
                          /\ proc[n].pc = "wait" => row[n].age <= Latency + proc[n].timer
                          /\ proc[n].pc \in {"register", "save"}
                                => row[n].age <= Interval + Latency + proc[n].timer
  <1>0. ASSUME NEW n \in steady PROVE Beats(n)
    BY DEF Beating
  <1>. SUFFICES ASSUME NEW n \in steady'
                PROVE  Beats(n)'
    BY DEF Beating
  <1>. n \in Nodes
    BY TypeNext DEF TypeOK
  <1>1. CASE Save(n)
    <2>1. /\ row' = [row EXCEPT ![n] = Reported(row[n], proc[n].stamp)]
          /\ proc' = [proc EXCEPT ![n] = At(@, "wait")]
      BY <1>1 DEF Save, Enter, At
    <2>2. proc[n].stamp \in Nat /\ proc[n].stamp <= Latency
      BY <1>1, StampAge DEF Save
    <2>3. proc[n].up
      BY <1>1 DEF Timers, Timely, Save
    <2>. QED
      BY <2>1, <2>2, <2>3, ReportedRow, AtProc, Constants
  <1>2. CASE Tick
    <2>1. /\ row'[n] = Older(row[n]) /\ proc'[n] = Ticked(proc[n]) /\ n \in steady
      BY <1>2 DEF Tick, Older, Ticked
    <2>2. Beats(n) /\ row[n].age \in Nat /\ proc[n].timer \in Nat
      BY <1>0, <2>1 DEF Row, Proc
    <2>3. row'[n].age <= row[n].age + 1 /\ row'[n].status = row[n].status
      BY <2>1, <2>2, OlderRow, Constants
    <2>4. /\ proc'[n].pc = proc[n].pc /\ proc'[n].up = proc[n].up
          /\ proc'[n].timer = proc[n].timer + 1
      BY <2>1, <2>2, TickedProc
    <2>5. row'[n].age \in Nat
      BY TypeNext, <1>2 DEF TypeOK, Row
    <2>. QED
      BY <2>2, <2>3, <2>4, <2>5, Constants
  <1>3. CASE ~Save(n) /\ ~Tick
    <2>1. n \in steady
      BY <1>3 DEF Next, Worker, WorkerReady, WorkerReadyFails, WorkerShutdown, Exit, Crash, Gone,
         Thread, Stopped, Wake, TakeTime, Save, ReportFails, Enter, AdminOffline,
         Detect, Threshold, List, Mark, Select, CheckFails, vars
    <2>2. Beats(n) /\ row[n].age \in Nat /\ proc[n].timer \in Nat
      BY <1>0, <2>1 DEF Row, Proc
    <2>3. row'[n].age = row[n].age
      BY <1>3, RowChange
    <2>4. row'[n].status = "online"
      <3>1. ASSUME NEW m \in Nodes, Worker(m) \/ TakeTime(m)
            PROVE  row'[n].status = "online"
        <4>1. row' = [row EXCEPT ![m] = Registered(row[m])] \/ row' = row
          BY <3>1 DEF Worker, WorkerReady, WorkerReadyFails, WorkerShutdown, Exit, Crash, Gone,
             TakeTime
        <4>. QED
          BY <4>1, <2>2, RegisteredRow
      <3>2. ASSUME NEW m \in Nodes, Save(m)
            PROVE  row'[n].status = "online"
        BY <3>2, <1>3, <2>2 DEF Save
      <3>3. ASSUME NEW m \in Nodes, AdminOffline(m)
            PROVE  row'[n].status = "online"
        BY <3>3, <2>2 DEF AdminOffline
      <3>4. ASSUME NEW c \in Checkers, Mark(c)
            PROVE  row'[n].status = "online"
        BY <3>4, <2>1, <2>2, SteadyNotStale DEF Mark
      <3>5. CASE UNCHANGED row
        BY <3>5, <2>2
      <3>. QED
        BY <1>3, <3>1, <3>2, <3>3, <3>4, <3>5
        DEF Next, Thread, Detect, Stopped, Wake, ReportFails, Threshold, List, Select,
            CheckFails, vars
    <2>5. \/ proc'[n].pc = proc[n].pc /\ proc'[n].timer = proc[n].timer
          \/ /\ proc[n].pc = "wait" /\ proc'[n].pc = "register"
             /\ proc[n].timer = Interval /\ proc'[n].timer = 0
          \/ /\ proc[n].pc = "register" /\ proc'[n].pc = "save"
             /\ proc'[n].timer = proc[n].timer
      <3>1. ASSUME NEW m \in Nodes, Worker(m)
            PROVE  proc'[n].pc = proc[n].pc /\ proc'[n].timer = proc[n].timer
        BY <3>1, <2>2, <1>3 DEF Worker, WorkerReady, WorkerReadyFails, WorkerShutdown, Exit,
           Crash, Gone, Proc
      <3>2. ASSUME NEW m \in Nodes, Stopped(m) \/ Save(m) \/ ReportFails(m)
            PROVE  proc'[n] = proc[n]
        BY <3>2, <1>3 DEF Stopped, Save, ReportFails, Enter
      <3>3. ASSUME NEW m \in Nodes, Wake(m)
            PROVE  \/ proc'[n] = proc[n]
                   \/ /\ proc[n].pc = "wait" /\ proc'[n].pc = "register"
                      /\ proc[n].timer = Interval /\ proc'[n].timer = 0
        BY <3>3 DEF Wake, Enter, Proc
      <3>4. ASSUME NEW m \in Nodes, TakeTime(m)
            PROVE  \/ proc'[n] = proc[n]
                   \/ /\ proc[n].pc = "register" /\ proc'[n].pc = "save"
                      /\ proc'[n].timer = proc[n].timer
        BY <3>4 DEF TakeTime, Proc
      <3>5. CASE UNCHANGED proc
        BY <3>5
      <3>. QED
        BY <1>3, <3>1, <3>2, <3>3, <3>4, <3>5
        DEF Next, Thread, Detect, AdminOffline, Threshold, List, Mark, Select, CheckFails, vars
    <2>6. proc'[n].up
      BY <2>5, <2>2, TimersNext DEF Timers, Timely
    <2>. QED
      BY <2>2, <2>3, <2>4, <2>5, <2>6, Constants
  <1>. QED
    BY <1>1, <1>2, <1>3

-----------------------------------------------------------------------------
(* A detection moves by steps of its own, or ages.                         *)
LEMMA CheckChange ==
  ASSUME TypeOK, [Next]_vars, NEW c \in Checkers
  PROVE  check'[c] = check[c] \/ Detect(c) \/ CheckFails(c) \/ Tick
  <1>. check \in [Checkers -> Check]
    BY DEF TypeOK
  <1>1. ASSUME NEW d \in Checkers, Detect(d) \/ CheckFails(d), d # c
        PROVE  check'[c] = check[c]
    BY <1>1 DEF Detect, Threshold, List, Mark, Select, CheckFails
  <1>2. CASE UNCHANGED check
    BY <1>2
  <1>. QED
    BY <1>1, <1>2 DEF Next, Worker, WorkerReady, WorkerReadyFails, WorkerShutdown, Exit,
       Crash, Gone, Thread, Stopped, Wake, TakeTime, Save, ReportFails, AdminOffline, vars

LEMMA DetectionSteps ==
  ASSUME TypeOK, NEW c \in Checkers, Detect(c) \/ CheckFails(c)
  PROVE  /\ check[c].pc # "select" /\ check'[c].pc = "select"
               => Mark(c) /\ check'[c].since = check[c].since
         /\ check[c].pc # "mark" /\ check'[c].pc = "mark"
               => /\ List(c) /\ check'[c].since = check[c].since
                  /\ check'[c].names = Stale(c)
         /\ check[c].pc = "select" => check'[c].pc # "select"
         /\ check[c].pc = "mark" => check'[c].pc # "mark"
  <1>. check \in [Checkers -> Check] /\ NoCheck \in Check /\ NoCheck.pc = "idle"
    BY DEF TypeOK, NoCheck, Check
  <1>1. CASE Threshold(c)
    BY <1>1 DEF Threshold, Check
  <1>2. CASE List(c)
    BY <1>2 DEF List, Check
  <1>3. CASE Mark(c)
    BY <1>3 DEF Mark, Check
  <1>4. CASE Select(c) \/ CheckFails(c)
    BY <1>4 DEF Select, CheckFails
  <1>. QED
    BY <1>1, <1>2, <1>3, <1>4 DEF Detect

LEMMA SelectNext ==
  ASSUME HInv, [Next]_vars
  PROVE  SelectSeesFresh'
  <1>. /\ TypeOK /\ Timers /\ SelectSeesFresh /\ TypeOK'
       /\ row \in [Nodes -> Row] /\ check \in [Checkers -> Check]
       /\ \A n \in Nodes : row[n].status = "online" => row[n].heard
    BY TypeNext DEF HInv, TypeOK
  <1>. SUFFICES ASSUME NEW c \in Checkers, NEW n \in Nodes,
                       check'[c].pc = "select", row'[n].status = "online"
                PROVE  row'[n].age <= Limit + check'[c].since
    BY DEF SelectSeesFresh
  <1>. row[n].age \in Nat /\ check[c].since \in Nat /\ check'[c].since \in Nat
    BY DEF TypeOK, Row, Check
  <1>1. CASE Tick
    <2>1. /\ row'[n] = Older(row[n])
          /\ check[c].pc = "select" /\ check'[c].since = check[c].since + 1
      BY <1>1 DEF Tick, Older, Check
    <2>2. row[n].status = "online" /\ row'[n].age <= row[n].age + 1
      BY <2>1, OlderRow, Constants
    <2>3. row'[n].age \in Nat
      BY DEF TypeOK, Row
    <2>. QED
      BY <2>1, <2>2, <2>3, Constants DEF SelectSeesFresh
  <1>2. CASE Save(n) /\ row'[n].age = proc[n].stamp
    BY <1>2, StampAge, Constants DEF Save
  <1>3. CASE ~Tick /\ row'[n].age = row[n].age /\ row[n].status = "online"
    <2>1. CASE check[c].pc = "select"
      <3>1. check'[c].since = check[c].since
        BY <1>3, <2>1, CheckChange, DetectionSteps
      <3>. QED
        BY <1>3, <2>1, <3>1 DEF SelectSeesFresh
    <2>2. CASE check[c].pc # "select"
      <3>1. Mark(c)
        BY <1>3, <2>2, CheckChange, DetectionSteps
      <3>2. n \notin ToMark(c) /\ check'[c].since = check[c].since
        BY <1>3, <2>2, <3>1, CheckChange, DetectionSteps, OffRow DEF Mark, Off
      <3>. QED
        BY <1>3, <3>2, Constants DEF ToMark, Stale
    <2>. QED
      BY <2>1, <2>2
  <1>. QED
    BY <1>1, <1>2, <1>3, RowChange

LEMMA ListedNext ==
  ASSUME HInv, [Next]_vars
  PROVE  Listed'
  <1>. /\ TypeOK /\ Timers /\ Listed /\ TypeOK'
       /\ row \in [Nodes -> Row] /\ check \in [Checkers -> Check]
       /\ \A n \in Nodes : row[n].status = "online" => row[n].heard
    BY TypeNext DEF HInv, TypeOK
  <1>. SUFFICES ASSUME NEW c \in Checkers, NEW n \in Nodes,
                       check'[c].pc = "mark", row'[n].status = "online",
                       row'[n].age > Limit + check'[c].since
                PROVE  n \in check'[c].names
    BY DEF Listed
  <1>. row[n].age \in Nat /\ check[c].since \in Nat /\ check'[c].since \in Nat
    BY DEF TypeOK, Row, Check
  <1>1. CASE Tick
    <2>1. /\ row'[n] = Older(row[n])
          /\ check[c].pc = "mark" /\ check'[c].since = check[c].since + 1
          /\ check'[c].names = check[c].names /\ check[c].since < CheckTime
      BY <1>1 DEF Tick, InTime, Older, Check
    <2>2. row[n].status = "online" /\ row[n].age > Limit + check[c].since
      BY <2>1, OlderRow, Constants
    <2>. QED
      BY <2>1, <2>2 DEF Listed
  <1>2. CASE Save(n) /\ row'[n].age = proc[n].stamp
    BY <1>2, StampAge, Constants DEF Save
  <1>3. CASE ~Tick /\ row'[n].age = row[n].age /\ row[n].status = "online"
    <2>1. CASE check[c].pc = "mark"
      <3>1. check'[c] = check[c]
        BY <1>3, <2>1, CheckChange, DetectionSteps
      <3>. QED
        BY <1>3, <2>1, <3>1 DEF Listed
    <2>2. CASE check[c].pc # "mark"
      <3>1. List(c)
        BY <1>3, <2>2, CheckChange, DetectionSteps
      <3>2. check'[c].names = Stale(c) /\ check'[c].since = check[c].since
        BY <1>3, <2>2, CheckChange, DetectionSteps
      <3>. QED
        BY <1>3, <3>2 DEF Stale
    <2>. QED
      BY <2>1, <2>2
  <1>. QED
    BY <1>1, <1>2, <1>3, RowChange

LEMMA HInvariant == Spec => []HInv
  <1>1. HInv /\ [Next]_vars => HInv'
    BY TypeNext, TimersNext, BeatingNext, SelectNext, ListedNext DEF HInv
  <1>. QED
    BY <1>1, InitInv, PTL DEF Spec

-----------------------------------------------------------------------------
(* The node table keeps its types, and no online node is without a         *)
(* heartbeat: services.py:24-70, celery_events.py:25-56.                   *)
THEOREM TypeCorrect == Spec => []TypeOK
  BY HInvariant, PTL DEF HInv

(* Nobody who has just run failure detection finds a node online that has  *)
(* been silent longer than the limit: services.py:81-91.                   *)
THEOREM SelectsFresh == Spec => []SelectSeesFresh
  BY HInvariant, PTL DEF HInv

(* Nothing is marked offline that the same detection has not listed:       *)
(* services.py:66-70.                                                      *)
THEOREM MarkedIsListed == Spec => NoSilentMark
  <1>1. ASSUME HInv, [Next]_vars, NEW n \in Nodes, NEW c \in Checkers,
               Mark(c), row[n].status = "online", row'[n].status = "offline"
        PROVE  n \in check[c].names
    <2>1. n \in ToMark(c)
      BY <1>1 DEF Mark
    <2>. QED
      BY <1>1, <2>1 DEF HInv, Listed, Mark, ToMark, Stale
  <1>2. HInv /\ [Next]_vars =>
          [\A n \in Nodes, c \in Checkers :
              Mark(c) /\ row[n].status = "online" /\ row'[n].status = "offline"
                  => n \in check[c].names]_vars
    BY <1>1
  <1>. QED
    BY <1>2, HInvariant, PTL DEF Spec, NoSilentMark
-----------------------------------------------------------------------------

(* Under every interleaving, reports that fail included, failure detection *)
(* takes only nodes offline that have not reported steadily: the node      *)
(* table implements the failure detector (services.py:37-70).              *)
THEOREM DetectorImplemented == Spec => ImplementsDetector
  <1>. DEFINE on == {n \in Nodes : row[n].status = "online"}
  <1>1. Init => Detector!DInit
    BY DEF Init, Detector!DInit, NoRow
  <1>2. ASSUME HInv, [Next]_vars
        PROVE  [Detector!DNext]_Detector!dvars
    <2>. /\ TypeOK /\ row \in [Nodes -> Row] /\ steady \subseteq Nodes
      BY <1>2 DEF HInv, TypeOK
    <2>1. ASSUME NEW n \in Nodes, Worker(n) \/ Stopped(n) \/ Wake(n) \/ TakeTime(n) \/ ReportFails(n)
          PROVE  on' = on /\ (steady' = steady \/ steady' = steady \ {n})
      <3>1. row' = [row EXCEPT ![n] = Registered(row[n])] \/ row' = row
        BY <2>1 DEF Worker, WorkerReady, WorkerReadyFails, WorkerShutdown, Exit, Crash, Gone,
           Stopped, Wake, TakeTime, ReportFails
      <3>2. on' = on
        BY <3>1, RegisteredRow
      <3>. QED
        BY <2>1, <3>2 DEF Worker, WorkerReady, WorkerReadyFails, WorkerShutdown, Exit, Crash,
           Gone, Stopped, Wake, TakeTime, ReportFails
    <2>2. ASSUME NEW n \in Nodes, Save(n)
          PROVE  on' = on \cup {n} /\ steady' = steady \cup {n}
      <3>1. /\ row' = [row EXCEPT ![n] = Reported(row[n], proc[n].stamp)]
            /\ proc[n].stamp \in Nat
        BY <2>2 DEF Save, TypeOK, Proc
      <3>. QED
        BY <2>2, <3>1, ReportedRow DEF Save
    <2>3. ASSUME NEW n \in Nodes, AdminOffline(n)
          PROVE  on' = on \ {n} /\ steady' = steady \ {n}
      BY <2>3, OffRow DEF AdminOffline, Off
    <2>4. ASSUME NEW c \in Checkers, Mark(c)
          PROVE  /\ on' = on \ ToMark(c) /\ steady' = steady
                 /\ ToMark(c) \in SUBSET (Nodes \ steady)
      <3>1. row' = [n \in Nodes |-> IF n \in ToMark(c) THEN Off(row[n]) ELSE row[n]]
        BY <2>4 DEF Mark, Off
      <3>2. on' = on \ ToMark(c)
        BY <3>1, OffRow
      <3>3. ToMark(c) \subseteq Nodes
        BY DEF ToMark, Stale
      <3>. QED
        BY <2>4, <1>2, <3>2, <3>3, SteadyNotStale DEF Mark
    <2>5. ASSUME NEW c \in Checkers, Threshold(c) \/ List(c) \/ Select(c) \/ CheckFails(c)
          PROVE  on' = on /\ steady' = steady
      BY <2>5 DEF Threshold, List, Select, CheckFails
    <2>6. CASE Tick
      <3>1. \A n \in Nodes : row'[n].status = row[n].status
        BY <2>6, OlderRow DEF Tick, Older
      <3>. QED
        BY <2>6, <3>1 DEF Tick, Detector!dvars
    <2>7. CASE UNCHANGED vars
      BY <2>7 DEF vars, Detector!dvars
    <2>. HIDE DEF on
    <2>a. ASSUME NEW n \in Nodes, on' = on, steady' = steady \/ steady' = steady \ {n}
          PROVE  [Detector!DNext]_Detector!dvars
      BY <2>a DEF on, Detector!DNext, Detector!Falter, Detector!dvars
    <2>. QED
      BY <1>2, <2>1, <2>2, <2>3, <2>4, <2>5, <2>6, <2>7, <2>a
      DEF on, Next, Thread, Detect, Detector!DNext, Detector!Report, Detector!Dismiss,
          Detector!Suspect, Detector!dvars
  <1>. QED
    BY <1>1, <1>2, HInvariant, PTL DEF Spec, ImplementsDetector, Detector!DetectorSpec
=============================================================================
