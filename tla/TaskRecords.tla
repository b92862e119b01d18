---------------------------- MODULE TaskRecords ----------------------------
(***************************************************************************)
(* What is kept of a task besides its status: error_message, the log of    *)
(* each execution in Elasticsearch (apps/logs/services.py), and how both   *)
(* go when the task is old (the command cleanup_old_tasks).  The module    *)
(* adds these to the steps of TaskGrid; a step of the log index or of the  *)
(* cleanup leaves the queues and the workers alone.                        *)
(***************************************************************************)
EXTENDS TaskGrid

CONSTANTS
    Users,      \* those who create tasks and search logs
    Admins,     \* the ones is_admin() is true of
    OwnerOf,    \* who creates which task
    Cleaners,   \* invocations of cleanup_old_tasks, scheduled or manual
    BatchSize,  \* --batch-size
    EsFails     \* may requests to Elasticsearch fail?

ASSUME RecordsAssumption ==
    /\ OwnerOf \in [Tasks -> Users]
    /\ Admins \subseteq Users
    /\ BatchSize \in Nat \ {0}
    /\ EsFails \in BOOLEAN
    /\ "patch" \notin Env

VARIABLES
    err,      \* is error_message of the row set?
    obj,      \* the task object a process holds in memory
    old,      \* tasks created before the cutoff
    resets,   \* history: how often the failover command has reset each task
    buffer,   \* documents accepted by Elasticsearch and not yet searchable
    index,    \* documents a search or a delete_by_query finds
    stored,   \* history: how many documents of each task were ever accepted
    clean     \* the invocations of cleanup_old_tasks

logVars == <<buffer, index, stored>>
recVars == <<err, obj, old, resets, logVars, clean>>
allVars == <<vars, recVars>>

-----------------------------------------------------------------------------
(* The object in memory, from its refresh to the end of the execution: its *)
(* error_message, and its status once it has an outcome.                   *)
Obj == [status : Terminal \cup {"none"}, err : BOOLEAN]
NoObj == [status |-> "none", err |-> FALSE]
Holds(w) == w.pc \in {"running", "returned", "indexing"}

(* A document; nr stands for the _id Elasticsearch gives it.               *)
Doc == [task : Tasks, nr : Nat, owner : Users, status : Terminal,
        type : {"run", "error"}]

Docs == buffer \cup index

(* An invocation: it has counted the tasks it may delete, is deleting the  *)
(* rows of ids in batches (todo are left), or is about to delete the logs. *)
Clean == [pc : {"idle", "list", "delete", "logs"}, total : Nat,
          ids : SUBSET Tasks, todo : SUBSET Tasks]

NoClean == [pc |-> "idle", total |-> 0, ids |-> {}, todo |-> {}]

(* The types, and that documents have different numbers.                   *)
RecordsTypeOK ==
    /\ err \in [Tasks -> BOOLEAN]
    /\ obj \in [Workers -> Obj]
    /\ old \subseteq Tasks
    /\ resets \in [Tasks -> Nat]
    /\ buffer \subseteq Doc
    /\ index \subseteq Doc
    /\ stored \in [Tasks -> Nat]
    /\ clean \in [Cleaners -> Clean]
    /\ \A p \in Workers : worker[p].pc = "indexing" => obj[p].status \in Terminal

RecordsInit ==
    /\ Init
    /\ err = [t \in Tasks |-> FALSE]
    /\ obj = [p \in Workers |-> NoObj]
    /\ old = {}
    /\ resets = [t \in Tasks |-> 0]
    /\ buffer = {}
    /\ index = {}
    /\ stored = [t \in Tasks |-> 0]
    /\ clean = [c \in Cleaners |-> NoClean]

-----------------------------------------------------------------------------
(* Steps of TaskGrid that touch error_message or the object in memory.     *)

(* refresh_from_db reads error_message with everything else.               *)
RefreshObject(p) ==
    LET t == worker[p].task IN
    /\ Refresh(p)
    /\ obj' = [obj EXCEPT ![p] =
                 IF Exists(t) THEN [NoObj EXCEPT !.err = err[t]] ELSE NoObj]
    /\ UNCHANGED <<err, old, resets, logVars, clean>>

(* What the object says after an outcome: a message is set for failures    *)
(* and cancellations, and never cleared.                                   *)
Outcome(o, s) == [status |-> s, err |-> o.err \/ s \in {"failed", "cancelled"}]

(* The outcome is saved with the object's error_message.                   *)
SaveOutcome(p) ==
    LET t == worker[p].task
        o == Outcome(obj[p], worker[p].out) IN
    /\ SaveResult(p)
    /\ IF worker'[p].pc = "indexing"
         THEN /\ obj' = [obj EXCEPT ![p] = o]
              /\ err' = [err EXCEPT ![t] = o.err]
         ELSE /\ obj' = [obj EXCEPT ![p] = NoObj]
              /\ UNCHANGED err
    /\ UNCHANGED <<old, resets, logVars, clean>>

(* Both handlers save a message with their verdict, and index nothing.     *)
SaveVerdict(p) ==
    LET t == worker[p].task IN
    /\ HandlerSave(p)
    /\ err' = [err EXCEPT ![t] = @ \/ Exists(t)]
    /\ UNCHANGED <<obj, old, resets, logVars, clean>>

(* The failover command notes in the row that the task was rescheduled.    *)
ResetWithMessage(k, t) ==
    /\ Reset(k, t)
    /\ err' = [err EXCEPT ![t] = @ \/ Exists(t)]
    /\ resets' = IF Exists(t) THEN [resets EXCEPT ![t] = @ + 1] ELSE resets
    /\ UNCHANGED <<obj, old, logVars, clean>>

-----------------------------------------------------------------------------
(* The log index.                                                          *)

(* index_task_log, from the object in memory.  The first form goes by the  *)
(* status of the row, whatever it says by now.                             *)
DocOfRow(p) ==
    LET t == worker[p].task IN
    [task |-> t, nr |-> stored[t] + 1, owner |-> OwnerOf[t],
     status |-> db[t].status, type |-> IF obj[p].err THEN "error" ELSE "run"]
DocOf(p) ==
    LET t == worker[p].task IN
    [task |-> t, nr |-> stored[t] + 1, owner |-> OwnerOf[t],
     status |-> obj[p].status, type |-> IF obj[p].err THEN "error" ELSE "run"]

Store(p) ==
    /\ buffer' = buffer \cup {DocOf(p)}
    /\ stored' = [stored EXCEPT ![worker[p].task] = @ + 1]
    /\ UNCHANGED index

(* A failed request is logged and forgotten, and so is the soft time limit *)
(* if it strikes here.                                                     *)
IndexDoc(p) ==
    /\ IndexLog(p)
    /\ \/ Store(p)
       \/ (EsFails \/ "soft_limit" \in Env) /\ UNCHANGED logVars
    /\ obj' = [obj EXCEPT ![p] = NoObj]
    /\ UNCHANGED <<err, old, resets, clean>>

(* The limit strikes just after the document was stored.                   *)
SoftLimitAfterIndex(p) ==
    /\ SoftLimit(p)
    /\ worker[p].pc = "indexing"
    /\ Store(p)
    /\ obj' = [obj EXCEPT ![p] = NoObj]
    /\ UNCHANGED <<err, old, resets, clean>>

(* Elasticsearch makes what it has accepted searchable, once a second.     *)
EsRefresh ==
    /\ buffer # {}
    /\ index' = index \cup buffer
    /\ buffer' = {}
    /\ UNCHANGED <<vars, err, obj, old, resets, stored, clean>>

(* Whose logs u may search, by the filter LogSearchView passes on; without *)
(* it, as in the first form, everybody's.                                  *)
IsAdmin(u) == u \in Admins
OwnersForAll(u) == Users
OwnersFor(u) == IF IsAdmin(u) THEN Users ELSE {u}

(* search_logs for u, who filters by status, and his list of tasks under   *)
(* the same filter.                                                        *)
Hits(u, s) == {d \in index : d.status = s /\ d.owner \in OwnersFor(u)}
Listed(u, s) == {t \in Tasks : db[t].status = s /\ (IsAdmin(u) \/ OwnerOf[t] = u)}

-----------------------------------------------------------------------------
(* Steps of TaskGrid that touch none of this; a process that leaves the    *)
(* execution drops its object.                                             *)
Elsewhere ==
    /\ \/ \E t \in Tasks : Web(t)
       \/ Broker
       \/ NodesCheck
       \/ \E n \in Nodes : Node(n)
       \/ \E k \in Commands : \/ ReschedDetect(k) \/ ReschedQuery(k)
                              \/ ReschedSend(k) \/ ReschedAbort(k)
       \/ \E p \in Workers :
             \/ \E m \in Messages : Receive(p, m)
             \/ Claim(p) \/ Skip(p)
             \/ SandboxReturns(p) \/ CancelPoll(p) \/ SandboxRaises(p)
             \/ HandlerRead(p) \/ Retry(p) \/ Interrupt(p)
    /\ obj' = [p \in Workers |-> IF Holds(worker'[p]) THEN obj[p] ELSE NoObj]
    /\ UNCHANGED <<err, old, resets, logVars, clean>>

-----------------------------------------------------------------------------
(* The cleanup of old tasks, invocation c.                                 *)

Age(t) ==
    /\ Exists(t)
    /\ t \notin old
    /\ old' = old \cup {t}
    /\ UNCHANGED <<vars, err, obj, resets, logVars, clean>>

(* The rows the command asks for.  The first forms ask for old ones in any *)
(* status, and forget CANCELLED.                                           *)
EligibleAnyStatus == old
EligibleNotCancelled == {t \in old : db[t].status \in Terminal \ {"cancelled"}}
Eligible == {t \in old : db[t].status \in Terminal}

(* count() ...                                                             *)
CleanCount(c) ==
    /\ clean[c].pc = "idle"
    /\ Eligible # {}
    /\ clean' = [clean EXCEPT ![c] = [NoClean EXCEPT !.pc = "list",
                                         !.total = Cardinality(Eligible)]]
    /\ UNCHANGED <<vars, err, obj, old, resets, logVars>>

(* ... then the ids, at most so many of them ...                           *)
CleanList(c) ==
    /\ clean[c].pc = "list"
    /\ \E S \in SUBSET Eligible :
          /\ Cardinality(S) <= clean[c].total
          /\ S # Eligible => Cardinality(S) = clean[c].total
          /\ clean' = [clean EXCEPT ![c].pc = IF S = {} THEN "idle" ELSE "delete",
                          ![c].total = 0, ![c].ids = S, ![c].todo = S]
    /\ UNCHANGED <<vars, err, obj, old, resets, logVars>>

(* ... then one batch after the other, whatever the rows have become ...   *)
Cleaned(row) == [NoRow EXCEPT !.status = IF row.status = "none" THEN "none" ELSE "deleted"]

(* The invocation after batch B.  The first form takes the batch off the   *)
(* list of ids.                                                            *)
AfterBatchPopped(c, B) ==
    [clean[c] EXCEPT !.todo = @ \ B, !.ids = @ \ B,
                     !.pc = IF clean[c].todo = B THEN "logs" ELSE "delete"]
AfterBatch(c, B) ==
    [clean[c] EXCEPT !.todo = @ \ B,
                     !.pc = IF clean[c].todo = B THEN "logs" ELSE "delete"]

CleanBatch(c) ==
    /\ clean[c].pc = "delete"
    /\ \E B \in SUBSET clean[c].todo :
          /\ Cardinality(B) <= BatchSize
          /\ B # clean[c].todo => Cardinality(B) = BatchSize
          /\ db' = [t \in Tasks |-> IF t \in B THEN Cleaned(db[t]) ELSE db[t]]
          /\ clean' = [clean EXCEPT ![c] = AfterBatch(c, B)]
    /\ UNCHANGED <<snap, brokerVars, worker, nodeVars, resched,
                   err, obj, old, resets, logVars>>

(* ... and last the logs, as far as they can be found.                     *)
CleanLogs(c) ==
    /\ clean[c].pc = "logs"
    /\ \/ index' = {d \in index : d.task \notin clean[c].ids}
       \/ EsFails /\ UNCHANGED index
    /\ clean' = [clean EXCEPT ![c] = NoClean]
    /\ UNCHANGED <<vars, err, obj, old, resets, buffer, stored>>

(* A database error ends the command; the scheduled task swallows it.      *)
CleanFails(c) ==
    /\ "db" \in Env
    /\ clean[c].pc \in {"list", "delete"}
    /\ clean' = [clean EXCEPT ![c] = NoClean]
    /\ UNCHANGED <<vars, err, obj, old, resets, logVars>>

Cleanup(c) == CleanCount(c) \/ CleanList(c) \/ CleanBatch(c) \/ CleanLogs(c)

RecordsNext ==
    \/ Elsewhere
    \/ \E p \in Workers : \/ RefreshObject(p) \/ SaveOutcome(p) \/ SaveVerdict(p)
                          \/ IndexDoc(p) \/ SoftLimitAfterIndex(p)
    \/ \E t \in Tasks : Age(t) \/ \E k \in Commands : ResetWithMessage(k, t)
    \/ EsRefresh
    \/ \E c \in Cleaners : Cleanup(c) \/ CleanFails(c)

RecordsSpec == RecordsInit /\ [][RecordsNext]_allVars

(* The scheduled cleanup is run again and again, and comes to its end.     *)
RecordsLiveSpec == RecordsSpec /\ \A c \in Cleaners : WF_allVars(Cleanup(c))

-----------------------------------------------------------------------------
(* What a user finds in the logs he finds in his list of tasks too, under  *)
(* the same status, unless the task is gone or failover has reset it: the  *)
(* document is written after the row, from the same object                 *)
(* (tasks.py:104-117, logs/services.py:61-75, 78-129, logs/views.py:26).   *)
SearchMatchesList ==
    \A u \in Users, s \in Terminal : \A d \in Hits(u, s) :
        Exists(d.task) /\ resets[d.task] = 0 => d.task \in Listed(u, s)

(* An execution is logged at most once, although its process may be        *)
(* interrupted and its message retried or duplicated (tasks.py:117, 148):  *)
(* every further log takes one more failover.                              *)
LoggedOnce == \A t \in Tasks : stored[t] <= 1 + resets[t]

(* The log type tells failures and cancellations from the other outcomes   *)
(* (logs/services.py:68), as long as failover leaves the task alone.       *)
TypeTellsOutcome ==
    \A d \in Docs : resets[d.task] = 0 =>
        (d.type = "error" <=> d.status \in {"failed", "cancelled"})

(* The cleanup deletes finished tasks only (cleanup_old_tasks.py:51-73):   *)
(* between its query and its batches no request and no worker revives a    *)
(* task.  Failover can, and its message is then in the row.                *)
CleanupDeletesFinished ==
    [][\A c \in Cleaners : \A t \in clean[c].todo :
          t \notin clean'[c].todo /\ clean'[c].pc # "idle"
              => db[t].status \in Terminal \cup {"deleted"} \/ resets[t] > 0]_allVars

(* A document whose task is gone and that no invocation is still to delete *)
(* stays for ever.  Only these steps leave t such documents: the user's    *)
(* DELETE, a log written after the row was deleted, an invocation that     *)
(* breaks off, and a delete_by_query that fails or that comes before what  *)
(* is stored can be found.                                                 *)
Leftover(t) ==
    /\ db[t].status = "deleted"
    /\ \E d \in Docs : d.task = t
    /\ \A c \in Cleaners : t \notin clean[c].ids

Leaves(t) ==
    \/ Destroy(t)
    \/ \E p \in Workers : worker[p].task = t /\ (IndexDoc(p) \/ SoftLimitAfterIndex(p))
    \/ \E c \in Cleaners :
          /\ t \in clean[c].ids
          /\ \/ CleanFails(c)
             \/ /\ CleanLogs(c)
                /\ \/ EsFails /\ index' = index
                   \/ \E d \in buffer : d.task = t

(* The batches of the cleanup, and several invocations of it among workers *)
(* and users, leave no document of a deleted task otherwise                *)
(* (cleanup_old_tasks.py:61-80, logs/services.py:136-147).                 *)
LogsOutliveTask ==
    [][\A t \in Tasks : ~Leftover(t) /\ Leftover(t)' => Leaves(t)]_allVars

(* The rows, with the processes at work on each and the resets of the     *)
(* failover command, implement the abstract attempts.                      *)
Attempts == INSTANCE TaskAttempts
                WITH Limit <- Cardinality(Commands),
                     Manual <- "status" \in Env,
                     status <- [t \in Tasks |-> db[t].status],
                     executors <- [t \in Tasks |-> Executors(t)],
                     revived <- resets

ImplementsAttempts == Attempts!AttemptsSpec

(* An old task does not stay (celery.py:27-34, tasks.py:155-156): every    *)
(* status transit() calls terminal is one the cleanup asks for, and what   *)
(* one invocation leaves undone the next one finds, unless all fail.       *)
OldTasksGo ==
    (\A c \in Cleaners : <>[][~CleanFails(c)]_allVars) =>
        \A t \in Tasks : t \in old /\ db[t].status \in Terminal
            ~> db[t].status \notin Terminal
=============================================================================
