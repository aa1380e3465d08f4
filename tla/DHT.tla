-------------------------------- MODULE DHT --------------------------------
(***************************************************************************)
(* The DHT node: tasks that look up nodes and peers or ping a node, the    *)
(* messages they send and wait for, and the routing table that every       *)
(* message changes.                                                        *)
(*                                                                         *)
(* DHTInteractionCommand runs in four stages: it executes tasks, receives  *)
(* messages, handles timeouts and sends what is queued.  Other commands    *)
(* run between its executions, in the first stage.                         *)
(***************************************************************************)
EXTENDS DHTRoutingTable

Multiset == INSTANCE BagsExt

CONSTANTS
    Node,           \* IDs of remote nodes
    HomeOf,         \* [Node -> address]; a node may come back with another ID
    Task, NoTask,   \* names of tasks, and none
    KindOf,         \* [Task -> {"nodeLookup", "peerLookup", "ping"}]
    QueueOf,        \* [Task -> Executor]
    TargetOf,       \* [Task -> ID a lookup looks for, or address to ping]
    Retries,        \* numMaxRetry of a ping
    NumConcurrent,  \* tasks an executor executes at a time
    Alpha,          \* messages of a lookup in flight
    MaxTold,        \* bound on the nodes an answer tells of
    Setups,         \* what may be: [nodes, known, ask, tasks]
    MaxOut          \* bound on the queued messages when a query arrives

Executor == {"periodic1", "periodic2", "immediate"}

ASSUME DHTAssumption ==
    /\ Node \subseteq Id \ {LocalId}
    /\ NumConcurrent \in Nat \ {0} /\ Alpha \in Nat \ {0} /\ Retries \in Nat
    /\ NoTask \notin Task
    /\ \A t \in Task : /\ QueueOf[t] \in Executor
                       /\ KindOf[t] # "ping" => TargetOf[t] \in Id
    /\ \A s \in Setups : /\ s.nodes \subseteq Node /\ s.ask \subseteq Node
                         /\ s.known \in Seq(Node)

VARIABLES
    setup,    \* the nodes there are, those saved by an earlier run, those
              \* that ask us, and the tasks that are begun
    stage,    \* of the execution of DHTInteractionCommand
    table,    \* the leaves of the routing table
    bad,      \* nodes whose condition is bad
    queue,    \* [executor -> tasks that wait]
    exec,     \* [executor -> tasks it executes]
    task,     \* [Task -> the state of the task]
    outq,     \* messages to be sent
    tracked,  \* bag of the queries sent and not answered
    held      \* lookups a download waits for

vars == <<setup, stage, table, bad, queue, exec, task, outq, tracked, held>>

NewTask == [entries |-> <<>>, inflight |-> 0, retry |-> 0, tokens |-> {},
            finished |-> FALSE]

Init ==
    /\ setup \in Setups
    /\ stage = "tasks"
    /\ table = addNodes([table |-> InitTable, bad |-> {}], setup.known).table
    /\ bad = {}
    /\ queue = [x \in Executor |-> <<>>]
    /\ exec = [x \in Executor |-> {}]
    /\ task = [t \in Task |-> NewTask]
    /\ outq = <<>> /\ tracked = EmptyBag
    /\ held = {}

\* Nothing else of a finished task is used.
Finished == [NewTask EXCEPT !.finished = TRUE]

\* A node may be known by its address alone: then its ID is a random one,
\* which is in no bucket.
AddressOf(n) == IF n \in Node THEN HomeOf[n] ELSE n

Query(n, t) == [to |-> n, task |-> t, reply |-> FALSE]

----------------------------------------------------------------------------
(***************************************************************************)
(* Lookups and pings, on w: the state of the task and the messages queued. *)
(***************************************************************************)

\* The first nodes not asked yet are asked, as long as fewer than Alpha
\* messages are in flight.
sendMessage(w, t) ==
    LET entries == w.task.entries
        unused == Keep([i \in DOMAIN entries |-> i],
                       {i \in DOMAIN entries : ~entries[i].used})
        n == Min({Len(unused), Max({0, Alpha - w.task.inflight})})
        now == SubSeq(unused, 1, n)
    IN  [task |-> [w.task EXCEPT
            !.inflight = @ + n,
            !.entries = [i \in DOMAIN entries |->
                [entries[i] EXCEPT !.used = @ \/ i \in ToSet(now)]]],
         outq |-> w.outq \o
            [i \in 1 .. n |-> Query(entries[now[i]].node, t)]]

\* onFinish of a peer lookup: we announce ourselves to the nodes that gave a
\* token.
announcePeer(w, t) ==
    LET told == Keep(w.task.entries, {e \in ToSet(w.task.entries) :
                                        e.used /\ e.node \in w.task.tokens})
    IN  IF KindOf[t] # "peerLookup" THEN w.outq
        ELSE w.outq \o [i \in 1 .. Min({K, Len(told)}) |->
                            Query(told[i].node, NoTask)]

\* Fault: a lookup is over when nobody is left to be asked.
FinishesWhenAllAsked(w0, t) ==
    LET w == sendMessage(w0, t)
    IN  IF \A i \in DOMAIN w.task.entries : w.task.entries[i].used
        THEN [task |-> Finished, outq |-> announcePeer(w, t)]
        ELSE w

sendMessageAndCheckFinish(w0, t) ==
    LET w == sendMessage(w0, t)
    IN  IF w.task.inflight = 0
        THEN [task |-> Finished, outq |-> announcePeer(w, t)]
        ELSE w

\* A ping repeats its one message until it is answered or not worth it.
PingStartup(w, t) == [w EXCEPT !.outq = Append(@, Query(TargetOf[t], t))]
PingReceived(w) == [w EXCEPT !.task = Finished]

PingTimeout(w, t, n) ==
    IF w.task.retry + 1 >= Retries THEN [w EXCEPT !.task = Finished]
    ELSE [w EXCEPT !.task.retry = @ + 1, !.outq = Append(@, Query(n, t))]

startup(w, t) ==
    LET nodes == getClosestKNodes(table, bad, TargetOf[t])
        asked == sendMessage(
            [w EXCEPT !.task.entries =
                [i \in DOMAIN nodes |-> [node |-> nodes[i], used |-> FALSE]]], t)
    IN  IF KindOf[t] = "ping" THEN PingStartup(w, t)
        ELSE IF asked.task.inflight = 0 THEN [w EXCEPT !.task = Finished]
        ELSE asked

\* DHTIDCloser, the XOR metric: the number of the bits in which a differs
\* from key.
Bit(i, l) == MinId(i, l) # MinId(i, l - 1)
Distance(key, a) ==
    LET d[l \in 0 .. IdBits] ==
            IF l = 0 THEN 0
            ELSE 2 * d[l - 1] + IF Bit(a, l) = Bit(key, l) THEN 0 ELSE 1
    IN  d[IdBits]

Nearest(key, ids) ==
    CHOOSE x \in ids : \A y \in ids : Distance(key, x) <= Distance(key, y)

\* The nodes of a lookup after n has answered: its entry has its new ID.
Renamed(entries, n) ==
    [i \in DOMAIN entries |->
        IF AddressOf(entries[i].node) = HomeOf[n]
        THEN [entries[i] EXCEPT !.node = n] ELSE entries[i]]

\* The K nodes of ids that are closest to key, in order.
Closest(key, ids) ==
    LET n == Min({K, Cardinality(ids)})
        rest[i \in 0 .. n] ==
            IF i = 0 THEN ids ELSE rest[i - 1] \ {Nearest(key, rest[i - 1])}
    IN  [i \in 1 .. n |-> Nearest(key, rest[i - 1])]

\* The last of the entries for node x has been asked.
LastUsed(entries, x) ==
    \E i \in DOMAIN entries :
        /\ entries[i].node = x /\ entries[i].used
        /\ \A j \in DOMAIN entries : j > i => entries[j].node # x

\* Fault: of entries for one node the one just told of is kept, as a strict
\* order would have it.
MergeStable(entries, key, n, told) ==
    LET renamed == Renamed(entries, n)
        nodes == Closest(key, told \cup {renamed[i].node : i \in DOMAIN renamed})
    IN  [i \in DOMAIN nodes |->
            [node |-> nodes[i],
             used |-> nodes[i] \notin told /\ LastUsed(renamed, nodes[i])]]

\* The nodes told of are put in front, not asked, and all are sorted and made
\* unique.  Of entries for one node the last is kept: DHTIDCloser says also of
\* equal IDs that one is closer, so that the sort turns them round.
Merge(entries, key, n, told) ==
    LET renamed == Renamed(entries, n)
        nodes == Closest(key, told \cup {renamed[i].node : i \in DOMAIN renamed})
    IN  [i \in DOMAIN nodes |->
            [node |-> nodes[i], used |-> LastUsed(renamed, nodes[i])]]

\* The first entry for node n is removed.
Forget(entries, n) ==
    LET at == {i \in DOMAIN entries : entries[i].node = n}
    IN  IF at = {} THEN entries ELSE RemoveAt(entries, Min(at))

\* The callback of the task whose message node n answered.
onReceived(w, t, n, told) ==
    IF KindOf[t] = "ping" THEN PingReceived(w)
    ELSE sendMessageAndCheckFinish(
        [w EXCEPT !.task.inflight = @ - 1,
                  !.task.tokens = IF KindOf[t] = "peerLookup" THEN @ \cup {n}
                                  ELSE @,
                  !.task.entries = Merge(@, TargetOf[t], n, told)], t)

\* ... and of the one whose message to n was not.
onTimeout(w, t, n) ==
    IF KindOf[t] = "ping" THEN PingTimeout(w, t, n)
    ELSE sendMessageAndCheckFinish(
        [w EXCEPT !.task.inflight = @ - 1,
                  !.task.entries = Forget(@, n)], t)

\* A callback may be missing: nobody waits for the answer to an announce.
Callback(t, w) ==
    IF t = NoTask THEN UNCHANGED <<task, outq>>
    ELSE task' = [task EXCEPT ![t] = w.task] /\ outq' = w.outq

----------------------------------------------------------------------------
(***************************************************************************)
(* The other commands add tasks.                                           *)
(***************************************************************************)
Idle(t) ==
    /\ t \in setup.tasks
    /\ \A x \in Executor : t \notin exec[x] \cup ToSet(queue[x])

AddTasks(ts) ==
    /\ queue' = [x \in DOMAIN queue |->
            queue[x] \o Keep(ts, {t \in Task : QueueOf[t] = x})]
    /\ task' = [t \in Task |-> IF t \in ToSet(ts) THEN NewTask ELSE task[t]]

\* BtPortMessage: a peer tells its DHT port.  Its node is pinged, and our own
\* ID is looked up while there is only one bucket.
PortMessage(t, l) ==
    /\ stage = "tasks"
    /\ KindOf[t] = "ping" /\ Idle(t)
    /\ KindOf[l] = "nodeLookup" /\ QueueOf[l] = "immediate" /\ Idle(l)
    /\ AddTasks(IF Len(table) = 1 THEN <<t, l>> ELSE <<t>>)
    /\ UNCHANGED <<setup, stage, table, bad, exec, outq, tracked, held>>

\* DHTBucketRefreshTask: a node lookup for a bucket not heard of for long.
RefreshBucket(t) ==
    /\ stage = "tasks"
    /\ KindOf[t] = "nodeLookup" /\ QueueOf[t] = "periodic1" /\ Idle(t)
    /\ AddTasks(<<t>>)
    /\ UNCHANGED <<setup, stage, table, bad, exec, outq, tracked, held>>

\* DHTGetPeersCommand: the next lookup is begun some time after the last; to
\* bound the messages, when those of the last are answered or given up.
GetPeers(t) ==
    /\ stage = "tasks"
    /\ KindOf[t] = "peerLookup" /\ t \notin held /\ Idle(t)
    /\ \A e \in BagToSet(tracked) \cup ToSet(outq) : e.task # NoTask
    /\ AddTasks(<<t>>)
    /\ held' = held \cup {t}
    /\ UNCHANGED <<setup, stage, table, bad, exec, outq, tracked>>

GotPeers(t) ==
    /\ stage = "tasks"
    /\ t \in held /\ task[t].finished
    /\ held' = held \ {t}
    /\ task' = IF Idle(t) THEN [task EXCEPT ![t] = NewTask] ELSE task
    /\ UNCHANGED <<setup, stage, table, bad, queue, exec, outq, tracked>>

----------------------------------------------------------------------------
(***************************************************************************)
(* The stages of DHTInteractionCommand.                                    *)
(***************************************************************************)

\* Finished tasks are let go: they are gone unless a download holds them.
LetGo(s, x, done) ==
    [queue |-> s.queue,
     exec |-> [s.exec EXCEPT ![x] = @ \ done],
     task |-> [t \in Task |-> IF t \in done \ held THEN NewTask ELSE s.task[t]],
     outq |-> s.outq]

\* Task t, the first that waits, has been started: w is what came of it.
Begin(s, x, t, w) ==
    [queue |-> [s.queue EXCEPT ![x] = Tail(@)],
     exec |-> [s.exec EXCEPT ![x] = IF w.task.finished THEN @ ELSE @ \cup {t}],
     task |-> [s.task EXCEPT ![t] = IF w.task.finished /\ t \notin held
                                    THEN NewTask ELSE w.task],
     outq |-> w.outq]

StartNext(s, x) ==
    LET t == Head(s.queue[x])
    IN  IF s.queue[x] = <<>> \/ Cardinality(s.exec[x]) >= NumConcurrent THEN s
        ELSE Begin(s, x, t, startup([task |-> s.task[t], outq |-> s.outq], t))

\* DHTTaskExecutor::update of executor x in s.
update(s, x) ==
    LET started[i \in 0 .. Len(s.queue[x])] ==
            IF i = 0 THEN LetGo(s, x, {t \in s.exec[x] : s.task[t].finished})
            ELSE StartNext(started[i - 1], x)
    IN  started[Len(s.queue[x])]

Becomes(s) ==
    queue' = s.queue /\ exec' = s.exec /\ task' = s.task /\ outq' = s.outq

ExecuteTasks ==
    /\ stage = "tasks"
    /\ LET s == [queue |-> queue, exec |-> exec, task |-> task, outq |-> outq]
       IN  Becomes(update(update(update(s, "periodic1"), "periodic2"), "immediate"))
    /\ stage' = "receive"
    /\ UNCHANGED <<setup, table, bad, tracked, held>>

\* What an answer to a message of task t does to the table, before its node
\* is added: only an answer to find_node does something.
doReceivedAction(s, t, told) ==
    IF t # NoTask /\ KindOf[t] = "nodeLookup" THEN addNodes(s, told) ELSE s

\* The answer to e comes from node n, which may have got a new ID: then the
\* old one is dropped.  It tells of other nodes, and those an answer to
\* find_node tells of are added.
Reply(e, n, told) ==
    /\ stage = "receive"
    /\ BagIn(e, tracked) /\ ~e.failed
    /\ HomeOf[n] = AddressOf(e.to)
    /\ tracked' = Multiset!BagRemove(tracked, e)
    /\ LET t == IF e.to \in Node \ {n} THEN DropFromTable(table, e.to)
                ELSE table
           s == doReceivedAction([table |-> t, bad |-> bad], e.task, told)
       IN  /\ bad' = s.bad \ {n}
           /\ table' = addGoodNode(s.table, bad', n)
    /\ Callback(e.task, onReceived([task |-> task[e.task], outq |-> outq],
                                   e.task, n, ToSet(told)))
    /\ UNCHANGED <<setup, stage, queue, exec, held>>

\* Node n asks us; our answer is queued.
Asked(n) ==
    /\ stage = "receive"
    /\ Len(outq) < MaxOut
    /\ outq' = Append(outq, [Query(n, NoTask) EXCEPT !.reply = TRUE])
    /\ bad' = bad \ {n}
    /\ table' = addGoodNode(table, bad', n)
    /\ UNCHANGED <<setup, stage, queue, exec, task, tracked, held>>

\* No answer to e, which may make its node a bad one.
HandleTimeout(e) ==
    /\ tracked' = Multiset!BagRemove(tracked, e)
    /\ \/ UNCHANGED <<table, bad>>
       \/ /\ e.to \in Node
          /\ bad' = bad \cup {e.to}
          /\ table' = DropFromTable(table, e.to)
    /\ Callback(e.task, onTimeout([task |-> task[e.task], outq |-> outq],
                                  e.task, e.to))
    /\ UNCHANGED <<setup, stage, queue, exec, held>>

\* An answer that is an error or does not parse counts as a timeout.
BadReply(e) ==
    /\ stage = "receive" /\ BagIn(e, tracked) /\ ~e.failed
    /\ HandleTimeout(e)

EndReceive ==
    /\ stage = "receive"
    /\ stage' = "timeout"
    /\ UNCHANGED <<setup, table, bad, queue, exec, task, outq, tracked, held>>

TimeOut(e) ==
    /\ stage = "timeout" /\ BagIn(e, tracked)
    /\ HandleTimeout(e)

\* A message that could not be sent has timed out at once.
EndTimeout ==
    /\ stage = "timeout"
    /\ \A e \in BagToSet(tracked) : ~e.failed
    /\ stage' = "send"
    /\ UNCHANGED <<setup, table, bad, queue, exec, task, outq, tracked, held>>

Entry(m, failed) == [to |-> m.to, task |-> m.task, failed |-> failed]

\* Queries are tracked, also those that could not be sent.
Track(b, n, failing) ==
    LET sent[i \in 0 .. n] ==
            IF i = 0 THEN b
            ELSE IF outq[i].reply THEN sent[i - 1]
            ELSE Multiset!BagAdd(sent[i - 1], Entry(outq[i], i \in failing))
    IN  sent[n]

\* The first n messages are sent, until the socket would block.
sendMessages(n, failing) ==
    /\ stage = "send"
    /\ outq' = SubSeq(outq, n + 1, Len(outq))
    /\ tracked' = Track(tracked, n, failing)
    /\ stage' = "tasks"
    /\ UNCHANGED <<setup, table, bad, queue, exec, task, held>>

----------------------------------------------------------------------------
AddsTask ==
    \/ \E t, l \in Task : PortMessage(t, l)
    \/ \E t \in Task : RefreshBucket(t) \/ GetPeers(t) \/ GotPeers(t)

Answered(t) ==
    \E e \in BagToSet(tracked) :
        /\ e.task = t
        /\ \E n \in setup.nodes :
            \E told \in BoundedSeq(setup.nodes \ {n}, MaxTold) :
                Reply(e, n, told)

Receives ==
    \/ \E t \in Task \cup {NoTask} : Answered(t)
    \/ \E e \in BagToSet(tracked) : BadReply(e)
    \/ \E n \in setup.ask : Asked(n)

TimesOut(t) == \E e \in BagToSet(tracked) : e.task = t /\ TimeOut(e)

Sends ==
    \E n \in 0 .. Len(outq) : \E failing \in SUBSET (1 .. n) :
        sendMessages(n, failing)

Next ==
    \/ AddsTask
    \/ ExecuteTasks
    \/ Receives \/ EndReceive
    \/ \E t \in Task \cup {NoTask} : TimesOut(t)
    \/ EndTimeout
    \/ Sends

Spec == Init /\ [][Next]_vars

\* The steps of Next that end a stage, send all messages, and give up or
\* receive an answer to a message of task t, by what they change.
Ends(here, next) == stage = here /\ stage' = next
SendsAll == stage = "send" /\ outq' = <<>> /\ stage' = "tasks"
Leaves(t, here) ==
    /\ stage = here
    /\ \E e \in BagToSet(tracked) :
        e.task = t /\ tracked' = Multiset!BagRemove(tracked, e)

\* The command is executed again and again, its socket can be written to in
\* the end, and a query that is not answered times out.
Fairness ==
    /\ WF_stage(Ends("tasks", "receive"))
    /\ WF_stage(Ends("receive", "timeout"))
    /\ WF_stage(/\ \A e \in BagToSet(tracked) : ~e.failed
                /\ Ends("timeout", "send"))
    /\ SF_stage(SendsAll)
    /\ \A t \in Task \cup {NoTask} : SF_tracked(Leaves(t, "timeout"))

FairSpec == Spec /\ Fairness

----------------------------------------------------------------------------
(***************************************************************************)
(* Properties.                                                             *)
(***************************************************************************)

\* Whatever nodes come, change their IDs and go bad, the buckets divide the
\* IDs among them, hold only nodes of their range and not more than K, and
\* keep nodes waiting only where no place is free and no split possible: the
\* buckets findBucketFor and collectUpward rely on are there.
TableOK == TableWellFormed(table)

\* A node that answers is not lost: a node leaves the table only when it is
\* bad, or when its address answers a query to it with another ID.  A split
\* moves nodes and forgets none.
NodesKept ==
    [][\A n \in TableNodes(table) \ TableNodes(table') :
        \/ n \in bad \cup bad'
        \/ \E e \in BagToSet(tracked) :
            e.to = n /\ tracked' = Multiset!BagRemove(tracked, e)]_vars

\* The messages of task t that are queued, and that are tracked.
QueuedOf(q, t) == {i \in DOMAIN q : q[i].task = t}
TrackedOf(b, t) ==
    UNION {{e} \X (1 .. b[e]) : e \in {e \in BagToSet(b) : e.task = t}}

Outstanding(t) ==
    Cardinality(QueuedOf(outq, t)) + Cardinality(TrackedOf(tracked, t))

Running(t) == t \in exec[QueueOf[t]] /\ ~task[t].finished

\* A callback points to its task, so a task must live until each of its
\* messages has been answered or given up; and it must have one, or nothing
\* would ever end it.  A lookup counts its messages right.
CallbacksAlive ==
    \A t \in Task :
        /\ Outstanding(t) > 0 <=> Running(t)
        /\ KindOf[t] # "ping" => task[t].inflight = Outstanding(t)

\* A task that is executed ends, as long as a node keeps its ID: no message
\* is lost between the queue, the socket and the tracker without the task
\* being told, pings are given up, and a node is not asked again for being
\* told of again.
TasksEnd == \A t \in Task : []<>~Running(t)

=============================================================================
