----------------------------- MODULE MapReduce -----------------------------
(***************************************************************************)
(* The MapReduce of code/src/mr: a coordinator that hands out map and then *)
(* reduce tasks, hands a task out again when it has been on the fly for    *)
(* ten seconds, and workers that may be slow or crash anywhere.  Workers   *)
(* exchange data through files, each written aside and renamed.            *)
(*                                                                         *)
(* The content of mr-i-j is fixed by the input, so only its being there is *)
(* modelled; the content of mr-out-j is the set of map tasks whose data it *)
(* holds.  A call of HandleRequestTask is one step: the handler holds the  *)
(* lock throughout and the worker does nothing else meanwhile.             *)
(***************************************************************************)
EXTENDS Integers, FiniteSets

CONSTANTS
    Worker,      \* the worker processes
    Unreliable,  \* the ones that may crash
    nMap,        \* number of input files
    nReduce,     \* number of reduce tasks
    Nil          \* no output file

ASSUME WorkerAssumption == Unreliable \subseteq Worker
ASSUME TaskAssumption == nMap \in Nat \ {0} /\ nReduce \in Nat \ {0}

VARIABLES
    mapStatus, reduceStatus,    \* status of every task
    mapOverdue, reduceOverdue,  \* tasks handed out more than ten seconds ago
    isDone,                     \* the coordinator's isDone
    exited,                     \* the coordinator process has ended
    worker,                     \* worker[w]: where worker w is
    intermediate,               \* the files mr-i-j
    out                         \* out[j]: the file mr-out-j

coordinator == <<mapStatus, reduceStatus, mapOverdue, reduceOverdue, isDone>>
files == <<intermediate, out>>
vars == <<coordinator, exited, worker, files>>

MapTask == 0 .. nMap - 1
ReduceTask == 0 .. nReduce - 1
TaskStatus == {"InStore", "OnFly", "Finished"}

-----------------------------------------------------------------------------
(* the coordinator *)

(* variant: every task has been handed out *)
handedOut(status) == \A i \in DOMAIN status : status[i] # "InStore"

allFinished(status) == \A i \in DOMAIN status : status[i] = "Finished"

(* variant: of the map tasks, only handing them out is waited for *)
allMapHandedOut == handedOut(mapStatus)
allMapDone == allFinished(mapStatus)

(* variant: of the reduce tasks, only handing them out is waited for *)
allReduceHandedOut == handedOut(reduceStatus)
allReduceDone == allFinished(reduceStatus)

allDone == allMapDone /\ allReduceDone

(* variant: a task is handed out once *)
availableOnce(status, overdue, i) == status[i] = "InStore"

(* variant: only the time is looked at *)
availableByTime(status, overdue, i) == status[i] = "InStore" \/ i \in overdue

available(status, overdue, i) ==
    status[i] = "InStore" \/ (status[i] = "OnFly" /\ i \in overdue)

(* the loop over the tasks stops at the first it can hand out *)
first(status, overdue, i) ==
    /\ available(status, overdue, i)
    /\ \A k \in 0 .. i - 1 : ~available(status, overdue, k)

nothing(status, overdue) ==
    \A i \in DOMAIN status : ~available(status, overdue, i)

doing(pc, i) == [pc |-> pc, task |-> i, next |-> 0, data |-> {}]
at(pc) == doing(pc, 0)

(* HandleRequestTask with RequestType Get, by what it replies *)
getMap(w, i) ==
    /\ worker[w].pc = "request" /\ ~exited
    /\ ~allMapDone /\ first(mapStatus, mapOverdue, i)
    /\ mapStatus' = [mapStatus EXCEPT ![i] = "OnFly"]
    /\ mapOverdue' = mapOverdue \ {i}
    /\ worker' = [worker EXCEPT ![w] = doing("map", i)]
    /\ UNCHANGED <<reduceStatus, reduceOverdue, isDone, exited, files>>

getReduce(w, i) ==
    /\ worker[w].pc = "request" /\ ~exited
    /\ allMapDone /\ ~allReduceDone /\ first(reduceStatus, reduceOverdue, i)
    /\ reduceStatus' = [reduceStatus EXCEPT ![i] = "OnFly"]
    /\ reduceOverdue' = reduceOverdue \ {i}
    /\ worker' = [worker EXCEPT ![w] = doing("reduce", i)]
    /\ UNCHANGED <<mapStatus, mapOverdue, isDone, exited, files>>

getWait(w) ==
    /\ worker[w].pc = "request" /\ ~exited
    /\ \/ ~allMapDone /\ nothing(mapStatus, mapOverdue)
       \/ allMapDone /\ ~allReduceDone /\ nothing(reduceStatus, reduceOverdue)
    /\ worker' = [worker EXCEPT ![w] = at("wait")]
    /\ UNCHANGED <<coordinator, exited, files>>

getDone(w) ==
    /\ worker[w].pc = "request" /\ ~exited
    /\ allDone
    /\ isDone' = TRUE
    /\ worker' = [worker EXCEPT ![w] = at("returned")]
    /\ UNCHANGED <<mapStatus, reduceStatus, mapOverdue, reduceOverdue, exited, files>>

(* HandleRequestTask with RequestType Put *)
putMap(w) ==
    /\ worker[w].pc = "mapped" /\ ~exited
    /\ mapStatus' = [mapStatus EXCEPT ![worker[w].task] = "Finished"]
    /\ worker' = [worker EXCEPT ![w] = at("request")]
    /\ UNCHANGED <<reduceStatus, mapOverdue, reduceOverdue, isDone, exited, files>>

putReduce(w) ==
    /\ worker[w].pc = "reduced" /\ ~exited
    /\ reduceStatus' = [reduceStatus EXCEPT ![worker[w].task] = "Finished"]
    /\ UNCHANGED mapStatus
    /\ isDone' = (isDone \/ allDone')
    /\ worker' = [worker EXCEPT ![w] = at("request")]
    /\ UNCHANGED <<mapOverdue, reduceOverdue, exited, files>>

(* ten seconds pass *)
mapTimeout(i) ==
    /\ mapStatus[i] = "OnFly" /\ i \notin mapOverdue
    /\ mapOverdue' = mapOverdue \cup {i}
    /\ UNCHANGED <<mapStatus, reduceStatus, reduceOverdue, isDone, exited, worker, files>>

reduceTimeout(i) ==
    /\ reduceStatus[i] = "OnFly" /\ i \notin reduceOverdue
    /\ reduceOverdue' = reduceOverdue \cup {i}
    /\ UNCHANGED <<mapStatus, reduceStatus, mapOverdue, isDone, exited, worker, files>>

(* mrcoordinator polls Done, and ends *)
Done ==
    /\ isDone /\ ~exited
    /\ exited' = TRUE
    /\ UNCHANGED <<coordinator, worker, files>>

-----------------------------------------------------------------------------
(* the workers *)

(* the sleep of five seconds *)
sleep(w) ==
    /\ worker[w].pc = "wait"
    /\ worker' = [worker EXCEPT ![w] = at("request")]
    /\ UNCHANGED <<coordinator, exited, files>>

(* a call finds no coordinator: log.Fatal in call, or the worker returns *)
callFails(w) ==
    /\ worker[w].pc \in {"request", "mapped", "reduced"} /\ exited
    /\ worker' = [worker EXCEPT ![w] = at("returned")]
    /\ UNCHANGED <<coordinator, exited, files>>

(* variant: one file too many *)
DoMapOneMore(w) ==
    LET i == worker[w].task
        j == worker[w].next
    IN
    /\ worker[w].pc = "map"
    /\ intermediate' = intermediate \cup {<<i, j>>}
    /\ worker' = [worker EXCEPT ![w] =
          IF j = nReduce THEN doing("mapped", i) ELSE [@ EXCEPT !.next = j + 1]]
    /\ UNCHANGED <<coordinator, exited, out>>

(* DoMap: the intermediate files are complete when the first is renamed *)
DoMap(w) ==
    LET i == worker[w].task
        j == worker[w].next
    IN
    /\ worker[w].pc = "map"
    /\ intermediate' = intermediate \cup {<<i, j>>}
    /\ worker' = [worker EXCEPT ![w] =
          IF j = nReduce - 1 THEN doing("mapped", i) ELSE [@ EXCEPT !.next = j + 1]]
    /\ UNCHANGED <<coordinator, exited, out>>

(* variant: the output is written where it will be read, without a rename *)
readInPlace(w) ==
    LET i == worker[w].next
        j == worker[w].task
    IN
    /\ worker[w].pc = "reduce" /\ i < nMap
    /\ worker' = [worker EXCEPT ![w] =
          IF <<i, j>> \in intermediate
          THEN [worker[w] EXCEPT !.next = i + 1, !.data = worker[w].data \cup {i}]
          ELSE at("fatal")]
    /\ out' = [out EXCEPT ![j] = worker[w].data]
    /\ UNCHANGED <<coordinator, exited, intermediate>>

(* DoReduce: the intermediate files are read one after the other; a missing one
   ends the worker *)
readIntermediate(w) ==
    LET i == worker[w].next
        j == worker[w].task
    IN
    /\ worker[w].pc = "reduce" /\ i < nMap
    /\ worker' = [worker EXCEPT ![w] =
          IF <<i, j>> \in intermediate
          THEN [worker[w] EXCEPT !.next = i + 1, !.data = worker[w].data \cup {i}]
          ELSE at("fatal")]
    /\ UNCHANGED <<coordinator, exited, files>>

(* DoReduce: the output is renamed *)
renameOutput(w) ==
    /\ worker[w].pc = "reduce" /\ worker[w].next = nMap
    /\ out' = [out EXCEPT ![worker[w].task] = worker[w].data]
    /\ worker' = [worker EXCEPT ![w] = doing("reduced", worker[w].task)]
    /\ UNCHANGED <<coordinator, exited, intermediate>>

crash(w) ==
    /\ w \in Unreliable /\ worker[w].pc \notin {"returned", "crashed", "fatal"}
    /\ worker' = [worker EXCEPT ![w] = at("crashed")]
    /\ UNCHANGED <<coordinator, exited, files>>

-----------------------------------------------------------------------------
(* MakeCoordinator, and workers at the top of their loop *)
Init ==
    /\ mapStatus = [i \in MapTask |-> "InStore"]
    /\ reduceStatus = [j \in ReduceTask |-> "InStore"]
    /\ mapOverdue = {} /\ reduceOverdue = {}
    /\ isDone = FALSE /\ exited = FALSE
    /\ worker = [w \in Worker |-> at("request")]
    /\ intermediate = {}
    /\ out = [j \in ReduceTask |-> Nil]

(* one turn of the loop in Worker, step by step *)
workerStep(w) ==
    \/ \E i \in MapTask : getMap(w, i)
    \/ \E j \in ReduceTask : getReduce(w, j)
    \/ getWait(w) \/ getDone(w) \/ putMap(w) \/ putReduce(w)
    \/ sleep(w) \/ callFails(w)
    \/ DoMap(w) \/ readIntermediate(w) \/ renameOutput(w)

(* the job is over *)
over ==
    /\ exited /\ \A w \in Worker : worker[w].pc \in {"returned", "crashed"}
    /\ UNCHANGED vars

Next ==
    \/ \E w \in Worker : workerStep(w) \/ crash(w)
    \/ \E i \in MapTask : mapTimeout(i)
    \/ \E j \in ReduceTask : reduceTimeout(j)
    \/ Done \/ over

Spec == Init /\ [][Next]_vars

(* time passes, mrcoordinator polls, and the workers that do not crash run *)
FairSpec ==
    /\ Spec
    /\ \A w \in Worker \ Unreliable : WF_vars(workerStep(w))
    /\ \A i \in MapTask : WF_vars(mapTimeout(i))
    /\ \A j \in ReduceTask : WF_vars(reduceTimeout(j))
    /\ WF_vars(Done)

-----------------------------------------------------------------------------
PC == {"request", "wait", "map", "mapped", "reduce", "reduced", "returned",
       "crashed", "fatal"}

WorkerState == [pc : PC, task : Nat, next : Nat, data : SUBSET MapTask]

CoordinatorOK ==
    /\ mapStatus \in [MapTask -> TaskStatus]
    /\ reduceStatus \in [ReduceTask -> TaskStatus]
    /\ mapOverdue \subseteq MapTask /\ reduceOverdue \subseteq ReduceTask
    /\ isDone \in BOOLEAN /\ exited \in BOOLEAN

WorkersOK ==
    /\ worker \in [Worker -> WorkerState]
    /\ \A w \in Worker :
          /\ worker[w].pc \in {"map", "mapped"} => worker[w].task \in MapTask
          /\ worker[w].pc \in {"reduce", "reduced"} => worker[w].task \in ReduceTask
          /\ worker[w].pc = "map" => worker[w].next < nReduce
          /\ worker[w].pc = "reduce" => worker[w].next <= nMap

FilesOK ==
    /\ intermediate \subseteq MapTask \X ReduceTask
    /\ out \in [ReduceTask -> (SUBSET MapTask) \cup {Nil}]

(* The fields hold what their Go types and their use allow: in particular no
   loop runs past its tasks. *)
TypeOK == CoordinatorOK /\ WorkersOK /\ FilesOK

(* "cannot open intermediate file" never happens: however tasks are repeated,
   whoever crashes, a reduce task starts after all of its input is in place. *)
NoMissingInput == \A w \in Worker : worker[w].pc # "fatal"

(* test-mr.sh, early exit: when a worker has returned or the coordinator ends,
   every output file is there with the data of every input file. *)
OutputComplete ==
    (exited \/ \E w \in Worker : worker[w].pc = "returned") =>
       \A j \in ReduceTask : out[j] = MapTask

(* An output file never changes once it is there, though its task may be done
   twice, by a worker believed dead and by the one that took over. *)
OutputFinal == [][\A j \in ReduceTask : out[j] # Nil => out'[j] = out[j]]_vars

(* A finished task is never handed out again. *)
FinishedIsFinal ==
    [][/\ \A i \in MapTask : mapStatus[i] = "Finished" => mapStatus'[i] = "Finished"
       /\ \A j \in ReduceTask :
             reduceStatus[j] = "Finished" => reduceStatus'[j] = "Finished"]_vars

(* The job ends and every worker that does not crash returns, whatever the others
   do. *)
JobFinishes ==
    <>(exited /\ \A w \in Worker \ Unreliable : worker[w].pc = "returned")
=============================================================================
