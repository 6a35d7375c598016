-------------------------- MODULE MapReduceProofs --------------------------
(***************************************************************************)
(* What MapReduce guarantees for any number of workers, input files and    *)
(* reduce tasks.                                                           *)
(***************************************************************************)
EXTENDS MapReduce, TLAPS

(* a worker that says its map task is done, or the coordinator that believes it,
   has all of the task's files behind it *)
MapsOK ==
    /\ \A i \in MapTask : mapStatus[i] = "Finished" =>
          \A j \in ReduceTask : <<i, j>> \in intermediate
    /\ \A w \in Worker :
          /\ worker[w].pc = "map" =>
                \A j \in 0 .. worker[w].next - 1 : <<worker[w].task, j>> \in intermediate
          /\ worker[w].pc = "mapped" =>
                \A j \in ReduceTask : <<worker[w].task, j>> \in intermediate

(* reduce tasks run on complete input; what is there of the output is complete *)
ReducesOK ==
    /\ \A j \in ReduceTask : out[j] \in {Nil, MapTask}
    /\ \A j \in ReduceTask : reduceStatus[j] = "Finished" => out[j] = MapTask
    /\ \A w \in Worker :
          /\ worker[w].pc \in {"reduce", "reduced"} => allMapDone
          /\ worker[w].pc = "reduce" => worker[w].data = 0 .. worker[w].next - 1
          /\ worker[w].pc = "reduced" => out[worker[w].task] = MapTask
          /\ worker[w].pc # "fatal"

(* the end is announced when all is done *)
EndOK ==
    /\ isDone => allDone
    /\ exited => isDone
    /\ \A w \in Worker : worker[w].pc = "returned" => allDone

Inv == TypeOK /\ MapsOK /\ ReducesOK /\ EndOK

(* A worker between two steps of its loop has a proper state. *)
LEMMA doingOK == ASSUME NEW pc \in PC, NEW i \in Nat
                 PROVE  /\ doing(pc, i) \in WorkerState
                        /\ doing(pc, i).pc = pc /\ doing(pc, i).task = i
                        /\ doing(pc, i).next = 0 /\ doing(pc, i).data = {}
BY DEF doing, WorkerState

(* The first hand-out: nothing is done, nobody works. *)
LEMMA InitOK == Init => Inv
<1> SUFFICES ASSUME Init PROVE Inv
  OBVIOUS
<1>1. /\ at("request") \in WorkerState
      /\ at("request").pc = "request"
  BY doingOK DEF at, PC
<1>2. TypeOK
  BY <1>1 DEF Init, TypeOK, CoordinatorOK, WorkersOK, FilesOK, TaskStatus
<1>3. MapsOK /\ ReducesOK
  BY <1>1 DEF Init, MapsOK, ReducesOK
<1>4. EndOK
  BY <1>1 DEF Init, EndOK
<1> QED BY <1>2, <1>3, <1>4 DEF Inv

(* A worker that turns to something without a task keeps the invariant. *)
LEMMA idleOK ==
    ASSUME Inv, NEW w \in Worker,
           NEW pc \in {"request", "wait", "returned", "crashed"},
           worker' = [worker EXCEPT ![w] = at(pc)],
           pc = "returned" => allDone,
           isDone' \in BOOLEAN, isDone => isDone', isDone' => allDone,
           UNCHANGED <<mapStatus, reduceStatus, mapOverdue, reduceOverdue, exited, files>>
    PROVE  Inv'
<1> USE DEF Inv
<1>1. at(pc) \in WorkerState /\ at(pc).pc = pc
  BY doingOK DEF at, PC
<1>2. /\ worker' \in [Worker -> WorkerState]
      /\ \A v \in Worker : worker'[v] = IF v = w THEN at(pc) ELSE worker[v]
  BY <1>1 DEF TypeOK, WorkersOK
<1>3. allMapDone' = allMapDone /\ allDone' = allDone
  BY DEF allMapDone, allReduceDone, allDone, allFinished
<1>4. TypeOK'
  BY <1>1, <1>2 DEF TypeOK, CoordinatorOK, WorkersOK, FilesOK, files
<1>5. MapsOK'
  BY <1>1, <1>2 DEF MapsOK, files
<1>6. ReducesOK'
  BY <1>1, <1>2, <1>3 DEF ReducesOK, files
<1>7. EndOK'
  BY <1>1, <1>2, <1>3 DEF EndOK
<1> QED BY <1>4, <1>5, <1>6, <1>7

(* Handing out a map task keeps the invariant: no reduce task is being done. *)
LEMMA getMapOK == ASSUME Inv, NEW w \in Worker, NEW i \in MapTask, getMap(w, i)
                  PROVE  Inv'
<1> USE DEF Inv
<1>1. /\ doing("map", i) \in WorkerState
      /\ doing("map", i).pc = "map" /\ doing("map", i).task = i /\ doing("map", i).next = 0
  BY doingOK DEF PC, MapTask
<1>2. /\ worker' \in [Worker -> WorkerState]
      /\ \A v \in Worker : worker'[v] = IF v = w THEN doing("map", i) ELSE worker[v]
  BY <1>1 DEF getMap, TypeOK, WorkersOK
<1>3. /\ ~allMapDone /\ ~isDone /\ ~exited
      /\ \A v \in Worker : worker[v].pc \notin {"reduce", "reduced", "returned"}
  BY DEF getMap, ReducesOK, EndOK, allDone
<1>4. TypeOK'
  BY <1>1, <1>2, TaskAssumption
     DEF getMap, TypeOK, CoordinatorOK, WorkersOK, FilesOK, files, TaskStatus
<1>5. MapsOK'
  BY <1>1, <1>2 DEF getMap, MapsOK, TypeOK, CoordinatorOK, files
<1>6. ReducesOK'
  BY <1>1, <1>2, <1>3 DEF getMap, ReducesOK, files
<1>7. EndOK'
  BY <1>1, <1>2, <1>3 DEF getMap, EndOK
<1> QED BY <1>4, <1>5, <1>6, <1>7

(* Handing out a reduce task keeps the invariant. *)
LEMMA getReduceOK == ASSUME Inv, NEW w \in Worker, NEW j \in ReduceTask, getReduce(w, j)
                     PROVE  Inv'
<1> USE DEF Inv
<1>1. /\ doing("reduce", j) \in WorkerState
      /\ doing("reduce", j).pc = "reduce" /\ doing("reduce", j).task = j
      /\ doing("reduce", j).next = 0 /\ doing("reduce", j).data = {}
  BY doingOK DEF PC, ReduceTask
<1>2. /\ worker' \in [Worker -> WorkerState]
      /\ \A v \in Worker : worker'[v] = IF v = w THEN doing("reduce", j) ELSE worker[v]
  BY <1>1 DEF getReduce, TypeOK, WorkersOK
<1>3. /\ allMapDone /\ allMapDone' = allMapDone /\ ~isDone /\ ~exited
      /\ \A v \in Worker : worker[v].pc # "returned"
  BY DEF getReduce, EndOK, allDone, allMapDone, allFinished
<1>4. TypeOK'
  BY <1>1, <1>2, TaskAssumption
     DEF getReduce, TypeOK, CoordinatorOK, WorkersOK, FilesOK, files, TaskStatus
<1>5. MapsOK'
  BY <1>1, <1>2 DEF getReduce, MapsOK, files
<1>6. ReducesOK'
  <2>1. 0 .. 0 - 1 = {}
    OBVIOUS
  <2> QED BY <1>1, <1>2, <1>3, <2>1 DEF getReduce, ReducesOK, TypeOK, CoordinatorOK, files
<1>7. EndOK'
  BY <1>1, <1>2, <1>3 DEF getReduce, EndOK
<1> QED BY <1>4, <1>5, <1>6, <1>7

(* The report of a map task keeps the invariant: its files are there. *)
LEMMA putMapOK == ASSUME Inv, NEW w \in Worker, putMap(w) PROVE Inv'
<1> USE DEF Inv
<1>1. at("request") \in WorkerState /\ at("request").pc = "request"
  BY doingOK DEF at, PC
<1>2. /\ worker' \in [Worker -> WorkerState]
      /\ \A v \in Worker : worker'[v] = IF v = w THEN at("request") ELSE worker[v]
  BY <1>1 DEF putMap, TypeOK, WorkersOK
<1>3. worker[w].task \in MapTask
  BY DEF putMap, TypeOK, WorkersOK
<1>4. (allMapDone => allMapDone') /\ (allDone => allDone')
  BY DEF putMap, TypeOK, CoordinatorOK, allMapDone, allReduceDone, allDone, allFinished
<1>5. TypeOK'
  BY <1>1, <1>2, <1>3 DEF putMap, TypeOK, CoordinatorOK, WorkersOK, FilesOK, files, TaskStatus
<1>6. MapsOK'
  BY <1>1, <1>2, <1>3 DEF putMap, MapsOK, TypeOK, CoordinatorOK, files
<1>7. ReducesOK'
  BY <1>1, <1>2, <1>4 DEF putMap, ReducesOK, files
<1>8. EndOK'
  BY <1>1, <1>2, <1>4 DEF putMap, EndOK
<1> QED BY <1>5, <1>6, <1>7, <1>8

(* The report of a reduce task keeps the invariant: its output is there. *)
LEMMA putReduceOK == ASSUME Inv, NEW w \in Worker, putReduce(w) PROVE Inv'
<1> USE DEF Inv
<1>1. at("request") \in WorkerState /\ at("request").pc = "request"
  BY doingOK DEF at, PC
<1>2. /\ worker' \in [Worker -> WorkerState]
      /\ \A v \in Worker : worker'[v] = IF v = w THEN at("request") ELSE worker[v]
  BY <1>1 DEF putReduce, TypeOK, WorkersOK
<1>3. worker[w].task \in ReduceTask
  BY DEF putReduce, TypeOK, WorkersOK
<1>4. allMapDone' = allMapDone /\ (allDone => allDone')
  BY DEF putReduce, TypeOK, CoordinatorOK, allMapDone, allReduceDone, allDone, allFinished
<1>5. isDone' \in BOOLEAN /\ (isDone' => allDone')
  <2>1. isDone' = (isDone \/ allDone') /\ isDone \in BOOLEAN /\ (isDone => allDone)
    BY DEF putReduce, TypeOK, CoordinatorOK, EndOK
  <2> QED BY <1>4, <2>1, Zenon DEF allDone, allMapDone, allReduceDone, allFinished
<1>6. TypeOK'
  BY <1>1, <1>2, <1>3, <1>5
     DEF putReduce, TypeOK, CoordinatorOK, WorkersOK, FilesOK, files, TaskStatus
<1>7. MapsOK'
  BY <1>1, <1>2 DEF putReduce, MapsOK, files
<1>8. ReducesOK'
  BY <1>1, <1>2, <1>3, <1>4 DEF putReduce, ReducesOK, TypeOK, CoordinatorOK, files
<1>9. EndOK'
  BY <1>1, <1>2, <1>4, <1>5 DEF putReduce, EndOK
<1> QED BY <1>6, <1>7, <1>8, <1>9

(* Renaming an intermediate file keeps the invariant. *)
LEMMA DoMapOK == ASSUME Inv, NEW w \in Worker, DoMap(w) PROVE Inv'
<1> USE TaskAssumption DEF Inv
<1> DEFINE i == worker[w].task
           j == worker[w].next
           x == worker'[w]
<1>1. i \in MapTask /\ i \in Nat /\ j \in Nat /\ j < nReduce /\ worker[w] \in WorkerState
  BY DEF DoMap, TypeOK, WorkersOK, WorkerState, MapTask
<1>2. /\ x \in WorkerState /\ x.task = i
      /\ \/ j = nReduce - 1 /\ x.pc = "mapped"
         \/ j # nReduce - 1 /\ x.pc = "map" /\ x.next = j + 1
      /\ worker' \in [Worker -> WorkerState]
      /\ \A v \in Worker : v # w => worker'[v] = worker[v]
  <2>1. worker \in [Worker -> WorkerState]
    BY DEF TypeOK, WorkersOK
  <2>2. CASE j = nReduce - 1
    <3>1. worker' = [worker EXCEPT ![w] = doing("mapped", i)]
      BY <2>1, <2>2 DEF DoMap
    <3> QED BY <1>1, <2>1, <2>2, <3>1, doingOK DEF PC
  <2>3. CASE j # nReduce - 1
    <3>1. worker' = [worker EXCEPT ![w] = [worker[w] EXCEPT !.next = j + 1]]
      BY <2>1, <2>3 DEF DoMap
    <3>2. worker[w].pc = "map"
      BY DEF DoMap
    <3> QED BY <1>1, <2>1, <2>3, <3>1, <3>2 DEF WorkerState
  <2> QED BY <2>2, <2>3
<1>3. allMapDone' = allMapDone /\ allDone' = allDone
  BY DEF DoMap, coordinator, allMapDone, allReduceDone, allDone, allFinished
<1>4. intermediate' = intermediate \cup {<<i, j>>} /\ j \in ReduceTask
  BY <1>1 DEF DoMap, ReduceTask
<1>5. TypeOK'
  BY <1>1, <1>2, <1>4 DEF DoMap, TypeOK, CoordinatorOK, WorkersOK, FilesOK, coordinator
<1>6. MapsOK'
  <2>1. \A k \in 0 .. j : <<i, k>> \in intermediate'
    BY <1>1, <1>4 DEF DoMap, MapsOK
  <2>2. j = nReduce - 1 => 0 .. j = ReduceTask
    BY DEF ReduceTask
  <2>3. x.pc = "map" => \A k \in 0 .. x.next - 1 : <<x.task, k>> \in intermediate'
    BY <1>1, <1>2, <2>1
  <2>4. x.pc = "mapped" => \A k \in ReduceTask : <<x.task, k>> \in intermediate'
    BY <1>1, <1>2, <2>1, <2>2
  <2> QED BY <1>2, <1>4, <2>3, <2>4 DEF DoMap, MapsOK, coordinator
<1>7. ReducesOK'
  BY <1>2, <1>3 DEF DoMap, ReducesOK, coordinator
<1>8. EndOK'
  BY <1>2, <1>3 DEF DoMap, EndOK, coordinator
<1> QED BY <1>5, <1>6, <1>7, <1>8

(* Reading an intermediate file keeps the invariant: the file is there. *)
LEMMA readIntermediateOK == ASSUME Inv, NEW w \in Worker, readIntermediate(w) PROVE Inv'
<1> USE TaskAssumption DEF Inv
<1> DEFINE i == worker[w].next
           j == worker[w].task
           x == worker'[w]
<1>1. i \in MapTask /\ i \in Nat /\ j \in ReduceTask /\ worker[w] \in WorkerState
  BY DEF readIntermediate, TypeOK, WorkersOK, WorkerState, MapTask
<1>2. <<i, j>> \in intermediate
  BY <1>1 DEF readIntermediate, MapsOK, ReducesOK, TypeOK, CoordinatorOK, allMapDone,
              allFinished
<1>3. /\ x \in WorkerState /\ x.task = j /\ x.pc = "reduce" /\ x.next = i + 1
      /\ x.data = worker[w].data \cup {i}
      /\ worker' \in [Worker -> WorkerState]
      /\ \A v \in Worker : v # w => worker'[v] = worker[v]
  <2>1. worker \in [Worker -> WorkerState]
    BY DEF TypeOK, WorkersOK
  <2>2. worker' = [worker EXCEPT ![w] =
          [worker[w] EXCEPT !.next = i + 1, !.data = worker[w].data \cup {i}]]
    BY <1>2 DEF readIntermediate
  <2>3. worker[w].pc = "reduce"
    BY DEF readIntermediate
  <2>4. x = [worker[w] EXCEPT !.next = i + 1, !.data = worker[w].data \cup {i}]
    BY <2>1, <2>2
  <2>5. x \in WorkerState /\ x.task = j /\ x.pc = "reduce" /\ x.next = i + 1
    <3>1. worker[w].data \cup {i} \in SUBSET MapTask
      BY <1>1 DEF WorkerState
    <3>2. x = [pc |-> "reduce", task |-> j, next |-> i + 1, data |-> worker[w].data \cup {i}]
      BY <1>1, <2>3, <2>4 DEF WorkerState
    <3>3. j \in Nat /\ "reduce" \in PC
      BY <1>1 DEF ReduceTask, PC
    <3> HIDE DEF x
    <3> QED BY <1>1, <3>1, <3>2, <3>3 DEF WorkerState
  <2>6. x.data = worker[w].data \cup {i}
    BY <1>1, <2>4 DEF WorkerState
  <2> QED BY <2>1, <2>2, <2>5, <2>6
<1>4. allMapDone' = allMapDone /\ allDone' = allDone
  BY DEF readIntermediate, coordinator, allMapDone, allReduceDone, allDone, allFinished
<1>5. TypeOK'
  <2>1. x.next <= nMap
    BY <1>1, <1>3 DEF MapTask
  <2> HIDE DEF x
  <2>2. WorkersOK'
    BY <1>1, <1>3, <2>1 DEF TypeOK, WorkersOK, x
  <2> QED BY <2>2 DEF readIntermediate, TypeOK, CoordinatorOK, FilesOK, coordinator, files
<1>6. MapsOK'
  BY <1>3 DEF readIntermediate, MapsOK, coordinator, files
<1>7. ReducesOK'
  <2>1. x.data = 0 .. x.next - 1
    <3>1. worker[w].data = 0 .. i - 1
      BY DEF readIntermediate, ReducesOK
    <3>2. (0 .. i - 1) \cup {i} = 0 .. i + 1 - 1
      BY <1>1
    <3>3. x.next = i + 1 /\ x.data = worker[w].data \cup {i}
      BY <1>3
    <3> HIDE DEF x, i
    <3> QED BY <3>1, <3>2, <3>3
  <2> QED BY <1>3, <1>4, <2>1 DEF readIntermediate, ReducesOK, coordinator, files
<1>8. EndOK'
  BY <1>3, <1>4 DEF readIntermediate, EndOK, coordinator
<1> QED BY <1>5, <1>6, <1>7, <1>8

(* Renaming an output file keeps the invariant: it holds the data of every map. *)
LEMMA renameOutputOK == ASSUME Inv, NEW w \in Worker, renameOutput(w)
                        PROVE  Inv' /\ worker[w].data = MapTask
<1> USE TaskAssumption DEF Inv
<1> DEFINE j == worker[w].task
           x == doing("reduced", j)
<1>1. j \in ReduceTask /\ j \in Nat /\ worker[w].data = MapTask
  BY DEF renameOutput, ReducesOK, TypeOK, WorkersOK, WorkerState, MapTask
<1>2. x \in WorkerState /\ x.pc = "reduced" /\ x.task = j
  BY <1>1, doingOK DEF PC
<1>3. /\ worker' \in [Worker -> WorkerState]
      /\ \A v \in Worker : worker'[v] = IF v = w THEN x ELSE worker[v]
  BY <1>2 DEF renameOutput, TypeOK, WorkersOK
<1>4. allMapDone' = allMapDone /\ allDone' = allDone
  BY DEF renameOutput, coordinator, allMapDone, allReduceDone, allDone, allFinished
<1> HIDE DEF x
<1>5. TypeOK'
  BY <1>1, <1>2, <1>3 DEF renameOutput, TypeOK, CoordinatorOK, WorkersOK, FilesOK, coordinator
<1>6. MapsOK'
  BY <1>2, <1>3 DEF renameOutput, MapsOK, coordinator
<1>7. ReducesOK'
  BY <1>1, <1>2, <1>3, <1>4 DEF renameOutput, ReducesOK, TypeOK, FilesOK, coordinator
<1>8. EndOK'
  BY <1>2, <1>3, <1>4 DEF renameOutput, EndOK, coordinator
<1> QED BY <1>1, <1>5, <1>6, <1>7, <1>8

(* The passing of time and the end of the coordinator keep the invariant. *)
LEMMA timeOK == ASSUME Inv,
                       \/ \E i \in MapTask : mapTimeout(i)
                       \/ \E j \in ReduceTask : reduceTimeout(j)
                       \/ Done \/ UNCHANGED vars
                PROVE  Inv'
<1> USE DEF Inv
<1>1. /\ UNCHANGED <<mapStatus, reduceStatus, isDone, worker, intermediate, out>>
      /\ mapOverdue' \subseteq MapTask /\ reduceOverdue' \subseteq ReduceTask
      /\ exited' \in BOOLEAN /\ (exited' => isDone)
  <2>1. /\ mapOverdue \subseteq MapTask /\ reduceOverdue \subseteq ReduceTask
        /\ exited \in BOOLEAN /\ (exited => isDone)
    BY DEF TypeOK, CoordinatorOK, EndOK
  <2>2. CASE (\E i \in MapTask : mapTimeout(i)) \/ \E j \in ReduceTask : reduceTimeout(j)
    BY <2>1, <2>2 DEF mapTimeout, reduceTimeout, files
  <2>3. CASE Done \/ UNCHANGED vars
    <3>1. CASE UNCHANGED vars
      BY <2>1, <3>1 DEF vars, coordinator, files
    <3>2. CASE Done
      <4>1. UNCHANGED <<mapStatus, reduceStatus, mapOverdue, reduceOverdue, isDone, worker,
                        intermediate, out>>
        BY <3>2 DEF Done, coordinator, files
      <4>2. exited' = TRUE /\ isDone
        BY <3>2 DEF Done
      <4> QED BY <2>1, <4>1, <4>2
    <3> QED BY <2>3, <3>1, <3>2
  <2> QED BY <2>2, <2>3
<1>2. allMapDone' = allMapDone /\ allDone' = allDone
  BY <1>1 DEF allMapDone, allReduceDone, allDone, allFinished
<1>3. TypeOK'
  BY <1>1 DEF TypeOK, CoordinatorOK, WorkersOK, FilesOK
<1>4. MapsOK' /\ ReducesOK' /\ EndOK'
  BY <1>1, <1>2 DEF MapsOK, ReducesOK, EndOK
<1> QED BY <1>3, <1>4

(* Every step keeps the invariant. *)
LEMMA NextOK == Inv /\ [Next]_vars => Inv'
<1> SUFFICES ASSUME Inv, [Next]_vars PROVE Inv'
  OBVIOUS
<1>1. ASSUME NEW w \in Worker, getWait(w) \/ sleep(w) \/ crash(w) PROVE Inv'
  <2>1. isDone \in BOOLEAN /\ (isDone => allDone)
    BY DEF Inv, TypeOK, CoordinatorOK, EndOK
  <2> QED BY <1>1, <2>1, idleOK DEF getWait, sleep, crash, coordinator
<1>2. ASSUME NEW w \in Worker, getDone(w) \/ callFails(w) PROVE Inv'
  <2>1. isDone \in BOOLEAN /\ (isDone => allDone) /\ (exited => isDone)
    BY DEF Inv, TypeOK, CoordinatorOK, EndOK
  <2> QED BY <1>2, <2>1, idleOK DEF getDone, callFails, coordinator
<1> QED BY <1>1, <1>2, getMapOK, getReduceOK, putMapOK, putReduceOK, DoMapOK,
           readIntermediateOK, renameOutputOK, timeOK DEF Next, workerStep, over

(* Inv is an invariant. *)
THEOREM Invariant == Spec => []Inv
BY InitOK, NextOK, PTL DEF Spec

(* TypeOK is an invariant, for every number of workers and tasks. *)
THEOREM Types == Spec => []TypeOK
BY Invariant, PTL DEF Inv

(* DoReduce never meets a missing intermediate file. *)
THEOREM ReduceInput == Spec => []NoMissingInput
<1>1. Inv => NoMissingInput
  BY DEF Inv, ReducesOK, NoMissingInput
<1> QED BY Invariant, <1>1, PTL

(* The output is complete before any process ends in good order. *)
THEOREM Completeness == Spec => []OutputComplete
<1>1. Inv => OutputComplete
  <2> SUFFICES ASSUME Inv, exited \/ \E w \in Worker : worker[w].pc = "returned",
                      NEW j \in ReduceTask
               PROVE  out[j] = MapTask
    BY DEF OutputComplete
  <2>1. allReduceDone
    BY DEF Inv, EndOK, allDone
  <2>2. reduceStatus[j] = "Finished"
    BY <2>1 DEF Inv, TypeOK, CoordinatorOK, allReduceDone, allFinished
  <2> QED BY <2>2 DEF Inv, ReducesOK
<1> QED BY Invariant, <1>1, PTL

(* mr-out-j is written once, or again with the same content. *)
THEOREM Finality == Spec => OutputFinal
<1>1. Inv /\ [Next]_vars => [\A j \in ReduceTask : out[j] # Nil => out'[j] = out[j]]_vars
  <2> SUFFICES ASSUME Inv, [Next]_vars, NEW j \in ReduceTask, out[j] # Nil
               PROVE  out'[j] = out[j]
    OBVIOUS
  <2>1. ASSUME NEW w \in Worker, renameOutput(w) PROVE out'[j] = out[j]
    <3>1. worker[w].data = MapTask /\ out[j] = MapTask
      BY <2>1, renameOutputOK DEF Inv, ReducesOK
    <3> QED BY <2>1, <3>1 DEF renameOutput, Inv, TypeOK, FilesOK
  <2>2. CASE UNCHANGED out
    BY <2>2
  <2> QED BY <2>1, <2>2
      DEF Next, workerStep, over, vars, files, getMap, getReduce, getWait, getDone, putMap,
          putReduce, sleep, callFails, DoMap, readIntermediate, crash, mapTimeout,
          reduceTimeout, Done
<1> QED BY Invariant, <1>1, PTL DEF Spec, OutputFinal

(* A task that HandleRequestTask recorded as Finished stays Finished. *)
THEOREM FinishedStays == Spec => FinishedIsFinal
<1>1. Inv /\ [Next]_vars =>
        [/\ \A i \in MapTask : mapStatus[i] = "Finished" => mapStatus'[i] = "Finished"
         /\ \A j \in ReduceTask :
               reduceStatus[j] = "Finished" => reduceStatus'[j] = "Finished"]_vars
  <2> SUFFICES ASSUME Inv, [Next]_vars
               PROVE  /\ \A i \in MapTask :
                            mapStatus[i] = "Finished" => mapStatus'[i] = "Finished"
                      /\ \A j \in ReduceTask :
                            reduceStatus[j] = "Finished" => reduceStatus'[j] = "Finished"
    OBVIOUS
  <2>1. \/ UNCHANGED <<mapStatus, reduceStatus>>
        \/ \E w \in Worker : putMap(w) \/ putReduce(w)
        \/ \E w \in Worker : \E i \in MapTask : getMap(w, i)
        \/ \E w \in Worker : \E j \in ReduceTask : getReduce(w, j)
    BY DEF Next, workerStep, over, vars, coordinator, getWait, getDone, sleep, callFails,
           DoMap, readIntermediate, renameOutput, crash, mapTimeout, reduceTimeout, Done
  <2> QED BY <2>1 DEF Inv, TypeOK, CoordinatorOK, putMap, putReduce, getMap, getReduce,
                      first, available
<1> QED BY Invariant, <1>1, PTL DEF Spec, FinishedIsFinal
=============================================================================
