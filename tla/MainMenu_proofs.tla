---------------------------- MODULE MainMenu_proofs ----------------------------
(***************************************************************************)
(* What MainMenu guarantees for any number of databases and workers.       *)
(***************************************************************************)
EXTENDS MainMenu, SequenceTheorems, TLAPS

\* A worker runs only after it was started, and one that a clearCache thread has
\* still to start has not begun.
NoWorkerAhead ==
  \A w \in Workers :
    /\ w > started => pc[w] = "none" /\ clearing[w] = "none"
    /\ clearing[w] \in {"delete", "start"} => pc[w] = "none"
    /\ pc[w] = "none" => stage[w] = 1

\* A worker that has written its .tmp file and has not renamed it yet.
Holds(w, s) == stage[w] = s /\ pc[w] \in {"delete", "rename"}

\* A .tmp file that was never shared is there until its one holder renames it.
HeldByOne ==
  \A w \in Workers, s \in Stages :
    Holds(w, s) /\ s \notin shared =>
      tmp[s] /\ \A v \in Workers \ {w} : ~Holds(v, s)

\* What a worker is about to read is what it set, unless it was overtaken.
ReadsOwn ==
  \A w \in Workers :
    pc[w] \in {"await", "switch"} /\ stage[w] \notin overtaken[w] =>
      (loadState[stage[w]] = 2 <=> stage[w] \in failed[w])

\* A stage has failed once its download has ended, and is told when it is passed.
FailedSoFar ==
  \A w \in Workers, s \in Stages :
    s \in failed[w] => Passed(w, s) \/ (stage[w] = s /\ pc[w] \in {"await", "switch"})

ToldIsPassed == \A w \in Workers, s \in Stages : Told(w, s) => Passed(w, s)

\* The maps: FileInv says where they are, TellInv what is known of their failures.
FileInv == HeldByOne /\ MissingIsBeingRepaired

TellInv == ReadsOwn /\ FailedSoFar /\ ToldIsPassed /\ FailureIsTold

MenuInv == TypeOK /\ NoWorkerAhead /\ FileInv /\ TellInv

-----------------------------------------------------------------------------
(* The runnables *)

Messages == [kind : {"error", "cleared"}, by : Workers, of : Stages]

\* A runnable that is posted comes last; one that is run leaves the others.
LEMMA Posted ==
  ASSUME ui \in Seq(Messages), NEW x \in Messages, ui' = Append(ui, x)
  PROVE  /\ ui' \in Seq(Messages) /\ Len(ui') = Len(ui) + 1 /\ Len(ui) \in Nat
         /\ \A i \in 1 .. Len(ui) : ui'[i] = ui[i]
         /\ ui'[Len(ui')] = x
<1> QED
  BY AppendProperties, LenProperties

LEMMA RunFirst ==
  ASSUME ui \in Seq(Messages), ui # <<>>
  PROVE  /\ Tail(ui) \in Seq(Messages) /\ Head(ui) \in Messages /\ Head(ui) = ui[1]
         /\ Len(ui) \in Nat \ {0} /\ Len(Tail(ui)) = Len(ui) - 1
         /\ \A i \in 1 .. Len(Tail(ui)) : i + 1 \in 1 .. Len(ui) /\ Tail(ui)[i] = ui[i + 1]
<1>1. Len(ui) \in Nat \ {0}
  BY EmptySeq
<1>2. QED
  BY <1>1, HeadTailProperties

-----------------------------------------------------------------------------
(* Types *)

LEMMA Bounds ==
  /\ MapsDb \in Stages /\ 1 \in Stages /\ \A s \in Stages : s = DbCount \/ s + 1 \in Stages
  /\ 0 \in 0 .. MaxWorkers /\ 0 \in 0 .. 3 /\ 1 \in 0 .. 3 /\ 2 \in 0 .. 3 /\ 3 \in 0 .. 3
  /\ \A n \in 0 .. MaxWorkers : n < MaxWorkers => n + 1 \in Workers /\ n + 1 \in 0 .. MaxWorkers
<1>1. MaxWorkers \in Nat \ {0} /\ DbCount \in Nat \ {0}
  BY MenuAssumption
<1>2. QED
  BY <1>1 DEF Stages, MapsDb, Workers

\* The types in parts, most of which a step leaves alone.
StoredTypes ==
  /\ file \in [Stages -> {"absent", "skeleton", "usable"}] /\ tmp \in [Stages -> BOOLEAN]
  /\ loadState \in [Stages -> 0 .. 3] /\ helperOpen \in [Stages -> BOOLEAN]

PcValues == {"none", "begin", "fetch", "delete", "rename", "finish", "await", "switch",
             "ended"}

ThreadTypes ==
  /\ started \in 0 .. MaxWorkers
  /\ pc \in [Workers -> PcValues] /\ stage \in [Workers -> Stages]
  /\ clearing \in [Workers -> {"none", "delete", "start", "post"}]

GhostTypes ==
  /\ failed \in [Workers -> SUBSET Stages] /\ told \in [Workers -> SUBSET Stages]
  /\ overtaken \in [Workers -> SUBSET Stages] /\ shared \subseteq Stages

ScreenTypes ==
  /\ life \in {"dead", "running", "crashed"} /\ d \in {"null", "loading", "clearing"}
  /\ showing \in BOOLEAN /\ orphan \in BOOLEAN /\ alert \in {"none", "choose map", "corrupted"}

PostedTypes == ui \in Seq(Messages)

LEMMA TypesInParts ==
  TypeOK <=> StoredTypes /\ ThreadTypes /\ GhostTypes /\ ScreenTypes /\ PostedTypes
BY DEF TypeOK, StoredTypes, ThreadTypes, GhostTypes, ScreenTypes, PostedTypes, Messages,
       PcValues

LEMMA StoredStay == StoredTypes /\ UNCHANGED fileVars => StoredTypes'
BY DEF StoredTypes, fileVars

LEMMA ThreadsStay == ThreadTypes /\ UNCHANGED <<workerVars, clearing>> => ThreadTypes'
BY DEF ThreadTypes, workerVars

LEMMA GhostsStay == GhostTypes /\ UNCHANGED ghostVars => GhostTypes'
BY DEF GhostTypes, ghostVars

LEMMA ScreenStays == ScreenTypes /\ UNCHANGED screenVars => ScreenTypes'
BY DEF ScreenTypes, screenVars

LEMMA PostedStay == PostedTypes /\ UNCHANGED ui => PostedTypes'
BY DEF PostedTypes

LEMMA StartTypes ==
  ASSUME ThreadTypes, StartWorker, UNCHANGED clearing
  PROVE  started' \in Workers /\ started' = started + 1 /\ ThreadTypes'
<1>1. started' \in Workers /\ started' = started + 1 /\ started' \in 0 .. MaxWorkers
  BY Bounds DEF ThreadTypes, StartWorker, Room
<1>2. 1 \in Stages
  BY Bounds
<1>3. QED
  BY <1>1, <1>2 DEF ThreadTypes, StartWorker, Launch, PcValues

LEMMA WorkerTypes ==
  ASSUME TypeOK, NEW w \in Workers, Worker(w)
  PROVE  TypeOK'
<1>1. /\ StoredTypes /\ ThreadTypes /\ GhostTypes /\ ScreenTypes /\ PostedTypes
      /\ stage[w] \in Stages
  BY TypesInParts DEF ThreadTypes
<1>2. UNCHANGED <<screenVars, started, clearing, told>>
  BY DEF Worker, Begin, Fetch, FetchFails, DeleteOld, RenameTmp, Finish, Await, Switch, WorkerMoves
<1>3. ScreenTypes'
  BY <1>1, <1>2, ScreenStays
<1>4. ThreadTypes'
  <2>1. pc' \in [Workers -> PcValues]
    BY <1>1 DEF ThreadTypes, PcValues, Worker, Begin, Fetch, FetchFails, DeleteOld, RenameTmp,
                Finish, Await, Switch, WorkerMoves
  <2>2. stage' \in [Workers -> Stages]
    <3>1. CASE Switch(w)
      BY <1>1, <3>1, Bounds DEF ThreadTypes, Switch
    <3>2. CASE ~Switch(w)
      <4>1. UNCHANGED stage
        BY <3>2 DEF Worker, Begin, Fetch, FetchFails, DeleteOld, RenameTmp, Finish, Await, fileVars
      <4>2. QED
        BY <1>1, <4>1 DEF ThreadTypes
    <3>3. QED
      BY <3>1, <3>2
  <2>3. QED
    BY <1>1, <1>2, <2>1, <2>2 DEF ThreadTypes
<1>5. GhostTypes'
  <2>1. CASE Begin(w) \/ FetchFails(w) \/ Finish(w)
    <3>1. overtaken' \in [Workers -> SUBSET Stages] /\ UNCHANGED shared
      BY <1>1, <2>1 DEF GhostTypes, Begin, FetchFails, Finish, SetLoadState
    <3>2. failed' \in [Workers -> SUBSET Stages]
      BY <1>1, <2>1 DEF GhostTypes, Begin, FetchFails, Finish
    <3>3. QED
      BY <1>1, <1>2, <3>1, <3>2 DEF GhostTypes
  <2>2. CASE Fetch(w)
    BY <1>1, <1>2, <2>2 DEF GhostTypes, Fetch
  <2>3. CASE DeleteOld(w) \/ RenameTmp(w) \/ Await(w) \/ Switch(w)
    BY <1>1, <1>2, <2>3 DEF GhostTypes, DeleteOld, RenameTmp, Await, Switch
  <2>4. QED
    BY <2>1, <2>2, <2>3 DEF Worker
<1>6. StoredTypes'
  <2>1. CASE Begin(w) \/ FetchFails(w) \/ Finish(w)
    BY <1>1, <2>1, Bounds DEF Begin, FetchFails, Finish, SetLoadState, StoredTypes
  <2>2. CASE Fetch(w)
    BY <1>1, <2>2 DEF Fetch, StoredTypes
  <2>3. CASE DeleteOld(w) \/ RenameTmp(w)
    BY <1>1, <2>3 DEF DeleteOld, RenameTmp, StoredTypes
  <2>4. CASE Await(w) \/ Switch(w)
    BY <1>1, <2>4, StoredStay DEF Await, Switch
  <2>5. QED
    BY <2>1, <2>2, <2>3, <2>4 DEF Worker
<1>7. PostedTypes'
  <2>1. CASE Switch(w)
    <3>1. ui \in Seq(Messages) /\ [kind |-> "error", by |-> w, of |-> stage[w]] \in Messages
      BY <1>1 DEF Messages, PostedTypes
    <3>2. QED
      BY <2>1, <3>1, Posted DEF Switch, PostedTypes
  <2>2. CASE ~Switch(w)
    <3>1. UNCHANGED ui
      BY <2>2 DEF Worker, Begin, Fetch, FetchFails, DeleteOld, RenameTmp, Finish, Await
    <3>2. QED
      BY <1>1, <3>1, PostedStay
  <2>3. QED
    BY <2>1, <2>2
<1>8. QED
  <2>1. StoredTypes' /\ ThreadTypes' /\ GhostTypes' /\ ScreenTypes' /\ PostedTypes' => TypeOK'
    BY TypesInParts, PTL
  <2>2. QED
    BY <1>3, <1>4, <1>5, <1>6, <1>7, <2>1

LEMMA TypeStep ==
  ASSUME TypeOK, [Next]_vars
  PROVE  TypeOK'
<1>1. StoredTypes /\ ThreadTypes /\ GhostTypes /\ ScreenTypes /\ PostedTypes
  BY TypesInParts
<1>2. StoredTypes' /\ ThreadTypes' /\ GhostTypes' /\ ScreenTypes' /\ PostedTypes' => TypeOK'
  BY TypesInParts, PTL
<1>3. MapsDb \in Stages
  BY Bounds
<1>4. CASE CreateActivity
  <2>1. StoredTypes' /\ PostedTypes' /\ GhostTypes'
    BY <1>1, <1>4, StoredStay, PostedStay, GhostsStay DEF CreateActivity
  <2>2. ScreenTypes'
    BY <1>1, <1>4 DEF CreateActivity, ScreenTypes
  <2>3. ThreadTypes'
    BY <1>1, <1>4, StartTypes, ThreadsStay DEF CreateActivity
  <2>4. QED
    BY <1>2, <2>1, <2>2, <2>3
<1>5. CASE OpenMap
  <2>1. ThreadTypes' /\ PostedTypes' /\ GhostTypes'
    BY <1>1, <1>5, ThreadsStay, PostedStay, GhostsStay DEF OpenMap
  <2>2. ScreenTypes'
    BY <1>1, <1>5 DEF OpenMap, ScreenTypes
  <2>3. StoredTypes'
    BY <1>1, <1>3, <1>5 DEF OpenMap, StoredTypes
  <2>4. QED
    BY <1>2, <2>1, <2>2, <2>3
<1>6. CASE ChooseMap \/ DismissAlert \/ LeaveAndReturn
  <2>1. StoredTypes' /\ ThreadTypes' /\ PostedTypes' /\ GhostTypes'
    BY <1>1, <1>6, StoredStay, ThreadsStay, PostedStay, GhostsStay
       DEF ChooseMap, DismissAlert, LeaveAndReturn
  <2>2. ScreenTypes'
    BY <1>1, <1>6 DEF ChooseMap, DismissAlert, LeaveAndReturn, ScreenTypes
  <2>3. QED
    BY <1>2, <2>1, <2>2
<1>7. CASE AcceptCorrupted \/ NewDatabase
  <2>1. StoredTypes' /\ PostedTypes' /\ GhostTypes'
    BY <1>1, <1>7, StoredStay, PostedStay, GhostsStay DEF AcceptCorrupted, NewDatabase
  <2>2. ScreenTypes'
    BY <1>1, <1>7 DEF AcceptCorrupted, NewDatabase, ScreenTypes
  <2>3. ThreadTypes'
    BY <1>1, <1>7, StartTypes DEF AcceptCorrupted, NewDatabase
  <2>4. QED
    BY <1>2, <2>1, <2>2, <2>3
<1>8. CASE ClearData
  <2>1. StoredTypes' /\ PostedTypes' /\ GhostTypes'
    BY <1>1, <1>8, StoredStay, PostedStay, GhostsStay DEF ClearData
  <2>2. ScreenTypes'
    BY <1>1, <1>8 DEF ClearData, ScreenTypes
  <2>3. ThreadTypes'
    BY <1>1, <1>8, Bounds DEF ClearData, Room, ThreadTypes
  <2>4. QED
    BY <1>2, <2>1, <2>2, <2>3
<1>9. CASE Kill
  <2>1. PostedTypes'
    <3>1. ui' = <<>> /\ <<>> \in Seq(Messages)
      BY <1>9, EmptySeq DEF Kill
    <3>2. QED
      BY <3>1 DEF PostedTypes
  <2>2. StoredTypes'
    BY <1>1, <1>9, Bounds DEF Kill, StoredTypes
  <2>3. ThreadTypes'
    BY <1>1, <1>9, Bounds DEF Kill, ThreadTypes, PcValues
  <2>4. ScreenTypes' /\ GhostTypes'
    BY <1>1, <1>9 DEF Kill, ScreenTypes, GhostTypes
  <2>5. QED
    BY <1>2, <2>1, <2>2, <2>3, <2>4
<1>10. CASE RunPosted
  <2>1. PostedTypes' /\ Head(ui) \in Messages
    BY <1>1, <1>10, RunFirst DEF RunPosted, PostedTypes
  <2>2. StoredTypes' /\ ThreadTypes'
    BY <1>1, <1>10, StoredStay, ThreadsStay DEF RunPosted
  <2>3. ScreenTypes'
    BY <1>1, <1>10 DEF RunPosted, ScreenTypes
  <2>4. GhostTypes'
    <3>1. Head(ui).of \in Stages
      BY <2>1 DEF Messages
    <3>2. told' \in [Workers -> SUBSET Stages]
      BY <1>1, <1>10, <3>1 DEF RunPosted, GhostTypes
    <3>3. QED
      BY <1>1, <1>10, <3>2 DEF RunPosted, GhostTypes
  <2>5. QED
    BY <1>2, <2>1, <2>2, <2>3, <2>4
<1>11. ASSUME NEW w \in Workers, DeleteMaps(w) \/ StartAgain(w) PROVE TypeOK'
  <2>1. ThreadTypes'
    BY <1>1, <1>11, Bounds
       DEF DeleteMaps, StartAgain, ClearMoves, Launch, ThreadTypes, PcValues, workerVars
  <2>2. StoredTypes'
    BY <1>1, <1>3, <1>11 DEF DeleteMaps, StartAgain, StoredTypes, fileVars
  <2>3. ScreenTypes' /\ PostedTypes' /\ GhostTypes'
    BY <1>1, <1>11, ScreenStays, PostedStay, GhostsStay DEF DeleteMaps, StartAgain
  <2>4. QED
    BY <1>2, <2>1, <2>2, <2>3
<1>12. ASSUME NEW w \in Workers, PostCleared(w) PROVE TypeOK'
  <2>1. [kind |-> "cleared", by |-> w, of |-> MapsDb] \in Messages
    BY <1>3 DEF Messages
  <2>2. PostedTypes'
    BY <1>1, <1>12, <2>1, Posted DEF PostCleared, PostedTypes
  <2>3. StoredTypes' /\ GhostTypes' /\ ScreenTypes'
    BY <1>1, <1>12, StoredStay, GhostsStay, ScreenStays DEF PostCleared
  <2>4. ThreadTypes'
    BY <1>1, <1>12 DEF PostCleared, ClearMoves, ThreadTypes, workerVars
  <2>5. QED
    BY <1>2, <2>2, <2>3, <2>4
<1>13. ASSUME NEW w \in Workers, Worker(w) PROVE TypeOK'
  BY <1>13, WorkerTypes
<1>14. CASE UNCHANGED vars
  BY <1>1, <1>2, <1>14, StoredStay, ThreadsStay, GhostsStay, ScreenStays, PostedStay DEF vars
<1>15. QED
  BY <1>4, <1>5, <1>6, <1>7, <1>8, <1>9, <1>10, <1>11, <1>12, <1>13, <1>14
     DEF Next, UserStep, ClearThread

-----------------------------------------------------------------------------
(* The steps of a worker *)

\* What a worker's step may not touch.
LEMMA WorkerFrame ==
  ASSUME TypeOK, NEW w \in Workers, Worker(w)
  PROVE  /\ pc[w] \notin {"none", "ended"} /\ pc'[w] # "none"
         /\ \A v \in Workers \ {w} :
              pc'[v] = pc[v] /\ stage'[v] = stage[v] /\ failed'[v] = failed[v]
         /\ \A v \in Workers : overtaken[v] \subseteq overtaken'[v] /\ failed[v] \subseteq failed'[v]
         /\ shared \subseteq shared'
         /\ UNCHANGED <<started, clearing, screenVars, told>>
<1>1. /\ pc \in [Workers -> PcValues] /\ stage \in [Workers -> Stages]
      /\ failed \in [Workers -> SUBSET Stages] /\ overtaken \in [Workers -> SUBSET Stages]
  BY DEF TypeOK, PcValues
<1>2. UNCHANGED <<started, clearing, screenVars, told>>
  BY DEF Worker, Begin, Fetch, FetchFails, DeleteOld, RenameTmp, Finish, Await, Switch, WorkerMoves
<1>3. pc[w] \notin {"none", "ended"} /\ pc'[w] # "none"
  BY <1>1 DEF Worker, Begin, Fetch, FetchFails, DeleteOld, RenameTmp, Finish, Await, Switch, WorkerMoves
<1>4. \A v \in Workers \ {w} : pc'[v] = pc[v]
  BY <1>1 DEF Worker, Begin, Fetch, FetchFails, DeleteOld, RenameTmp, Finish, Await, Switch, WorkerMoves
<1>5. \A v \in Workers \ {w} : stage'[v] = stage[v]
  BY <1>1 DEF Worker, Begin, Fetch, FetchFails, DeleteOld, RenameTmp, Finish, Await, Switch, fileVars
<1>6. /\ \A v \in Workers \ {w} : failed'[v] = failed[v]
      /\ \A v \in Workers : failed[v] \subseteq failed'[v]
  BY <1>1 DEF Worker, Begin, Fetch, FetchFails, DeleteOld, RenameTmp, Finish, Await, Switch
<1>7. shared \subseteq shared'
  BY DEF Worker, Begin, Fetch, FetchFails, DeleteOld, RenameTmp, Finish, Await, Switch
<1>8. \A v \in Workers : overtaken[v] \subseteq overtaken'[v]
  <2>1. CASE Begin(w) \/ FetchFails(w) \/ Finish(w)
    BY <1>1, <2>1 DEF Begin, FetchFails, Finish, SetLoadState
  <2>2. CASE ~(Begin(w) \/ FetchFails(w) \/ Finish(w))
    BY <2>2 DEF Worker, Fetch, DeleteOld, RenameTmp, Await, Switch
  <2>3. QED
    BY <2>1, <2>2
<1>9. QED
  BY <1>2, <1>3, <1>4, <1>5, <1>6, <1>7, <1>8

LEMMA WorkerAhead ==
  ASSUME MenuInv, NEW w \in Workers, Worker(w)
  PROVE  NoWorkerAhead'
<1>1. TypeOK /\ NoWorkerAhead
  BY DEF MenuInv
<1>2. /\ pc[w] \notin {"none", "ended"} /\ pc'[w] # "none"
      /\ \A v \in Workers \ {w} : pc'[v] = pc[v] /\ stage'[v] = stage[v]
      /\ UNCHANGED <<started, clearing>>
  BY <1>1, WorkerFrame
<1>3. QED
  BY <1>1, <1>2 DEF NoWorkerAhead

LEMMA WorkerHolds ==
  ASSUME MenuInv, NEW w \in Workers, Worker(w)
  PROVE  HeldByOne'
<1>1. /\ TypeOK /\ HeldByOne /\ tmp \in [Stages -> BOOLEAN]
      /\ pc \in [Workers -> PcValues] /\ stage \in [Workers -> Stages] /\ stage[w] \in Stages
  BY DEF MenuInv, FileInv, TypeOK, PcValues
<1>2. /\ \A v \in Workers \ {w}, s \in Stages : Holds(v, s)' <=> Holds(v, s)
      /\ shared \subseteq shared'
  BY <1>1, WorkerFrame DEF Holds
<1> DEFINE Old(v, s) == Holds(v, s)
<1>3. CASE Fetch(w)
  <2>1. /\ pc[w] = "fetch" /\ pc'[w] = "delete" /\ stage' = stage
        /\ tmp'[stage[w]] = TRUE /\ \A s \in Stages \ {stage[w]} : tmp'[s] = tmp[s]
    BY <1>1, <1>3 DEF Fetch, WorkerMoves
  <2>2. stage[w] \notin shared' => \A v \in Workers : ~Holds(v, stage[w])
    BY <1>3 DEF Fetch, Holds
  <2>3. \A s \in Stages : (Holds(w, s)' <=> s = stage[w]) /\ ~Holds(w, s)
    BY <2>1 DEF Holds
  <2>4. \A v \in Workers, s \in Stages : v # w => (Holds(v, s)' => Holds(v, s))
    BY <1>2
  <2>5. ASSUME NEW v \in Workers, NEW s \in Stages, Holds(v, s)', s \notin shared'
        PROVE  tmp'[s] /\ \A u \in Workers \ {v} : ~Holds(u, s)'
    <3>1. CASE s = stage[w]
      BY <1>2, <2>1, <2>2, <2>5, <3>1
    <3>2. CASE s # stage[w]
      <4>1. v # w /\ Holds(v, s) /\ s \notin shared
        BY <1>2, <2>3, <2>5, <3>2
      <4>2. tmp[s] /\ \A u \in Workers \ {v} : ~Holds(u, s)
        BY <1>1, <4>1 DEF HeldByOne
      <4>3. tmp'[s] = tmp[s]
        BY <2>1, <3>2
      <4>4. \A u \in Workers \ {v} : ~Holds(u, s)'
        BY <2>3, <2>4, <3>2, <4>2
      <4>5. QED
        BY <4>2, <4>3, <4>4
    <3>3. QED
      BY <3>1, <3>2
  <2>6. QED
    BY <2>5 DEF HeldByOne
<1>4. CASE RenameTmp(w)
  <2>1. /\ pc[w] = "rename" /\ pc'[w] = "finish" /\ UNCHANGED <<stage, shared>>
        /\ \A s \in Stages \ {stage[w]} : tmp'[s] = tmp[s]
    BY <1>1, <1>4 DEF RenameTmp, WorkerMoves
  <2>2. Holds(w, stage[w]) /\ \A s \in Stages : ~Holds(w, s)'
    BY <2>1 DEF Holds
  <2>3. ASSUME NEW v \in Workers, NEW s \in Stages, Holds(v, s)', s \notin shared'
        PROVE  tmp'[s] /\ \A u \in Workers \ {v} : ~Holds(u, s)'
    <3>1. v # w /\ Holds(v, s) /\ s \notin shared
      BY <1>2, <2>1, <2>2, <2>3
    <3>2. tmp[s] /\ \A u \in Workers \ {v} : ~Holds(u, s)
      BY <1>1, <3>1 DEF HeldByOne
    <3>3. s # stage[w]
      BY <2>2, <3>1, <3>2
    <3>4. \A u \in Workers \ {v} : ~Holds(u, s)'
      BY <1>2, <2>2, <3>2
    <3>5. QED
      BY <2>1, <3>2, <3>3, <3>4
  <2>4. QED
    BY <2>3 DEF HeldByOne
<1>5. CASE ~Fetch(w) /\ ~RenameTmp(w)
  <2>1. UNCHANGED <<tmp, shared>>
    BY <1>5 DEF Worker, Begin, FetchFails, DeleteOld, Finish, Await, Switch, fileVars
  <2>2. \A s \in Stages : Holds(w, s)' => Holds(w, s)
    BY <1>1, <1>5 DEF Worker, Begin, FetchFails, DeleteOld, Finish, Await, Switch, WorkerMoves, Holds
  <2>3. \A v \in Workers, s \in Stages : Holds(v, s)' => Holds(v, s)
    BY <1>2, <2>2
  <2>4. QED
    BY <1>1, <2>1, <2>3 DEF HeldByOne
<1>6. QED
  BY <1>3, <1>4, <1>5

LEMMA WorkerRepairs ==
  ASSUME MenuInv, NEW w \in Workers, Worker(w)
  PROVE  MissingIsBeingRepaired'
<1>1. /\ TypeOK /\ HeldByOne /\ MissingIsBeingRepaired
      /\ file \in [Stages -> {"absent", "skeleton", "usable"}] /\ tmp \in [Stages -> BOOLEAN]
      /\ pc \in [Workers -> PcValues] /\ stage \in [Workers -> Stages] /\ stage[w] \in Stages
      /\ failed \in [Workers -> SUBSET Stages]
  BY DEF MenuInv, FileInv, TypeOK, PcValues
<1>2. /\ \A v \in Workers \ {w} : pc'[v] = pc[v] /\ stage'[v] = stage[v]
      /\ \A v \in Workers : failed[v] \subseteq failed'[v]
      /\ shared \subseteq shared' /\ UNCHANGED <<clearing, screenVars>>
  BY <1>1, WorkerFrame
<1>3. MapsDb \in Stages
  BY Bounds
<1> SUFFICES ASSUME Running, file'[MapsDb] = "absent", MapsDb \notin shared'
             PROVE  \E v \in Workers : Repairs(v)' \/ clearing'[v] = "start" \/ MapsDb \in failed'[v]
  BY <1>2 DEF MissingIsBeingRepaired, Running, screenVars
<1>4. CASE stage[w] = MapsDb /\ (Begin(w) \/ Fetch(w) \/ DeleteOld(w))
  <2>1. Repairs(w)'
    BY <1>1, <1>4 DEF Begin, Fetch, DeleteOld, WorkerMoves, Repairs
  <2>2. QED
    BY <2>1
<1>5. CASE stage[w] = MapsDb /\ FetchFails(w)
  <2>1. MapsDb \in failed'[w]
    BY <1>1, <1>5 DEF FetchFails
  <2>2. QED
    BY <2>1
<1>6. CASE stage[w] = MapsDb /\ RenameTmp(w)
  <2>1. Holds(w, MapsDb) /\ MapsDb \notin shared
    BY <1>2, <1>6 DEF RenameTmp, WorkerMoves, Holds
  <2>2. tmp[MapsDb]
    BY <1>1, <1>3, <2>1 DEF HeldByOne
  <2>3. file'[MapsDb] = "usable"
    BY <1>1, <1>3, <1>6, <2>2 DEF RenameTmp
  <2>4. QED
    BY <2>3
<1>7. CASE stage[w] # MapsDb \/ Finish(w) \/ Await(w) \/ Switch(w)
  <2>1. file[MapsDb] = "absent"
    BY <1>1, <1>3, <1>7 DEF Worker, Begin, Fetch, FetchFails, DeleteOld, RenameTmp, Finish, Await,
          Switch, fileVars
  <2>2. ~Repairs(w)
    BY <1>7 DEF Repairs, Finish, Await, Switch, WorkerMoves
  <2>3. MapsDb \notin shared
    BY <1>2
  <2>4. PICK v \in Workers : Repairs(v) \/ clearing[v] = "start" \/ MapsDb \in failed[v]
    BY <1>1, <2>1, <2>3 DEF MissingIsBeingRepaired
  <2>5. Repairs(v) => Repairs(v)'
    BY <1>2, <2>2 DEF Repairs
  <2>6. QED
    BY <1>2, <2>4, <2>5
<1>8. QED
  BY <1>4, <1>5, <1>6, <1>7 DEF Worker

-----------------------------------------------------------------------------
(* What is told *)

Error(w, s) == [kind |-> "error", by |-> w, of |-> s]

\* A worker that has just begun its first stage has passed none.
LEMMA NonePassed ==
  \A w \in Workers, s \in Stages : pc[w] # "ended" /\ stage[w] = 1 => ~Passed(w, s)
<1>1. \A s \in Stages : ~(s < 1)
  BY MenuAssumption DEF Stages
<1>2. QED
  BY <1>1 DEF Passed

\* The switch leaves its own stage behind, and no other.
LEMMA SwitchPasses ==
  ASSUME TypeOK, NEW w \in Workers, Switch(w), NEW s \in Stages
  PROVE  Passed(w, s)' <=> Passed(w, s) \/ s = stage[w]
<1>1. /\ pc \in [Workers -> PcValues] /\ stage \in [Workers -> Stages]
      /\ stage[w] \in 1 .. DbCount /\ s \in 1 .. DbCount /\ DbCount \in Nat
  BY MenuAssumption DEF TypeOK, PcValues, Stages
<1>2. CASE stage[w] = DbCount
  <2>1. pc'[w] = "ended"
    BY <1>1, <1>2 DEF Switch, WorkerMoves
  <2>2. s < stage[w] \/ s = stage[w]
    BY <1>1, <1>2
  <2>3. QED
    BY <2>1, <2>2 DEF Passed
<1>3. CASE stage[w] # DbCount
  <2>1. pc[w] = "switch" /\ pc'[w] = "begin" /\ stage'[w] = stage[w] + 1
    BY <1>1, <1>3 DEF Switch, WorkerMoves
  <2>2. s < stage[w] + 1 <=> s < stage[w] \/ s = stage[w]
    BY <1>1
  <2>3. QED
    BY <2>1, <2>2 DEF Passed
<1>4. QED
  BY <1>2, <1>3

\* A runnable that is posted tells what it is about ...
LEMMA ToldByPosting ==
  ASSUME ui \in Seq(Messages), NEW x \in Messages, ui' = Append(ui, x), UNCHANGED told,
         NEW w \in Workers, NEW s \in Stages
  PROVE  Told(w, s)' <=> Told(w, s) \/ x = Error(w, s)
<1>1. /\ Len(ui') = Len(ui) + 1 /\ Len(ui) \in Nat
      /\ \A i \in 1 .. Len(ui) : ui'[i] = ui[i]
      /\ ui'[Len(ui')] = x
  BY Posted
<1>2. \A i \in 1 .. Len(ui') : i \in 1 .. Len(ui) \/ i = Len(ui')
  BY <1>1
<1>3. \A i \in 1 .. Len(ui) : i \in 1 .. Len(ui')
  BY <1>1
<1>4. Len(ui') \in 1 .. Len(ui')
  BY <1>1
<1>5. QED
  BY <1>1, <1>2, <1>3, <1>4 DEF Told, Error

\* ... and one that is run has told it, unless it crashed.
LEMMA ToldByRunning ==
  ASSUME TypeOK, RunPosted, NEW w \in Workers, NEW s \in Stages
  PROVE  /\ Told(w, s)' => Told(w, s)
         /\ life' # "crashed" /\ Told(w, s) => Told(w, s)'
<1>1. ui \in Seq(Messages) /\ ui # <<>> /\ told \in [Workers -> SUBSET Stages]
  BY DEF TypeOK, Messages, RunPosted
<1>2. /\ Tail(ui) \in Seq(Messages) /\ Head(ui) \in Messages /\ Head(ui) = ui[1]
      /\ Len(ui) \in Nat \ {0} /\ Len(Tail(ui)) = Len(ui) - 1
      /\ \A i \in 1 .. Len(Tail(ui)) : i + 1 \in 1 .. Len(ui) /\ Tail(ui)[i] = ui[i + 1]
  BY <1>1, RunFirst
<1>3. ui' = Tail(ui) /\ 1 \in 1 .. Len(ui) /\ Head(ui).by \in Workers /\ Head(ui).of \in Stages
  BY <1>2 DEF RunPosted, Messages
<1>4. \A i \in 1 .. Len(ui) : i = 1 \/ (i - 1 \in 1 .. Len(Tail(ui)) /\ ui[i] = Tail(ui)[i - 1])
  <2>1. \A i \in 1 .. Len(ui) : i = 1 \/ (i - 1 \in 1 .. Len(Tail(ui)) /\ i - 1 + 1 = i)
    BY <1>2
  <2>2. QED
    BY <1>2, <2>1
<1>5. Head(ui) = Error(w, s) <=> Head(ui).kind = "error" /\ Head(ui).by = w /\ Head(ui).of = s
  BY <1>2 DEF Error, Messages
<1>6. s \in told'[w] <=> s \in told[w] \/ (d # "null" /\ Head(ui) = Error(w, s))
  BY <1>1, <1>3, <1>5 DEF RunPosted
<1>7. life' # "crashed" => d # "null"
  BY DEF RunPosted
<1>8. ASSUME Told(w, s)' PROVE Told(w, s)
  BY <1>2, <1>3, <1>6, <1>8 DEF Told, Error
<1>9. ASSUME life' # "crashed", Told(w, s) PROVE Told(w, s)'
  <2>1. CASE s \in told[w]
    BY <1>6, <2>1 DEF Told
  <2>2. CASE \E i \in 1 .. Len(ui) : ui[i] = Error(w, s)
    <3>1. PICK i \in 1 .. Len(ui) : ui[i] = Error(w, s)
      BY <2>2
    <3>2. CASE i = 1
      BY <1>2, <1>6, <1>7, <1>9, <3>1, <3>2 DEF Told
    <3>3. CASE i # 1
      <4>1. i - 1 \in 1 .. Len(ui') /\ ui'[i - 1] = Error(w, s)
        BY <1>3, <1>4, <3>1, <3>3
      <4>2. QED
        BY <4>1 DEF Told, Error
    <3>4. QED
      BY <3>2, <3>3
  <2>3. QED
    BY <1>9, <2>1, <2>2 DEF Told, Error
<1>10. QED
  BY <1>8, <1>9

\* A step that leaves the workers alone, and all that is told of them.
LEMMA TellStay ==
  ASSUME TellInv, UNCHANGED <<pc, stage, loadState, failed, overtaken>>,
         life' # "crashed" => life # "crashed",
         \A w \in Workers, s \in Stages :
           /\ Told(w, s)' => Told(w, s)
           /\ life' # "crashed" /\ Told(w, s) => Told(w, s)'
  PROVE  TellInv'
<1>1. \A w \in Workers, s \in Stages : Passed(w, s)' <=> Passed(w, s)
  BY DEF Passed
<1>2. ReadsOwn' /\ FailedSoFar' /\ ToldIsPassed'
  BY <1>1 DEF TellInv, ReadsOwn, FailedSoFar, ToldIsPassed
<1>3. FailureIsTold'
  BY <1>1 DEF TellInv, FailureIsTold
<1>4. QED
  BY <1>2, <1>3 DEF TellInv

\* A worker that begins has nothing behind it.
LEMMA LaunchTells ==
  ASSUME TypeOK, NoWorkerAhead, TellInv, NEW w \in Workers, pc[w] = "none", Launch(w),
         UNCHANGED <<ui, told, failed, overtaken, loadState>>,
         life' # "crashed" => life # "crashed"
  PROVE  TellInv'
<1>1. /\ pc \in [Workers -> PcValues] /\ stage \in [Workers -> Stages]
      /\ failed \in [Workers -> SUBSET Stages] /\ stage[w] = 1
  BY DEF TypeOK, PcValues, NoWorkerAhead
<1>2. /\ pc'[w] = "begin" /\ stage'[w] = 1
      /\ \A v \in Workers \ {w} : pc'[v] = pc[v] /\ stage'[v] = stage[v]
  BY <1>1 DEF Launch
<1>3. \A s \in Stages : ~Passed(w, s)
  BY <1>1, NonePassed
<1>4. \A s \in Stages : ~Passed(w, s)'
  <2>1. \A s \in Stages : ~(s < 1)
    BY MenuAssumption DEF Stages
  <2>2. QED
    BY <1>2, <2>1 DEF Passed
<1>5. \A s \in Stages : s \notin failed[w] /\ ~Told(w, s)
  BY <1>3 DEF TellInv, FailedSoFar, ToldIsPassed
<1>6. \A v \in Workers, s \in Stages : (Passed(v, s)' <=> Passed(v, s)) /\ (Told(v, s)' <=> Told(v, s))
  BY <1>2, <1>3, <1>4 DEF Passed, Told
<1>7. ReadsOwn'
  BY <1>2 DEF TellInv, ReadsOwn
<1>8. FailedSoFar'
  BY <1>2, <1>5, <1>6 DEF TellInv, FailedSoFar
<1>9. ToldIsPassed' /\ FailureIsTold'
  BY <1>6 DEF TellInv, ToldIsPassed, FailureIsTold
<1>10. QED
  BY <1>7, <1>8, <1>9 DEF TellInv

\* A worker's step: its last write of the load state is what it reads, and the switch
\* tells it.
LEMMA WorkerTells ==
  ASSUME MenuInv, NEW w \in Workers, Worker(w)
  PROVE  TellInv'
<1>1. /\ TypeOK /\ ReadsOwn /\ FailedSoFar /\ ToldIsPassed /\ FailureIsTold
      /\ loadState \in [Stages -> 0 .. 3] /\ stage[w] \in Stages /\ ui \in Seq(Messages)
      /\ pc \in [Workers -> PcValues] /\ stage \in [Workers -> Stages]
      /\ failed \in [Workers -> SUBSET Stages]
  BY DEF MenuInv, TellInv, TypeOK, PcValues, Messages
<1>2. /\ \A v \in Workers \ {w} :
           pc'[v] = pc[v] /\ stage'[v] = stage[v] /\ failed'[v] = failed[v]
      /\ \A v \in Workers : overtaken[v] \subseteq overtaken'[v]
      /\ UNCHANGED <<screenVars, told>>
  BY <1>1, WorkerFrame
<1>3. life' = life
  BY <1>2 DEF screenVars
<1>4. CASE Switch(w)
  <2>1. /\ pc[w] = "switch" /\ pc'[w] \in {"begin", "ended"}
        /\ UNCHANGED <<loadState, failed, overtaken>>
    BY <1>1, <1>4 DEF Switch, WorkerMoves, fileVars
  <2>2. \A v \in Workers, s \in Stages : v # w => (Passed(v, s)' <=> Passed(v, s))
    BY <1>2 DEF Passed
  <2>3. \A s \in Stages : Passed(w, s)' <=> Passed(w, s) \/ s = stage[w]
    BY <1>1, <1>4, SwitchPasses
  <2>4. ~Passed(w, stage[w])
    <3>1. ~(stage[w] < stage[w])
      BY <1>1, MenuAssumption DEF Stages
    <3>2. QED
      BY <2>1, <3>1 DEF Passed
  <2>5. ReadsOwn'
    BY <1>1, <1>2, <2>1 DEF ReadsOwn
  <2>6. \A v \in Workers, s \in Stages :
          Told(v, s)' <=> Told(v, s) \/ (v = w /\ s = stage[w] /\ loadState[s] = 2)
    <3>1. CASE loadState[stage[w]] = 2
      <4>1. Error(w, stage[w]) \in Messages /\ ui' = Append(ui, Error(w, stage[w]))
        BY <1>1, <1>4, <3>1 DEF Switch, Messages, Error
      <4>2. ASSUME NEW v \in Workers, NEW s \in Stages
            PROVE  Told(v, s)' <=> Told(v, s) \/ Error(w, stage[w]) = Error(v, s)
        BY <1>1, <1>2, <4>1, ToldByPosting
      <4>3. ASSUME NEW v \in Workers, NEW s \in Stages
            PROVE  Error(w, stage[w]) = Error(v, s) <=> v = w /\ s = stage[w]
        BY DEF Error
      <4>4. QED
        BY <3>1, <4>2, <4>3
    <3>2. CASE loadState[stage[w]] # 2
      <4>1. ui' = ui
        BY <1>4, <3>2 DEF Switch
      <4>2. \A v \in Workers, s \in Stages : Told(v, s)' <=> Told(v, s)
        BY <1>2, <4>1 DEF Told
      <4>3. QED
        BY <3>2, <4>2
    <3>3. QED
      BY <3>1, <3>2
  <2>7. FailedSoFar'
    <3>1. \A v \in Workers, s \in Stages : Passed(v, s) => Passed(v, s)'
      BY <2>2, <2>3
    <3>2. \A s \in Stages : s \in failed[w] => Passed(w, s)'
      BY <1>1, <2>3 DEF FailedSoFar
    <3>3. QED
      BY <1>1, <1>2, <2>1, <3>1, <3>2 DEF FailedSoFar
  <2>8. ToldIsPassed'
    BY <1>1, <2>2, <2>3, <2>6 DEF ToldIsPassed
  <2>9. FailureIsTold'
    <3> SUFFICES ASSUME life # "crashed", NEW v \in Workers, NEW s \in Stages,
                        Passed(v, s)', s \notin overtaken[v]
                 PROVE  s \in failed[v] <=> Told(v, s)'
      BY <1>3, <2>1 DEF FailureIsTold
    <3>1. CASE v = w /\ s = stage[w]
      <4>1. s \in failed[v] <=> loadState[s] = 2
        BY <1>1, <2>1, <3>1 DEF ReadsOwn
      <4>2. ~Told(v, s)
        BY <1>1, <2>4, <3>1 DEF ToldIsPassed
      <4>3. QED
        BY <2>6, <3>1, <4>1, <4>2
    <3>2. CASE ~(v = w /\ s = stage[w])
      <4>1. Passed(v, s)
        BY <2>2, <2>3, <3>2
      <4>2. QED
        BY <1>1, <2>6, <3>2, <4>1 DEF FailureIsTold
    <3>3. QED
      BY <3>1, <3>2
  <2>10. QED
    BY <2>5, <2>7, <2>8, <2>9 DEF TellInv
<1>5. CASE ~Switch(w)
  <2>1. UNCHANGED <<stage, ui>> /\ pc[w] # "switch" /\ pc[w] # "ended" /\ pc'[w] # "ended"
    BY <1>1, <1>5 DEF Worker, Begin, Fetch, FetchFails, DeleteOld, RenameTmp, Finish, Await,
          WorkerMoves, fileVars
  <2>2. \A v \in Workers, s \in Stages : (Passed(v, s)' <=> Passed(v, s)) /\ (Told(v, s)' <=> Told(v, s))
    BY <1>2, <2>1 DEF Passed, Told
  <2>3. /\ \A s \in Stages : s \in failed'[w] =>
             s \in failed[w] \/ (s = stage[w] /\ pc'[w] = "await")
        /\ pc[w] = "await" => pc'[w] = "switch"
    BY <1>1, <1>5 DEF Worker, Begin, Fetch, FetchFails, DeleteOld, RenameTmp, Finish, Await, WorkerMoves
  <2>4. FailedSoFar'
    BY <1>1, <1>2, <2>1, <2>2, <2>3 DEF FailedSoFar
  <2>5. ToldIsPassed'
    BY <1>1, <2>2 DEF ToldIsPassed
  <2>6. FailureIsTold'
    <3>1. ~Passed(w, stage[w])
      <4>1. ~(stage[w] < stage[w])
        BY <1>1, MenuAssumption DEF Stages
      <4>2. QED
        BY <2>1, <4>1 DEF Passed
    <3>2. \A v \in Workers, s \in Stages : Passed(v, s) => (s \in failed'[v] <=> s \in failed[v])
      <4>1. \A s \in Stages : Passed(w, s) => (s \in failed'[w] <=> s \in failed[w])
        BY <1>1, <2>3, <3>1, WorkerFrame
      <4>2. QED
        BY <1>2, <4>1
    <3>3. \A v \in Workers, s \in Stages : s \notin overtaken'[v] => s \notin overtaken[v]
      BY <1>2
    <3>4. QED
      BY <1>1, <1>3, <2>2, <3>2, <3>3 DEF FailureIsTold
  <2>7. ReadsOwn'
    <3>1. CASE Begin(w) \/ FetchFails(w) \/ Finish(w)
      <4>1. ASSUME NEW v \in Workers \ {w}, pc'[v] \in {"await", "switch"},
                   stage'[v] \notin overtaken'[v]
            PROVE  loadState'[stage'[v]] = 2 <=> stage'[v] \in failed'[v]
        <5>1. stage[v] # stage[w]
          BY <1>1, <1>2, <3>1, <4>1 DEF Begin, FetchFails, Finish, SetLoadState
        <5>2. loadState'[stage[v]] = loadState[stage[v]]
          BY <1>1, <3>1, <5>1 DEF Begin, FetchFails, Finish, SetLoadState
        <5>3. QED
          BY <1>1, <1>2, <4>1, <5>2 DEF ReadsOwn
      <4>2. pc'[w] \in {"await", "switch"} => (loadState'[stage'[w]] = 2 <=> stage'[w] \in failed'[w])
        <5>1. CASE Begin(w)
          BY <1>1, <5>1 DEF Begin, WorkerMoves
        <5>2. CASE FetchFails(w)
          BY <1>1, <5>2 DEF FetchFails, SetLoadState
        <5>3. CASE Finish(w)
          <6>1. stage[w] \notin failed[w]
            <7>1. pc[w] = "finish" /\ ~(stage[w] < stage[w])
              BY <1>1, <5>3, MenuAssumption DEF Finish, WorkerMoves, Stages
            <7>2. QED
              BY <1>1, <7>1 DEF FailedSoFar, Passed
          <6>2. QED
            BY <1>1, <5>3, <6>1 DEF Finish, SetLoadState
        <5>4. QED
          BY <3>1, <5>1, <5>2, <5>3
      <4>3. QED
        BY <4>1, <4>2 DEF ReadsOwn
    <3>2. CASE Fetch(w) \/ DeleteOld(w) \/ RenameTmp(w) \/ Await(w)
      <4>1. UNCHANGED <<loadState, failed, overtaken, stage>>
        BY <3>2 DEF Fetch, DeleteOld, RenameTmp, Await, fileVars
      <4>2. \A v \in Workers : pc'[v] \in {"await", "switch"} => pc[v] \in {"await", "switch"}
        BY <1>1, <1>2, <3>2 DEF Fetch, DeleteOld, RenameTmp, Await, WorkerMoves
      <4>3. QED
        BY <1>1, <4>1, <4>2 DEF ReadsOwn
    <3>3. QED
      BY <1>5, <3>1, <3>2 DEF Worker
  <2>8. QED
    BY <2>4, <2>5, <2>6, <2>7 DEF TellInv
<1>6. QED
  BY <1>4, <1>5

-----------------------------------------------------------------------------
(* The other steps *)

\* A step that leaves the files and the threads alone.
LEMMA FilesStay ==
  ASSUME NoWorkerAhead, FileInv, UNCHANGED <<tmp, workerVars, clearing, failed, shared>>,
         Running' => Running, file'[MapsDb] = "absent" => file[MapsDb] = "absent"
  PROVE  NoWorkerAhead' /\ FileInv'
<1>1. UNCHANGED <<started, pc, stage>>
  BY DEF workerVars
<1>2. NoWorkerAhead'
  BY <1>1 DEF NoWorkerAhead
<1>3. HeldByOne'
  BY <1>1 DEF FileInv, HeldByOne, Holds
<1>4. MissingIsBeingRepaired'
  <2>1. \A w \in Workers : Repairs(w) => Repairs(w)'
    BY <1>1 DEF Repairs
  <2>2. QED
    BY <2>1 DEF FileInv, MissingIsBeingRepaired
<1>5. QED
  BY <1>2, <1>3, <1>4 DEF FileInv

\* A worker that begins: no other is disturbed, and it will repair the maps.
LEMMA LaunchFiles ==
  ASSUME TypeOK, NoWorkerAhead, FileInv, NEW w \in Workers, pc[w] = "none", Launch(w),
         UNCHANGED <<tmp, shared>>
  PROVE  HeldByOne' /\ MissingIsBeingRepaired'
<1>1. /\ pc \in [Workers -> PcValues] /\ stage \in [Workers -> Stages]
  BY DEF TypeOK, PcValues
<1>2. /\ pc'[w] = "begin" /\ stage'[w] = MapsDb
      /\ \A v \in Workers \ {w} : pc'[v] = pc[v] /\ stage'[v] = stage[v]
  BY <1>1 DEF Launch, MapsDb
<1>3. \A v \in Workers, s \in Stages : Holds(v, s)' => Holds(v, s)
  BY <1>2 DEF Holds
<1>4. HeldByOne'
  BY <1>3 DEF FileInv, HeldByOne
<1>5. Repairs(w)'
  BY <1>2 DEF Repairs
<1>6. QED
  BY <1>4, <1>5 DEF MissingIsBeingRepaired

LEMMA StartStep ==
  ASSUME MenuInv, StartWorker, UNCHANGED <<fileVars, clearing, ui, ghostVars>>,
         life' # "crashed" => life # "crashed"
  PROVE  NoWorkerAhead' /\ FileInv' /\ TellInv'
<1>1. /\ TypeOK /\ NoWorkerAhead /\ FileInv /\ TellInv
      /\ pc \in [Workers -> PcValues] /\ stage \in [Workers -> Stages]
      /\ started \in 0 .. MaxWorkers /\ MaxWorkers \in Nat
  BY MenuAssumption DEF MenuInv, TypeOK, PcValues
<1>2. started' \in Workers /\ started' = started + 1
  BY <1>1, TypesInParts, StartTypes
<1>3. started' > started /\ \A v \in Workers : v > started' => v > started
  BY <1>1, <1>2 DEF Workers
<1>4. Launch(started') /\ pc[started'] = "none" /\ clearing[started'] = "none"
  BY <1>1, <1>2, <1>3 DEF StartWorker, NoWorkerAhead
<1>5. HeldByOne' /\ MissingIsBeingRepaired'
  BY <1>1, <1>2, <1>4, LaunchFiles DEF fileVars, ghostVars
<1>6. TellInv'
  BY <1>1, <1>2, <1>4, LaunchTells DEF fileVars, ghostVars
<1>7. NoWorkerAhead'
  <2>1. /\ pc'[started'] = "begin" /\ UNCHANGED clearing
        /\ \A v \in Workers \ {started'} : pc'[v] = pc[v] /\ stage'[v] = stage[v]
    BY <1>1, <1>2, <1>4 DEF Launch
  <2>2. ~(started' > started')
    BY <1>1, <1>2
  <2>3. ASSUME NEW v \in Workers
        PROVE  /\ v > started' => pc'[v] = "none" /\ clearing'[v] = "none"
               /\ clearing'[v] \in {"delete", "start"} => pc'[v] = "none"
               /\ pc'[v] = "none" => stage'[v] = 1
    <3>1. CASE v = started'
      BY <1>4, <2>1, <2>2, <3>1
    <3>2. CASE v # started'
      BY <1>1, <1>3, <2>1, <3>2 DEF NoWorkerAhead
    <3>3. QED
      BY <3>1, <3>2
  <2>4. QED
    BY <2>3 DEF NoWorkerAhead
<1>8. QED
  BY <1>5, <1>6, <1>7 DEF FileInv

\* A clearCache thread is about to start a worker, or starts it.
LEMMA ClearStep ==
  ASSUME MenuInv, NEW w \in Workers, ClearThread(w)
  PROVE  NoWorkerAhead' /\ FileInv' /\ TellInv'
<1>1. /\ TypeOK /\ NoWorkerAhead /\ FileInv /\ TellInv
      /\ pc \in [Workers -> PcValues] /\ stage \in [Workers -> Stages]
      /\ clearing \in [Workers -> {"none", "delete", "start", "post"}]
      /\ ui \in Seq(Messages)
  BY DEF MenuInv, TypeOK, PcValues, Messages
<1>2. CASE DeleteMaps(w)
  <2>1. /\ clearing[w] = "delete" /\ clearing'[w] = "start"
        /\ \A v \in Workers \ {w} : clearing'[v] = clearing[v]
        /\ UNCHANGED <<tmp, loadState, started, pc, stage, ui, screenVars, ghostVars>>
    BY <1>1, <1>2 DEF DeleteMaps, ClearMoves, workerVars
  <2>2. NoWorkerAhead'
    BY <1>1, <2>1 DEF NoWorkerAhead
  <2>3. HeldByOne'
    BY <1>1, <2>1 DEF FileInv, HeldByOne, Holds, ghostVars
  <2>4. MissingIsBeingRepaired'
    BY <2>1 DEF MissingIsBeingRepaired
  <2>5. TellInv'
    <3>1. UNCHANGED <<life, told, failed, overtaken>>
      BY <2>1 DEF screenVars, ghostVars
    <3>2. \A v \in Workers, s \in Stages : Told(v, s)' <=> Told(v, s)
      BY <2>1, <3>1 DEF Told
    <3>3. QED
      BY <1>1, <2>1, <3>1, <3>2, TellStay
  <2>6. QED
    BY <2>2, <2>3, <2>4, <2>5 DEF FileInv
<1>3. CASE StartAgain(w)
  <2>1. /\ clearing[w] = "start" /\ clearing'[w] = "post" /\ pc[w] = "none" /\ Launch(w)
        /\ \A v \in Workers \ {w} : clearing'[v] = clearing[v]
        /\ UNCHANGED <<fileVars, started, ui, screenVars, ghostVars>>
    BY <1>1, <1>3 DEF StartAgain, ClearMoves, NoWorkerAhead
  <2>2. HeldByOne' /\ MissingIsBeingRepaired'
    BY <1>1, <2>1, LaunchFiles DEF fileVars, ghostVars
  <2>3. TellInv'
    BY <1>1, <2>1, LaunchTells DEF fileVars, ghostVars, screenVars
  <2>4. NoWorkerAhead'
    <3>1. /\ pc'[w] = "begin" /\ ~(w > started)
          /\ \A v \in Workers \ {w} : pc'[v] = pc[v] /\ stage'[v] = stage[v]
      BY <1>1, <2>1 DEF Launch, NoWorkerAhead
    <3>2. QED
      BY <1>1, <2>1, <3>1 DEF NoWorkerAhead
  <2>5. QED
    BY <2>2, <2>3, <2>4 DEF FileInv
<1>4. CASE PostCleared(w)
  <2>1. /\ clearing[w] = "post" /\ clearing'[w] = "none"
        /\ \A v \in Workers \ {w} : clearing'[v] = clearing[v]
        /\ UNCHANGED <<file, tmp, loadState, started, pc, stage, screenVars, ghostVars>>
    BY <1>1, <1>4 DEF PostCleared, ClearMoves, workerVars, fileVars
  <2>2. NoWorkerAhead'
    BY <1>1, <2>1 DEF NoWorkerAhead
  <2>3. HeldByOne'
    BY <1>1, <2>1 DEF FileInv, HeldByOne, Holds, ghostVars
  <2>4. MissingIsBeingRepaired'
    <3>1. \A v \in Workers : /\ Repairs(v) => Repairs(v)'
                             /\ clearing[v] = "start" => clearing'[v] = "start"
      BY <2>1 DEF Repairs
    <3>2. QED
      BY <1>1, <2>1, <3>1 DEF FileInv, MissingIsBeingRepaired, Running, ghostVars, screenVars
  <2>5. TellInv'
    <3>1. UNCHANGED <<life, told, failed, overtaken>>
      BY <2>1 DEF screenVars, ghostVars
    <3> DEFINE x == [kind |-> "cleared", by |-> w, of |-> MapsDb]
    <3>2. x \in Messages /\ ui' = Append(ui, x)
      BY <1>4, Bounds DEF Messages, PostCleared
    <3>3. \A v \in Workers, s \in Stages : x # Error(v, s)
      BY DEF Error
    <3>4. ASSUME NEW v \in Workers, NEW s \in Stages PROVE Told(v, s)' <=> Told(v, s)
      <4> HIDE DEF x
      <4>1. QED
        BY <1>1, <3>1, <3>2, <3>3, ToldByPosting
    <3>5. QED
      BY <1>1, <2>1, <3>1, <3>4, TellStay
  <2>6. QED
    BY <2>2, <2>3, <2>4, <2>5 DEF FileInv
<1>5. QED
  BY <1>2, <1>3, <1>4 DEF ClearThread

LEMMA MenuStep ==
  ASSUME MenuInv, [Next]_vars
  PROVE  MenuInv'
<1>1. TypeOK'
  BY TypeStep DEF MenuInv
<1> SUFFICES NoWorkerAhead' /\ FileInv' /\ TellInv'
  BY <1>1 DEF MenuInv
<1>2. /\ TypeOK /\ NoWorkerAhead /\ FileInv /\ TellInv /\ MapsDb \in Stages
      /\ file \in [Stages -> {"absent", "skeleton", "usable"}]
      /\ started \in 0 .. MaxWorkers /\ MaxWorkers \in Nat
  BY Bounds, MenuAssumption DEF MenuInv, TypeOK
<1>3. CASE OpenMap \/ ChooseMap \/ DismissAlert \/ LeaveAndReturn \/ UNCHANGED vars
  <2>1. UNCHANGED <<tmp, loadState, workerVars, clearing, ui, life, ghostVars>>
    BY <1>3 DEF OpenMap, ChooseMap, DismissAlert, LeaveAndReturn, fileVars, vars, screenVars
  <2>2. UNCHANGED <<pc, stage, failed, overtaken, told, shared>>
    BY <2>1 DEF workerVars, ghostVars
  <2>3. file'[MapsDb] = "absent" => file[MapsDb] = "absent"
    BY <1>2, <1>3 DEF OpenMap, ChooseMap, DismissAlert, LeaveAndReturn, fileVars, vars
  <2>4. NoWorkerAhead' /\ FileInv'
    BY <1>2, <2>1, <2>2, <2>3, FilesStay DEF Running
  <2>5. \A w \in Workers, s \in Stages : Told(w, s)' <=> Told(w, s)
    BY <2>1, <2>2 DEF Told
  <2>6. QED
    BY <1>2, <2>1, <2>2, <2>4, <2>5, TellStay
<1>4. CASE RunPosted
  <2>1. UNCHANGED <<fileVars, workerVars, clearing, failed, overtaken, shared>>
    BY <1>4 DEF RunPosted
  <2>2. Running /\ life # "crashed"
    BY <1>4 DEF RunPosted, Running
  <2>3. NoWorkerAhead' /\ FileInv'
    BY <1>2, <2>1, <2>2, FilesStay DEF fileVars
  <2>4. ASSUME NEW w \in Workers, NEW s \in Stages
        PROVE  /\ Told(w, s)' => Told(w, s)
               /\ life' # "crashed" /\ Told(w, s) => Told(w, s)'
    BY <1>2, <1>4, ToldByRunning
  <2>5. QED
    BY <1>2, <2>1, <2>2, <2>3, <2>4, TellStay DEF fileVars, workerVars
<1>5. CASE ClearData
  <2>1. /\ started' = started + 1 /\ started' \in Workers
        /\ clearing' = [clearing EXCEPT ![started'] = "delete"]
        /\ UNCHANGED <<fileVars, pc, stage, ui, life, ghostVars>>
    BY <1>2, <1>5, Bounds DEF ClearData, Room
  <2>2. /\ started' > started /\ ~(started' > started')
        /\ \A v \in Workers : v > started' => v > started
    BY <1>2, <2>1 DEF Workers
  <2>3. /\ clearing[started'] = "none" /\ pc[started'] = "none" /\ clearing'[started'] = "delete"
        /\ \A v \in Workers \ {started'} : clearing'[v] = clearing[v]
    BY <1>2, <2>1, <2>2 DEF NoWorkerAhead, TypeOK
  <2>4. NoWorkerAhead'
    <3>1. ASSUME NEW v \in Workers
          PROVE  /\ v > started' => pc'[v] = "none" /\ clearing'[v] = "none"
                 /\ clearing'[v] \in {"delete", "start"} => pc'[v] = "none"
                 /\ pc'[v] = "none" => stage'[v] = 1
      <4>1. CASE v = started'
        BY <1>2, <2>1, <2>2, <2>3, <4>1 DEF NoWorkerAhead
      <4>2. CASE v # started'
        BY <1>2, <2>1, <2>2, <2>3, <4>2 DEF NoWorkerAhead
      <4>3. QED
        BY <4>1, <4>2
    <3>2. QED
      BY <3>1 DEF NoWorkerAhead
  <2>5. HeldByOne'
    BY <1>2, <2>1 DEF FileInv, HeldByOne, Holds, fileVars, ghostVars
  <2>6. MissingIsBeingRepaired'
    <3>1. \A v \in Workers : /\ Repairs(v) => Repairs(v)'
                             /\ clearing[v] = "start" => clearing'[v] = "start"
      BY <2>1, <2>3 DEF Repairs
    <3>2. QED
      BY <1>2, <2>1, <3>1 DEF FileInv, MissingIsBeingRepaired, Running, fileVars, ghostVars
  <2>7. \A w \in Workers, s \in Stages : Told(w, s)' <=> Told(w, s)
    BY <2>1 DEF Told, ghostVars
  <2>8. TellInv'
    BY <1>2, <2>1, <2>7, TellStay DEF fileVars, ghostVars
  <2>9. QED
    BY <2>4, <2>5, <2>6, <2>8 DEF FileInv
<1>6. CASE AcceptCorrupted \/ NewDatabase
  <2>1. StartWorker /\ UNCHANGED <<fileVars, clearing, ui, life, ghostVars>>
    BY <1>6 DEF AcceptCorrupted, NewDatabase
  <2>2. QED
    BY <2>1, StartStep
<1>7. CASE CreateActivity
  <2>1. life = "dead" /\ UNCHANGED <<fileVars, clearing, ui, ghostVars>>
    BY <1>7 DEF CreateActivity
  <2>2. CASE file[MapsDb] = "absent"
    BY <1>7, <2>1, <2>2, StartStep DEF CreateActivity
  <2>3. CASE file[MapsDb] # "absent"
    <3>1. UNCHANGED <<started, pc, stage, file, tmp, loadState, failed, told, overtaken, shared>>
      BY <1>7, <2>1, <2>3 DEF CreateActivity, workerVars, fileVars, ghostVars
    <3>2. NoWorkerAhead'
      BY <1>2, <2>1, <3>1 DEF NoWorkerAhead
    <3>3. HeldByOne'
      BY <1>2, <3>1 DEF FileInv, HeldByOne, Holds
    <3>4. MissingIsBeingRepaired'
      BY <2>3, <3>1 DEF MissingIsBeingRepaired
    <3>5. \A w \in Workers, s \in Stages : Told(w, s)' <=> Told(w, s)
      BY <2>1, <3>1 DEF Told
    <3>6. TellInv'
      BY <1>2, <2>1, <3>1, <3>5, TellStay
    <3>7. QED
      BY <3>2, <3>3, <3>4, <3>6 DEF FileInv
  <2>4. QED
    BY <2>2, <2>3
<1>8. CASE Kill
  <2>1. /\ \A w \in Workers : /\ pc'[w] = IF w <= started THEN "ended" ELSE "none"
                              /\ stage'[w] = 1 /\ clearing'[w] = "none"
                              /\ failed'[w] = {} /\ told'[w] = {}
        /\ UNCHANGED started /\ life' = "dead" /\ ui' = <<>>
    BY <1>8 DEF Kill
  <2>2. NoWorkerAhead'
    <3>1. \A w \in Workers : w > started => ~(w <= started)
      BY <1>2 DEF Workers
    <3>2. QED
      BY <2>1, <3>1 DEF NoWorkerAhead
  <2>3. HeldByOne' /\ MissingIsBeingRepaired'
    BY <2>1 DEF HeldByOne, Holds, MissingIsBeingRepaired, Running
  <2>4. \A w \in Workers, s \in Stages : ~Told(w, s)'
    <3>1. Len(ui') = 0
      BY <2>1
    <3>2. 1 .. 0 = {}
      OBVIOUS
    <3>3. QED
      BY <2>1, <3>1, <3>2 DEF Told
  <2>5. ReadsOwn' /\ FailedSoFar' /\ ToldIsPassed' /\ FailureIsTold'
    BY <2>1, <2>4 DEF ReadsOwn, FailedSoFar, ToldIsPassed, FailureIsTold
  <2>6. QED
    BY <2>2, <2>3, <2>5 DEF FileInv, TellInv
<1>9. ASSUME NEW w \in Workers, Worker(w) PROVE NoWorkerAhead' /\ FileInv' /\ TellInv'
  BY <1>9, WorkerAhead, WorkerHolds, WorkerRepairs, WorkerTells DEF FileInv
<1>10. ASSUME NEW w \in Workers, ClearThread(w) PROVE NoWorkerAhead' /\ FileInv' /\ TellInv'
  BY <1>10, ClearStep
<1>11. QED
  BY <1>3, <1>4, <1>5, <1>6, <1>7, <1>8, <1>9, <1>10 DEF Next, UserStep

-----------------------------------------------------------------------------
(* The theorems *)

LEMMA MenuInit == Init => MenuInv
<1> SUFFICES ASSUME Init PROVE MenuInv
  OBVIOUS
<1>1. started \in 0 .. MaxWorkers /\ ui \in Seq(Messages)
  BY Bounds, EmptySeq DEF Init
<1>2. loadState \in [Stages -> 0 .. 3] /\ stage \in [Workers -> Stages]
  BY Bounds DEF Init
<1>3. TypeOK
  BY <1>1, <1>2 DEF Init, TypeOK, Messages
<1>4. Len(ui) = 0 /\ 1 .. 0 = {}
  BY DEF Init
<1>5. \A w \in Workers, s \in Stages : ~Told(w, s)
  BY <1>4 DEF Init, Told
<1>6. NoWorkerAhead
  BY DEF Init, NoWorkerAhead
<1>7. FileInv
  BY DEF Init, FileInv, HeldByOne, Holds, MissingIsBeingRepaired, Running
<1>8. TellInv
  <2>1. \A w \in Workers, s \in Stages : ~Passed(w, s)
    BY NonePassed DEF Init
  <2>2. QED
    BY <1>5, <2>1 DEF Init, TellInv, ReadsOwn, FailedSoFar, ToldIsPassed, FailureIsTold
<1>9. QED
  BY <1>3, <1>6, <1>7, <1>8 DEF MenuInv

\* For any number of databases, workers and clearCache threads: while the menu is there,
\* maps.sqlite is missing only if a worker is about to put it there, a clearCache thread
\* is about to start one, or a worker of this process has failed to fetch it.  Nothing is
\* said once two workers had both written its .tmp file before either renamed it.
THEOREM MissingIsAlwaysBeingRepaired == Spec => []MissingIsBeingRepaired
<1>1. MenuInv /\ [Next]_vars => MenuInv'
  BY MenuStep
<1>2. MenuInv => MissingIsBeingRepaired
  BY DEF MenuInv, FileInv
<1>3. QED
  BY MenuInit, <1>1, <1>2, PTL DEF Spec

\* For any number of databases and of workers beside each other: the error runnables a
\* worker posts are those of the stages it failed, once it is past their switch.  A
\* stage whose load state another worker set after this worker's own last write is the
\* exception: of that one nothing is said.
THEOREM FailuresAreAlwaysTold == Spec => []FailuresAreTold
<1>1. MenuInv /\ [Next]_vars => MenuInv'
  BY MenuStep
<1>2. MenuInv => FailuresAreTold
  BY DEF MenuInv, TellInv, FailuresAreTold
<1>3. QED
  BY MenuInit, <1>1, <1>2, PTL DEF Spec
=============================================================================
