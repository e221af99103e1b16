----------------------- MODULE DownloadSession_proofs -----------------------
(***************************************************************************)
(* Theorems about DownloadSession, for every number of workers and pieces. *)
(***************************************************************************)
EXTENDS DownloadSession, DataInduction

-----------------------------------------------------------------------------
(* Type correctness.                                                        *)

\* The initial values have their types.
LEMMA InitType == Init => TypeOK
<1> SUFFICES ASSUME Init PROVE TypeOK
  OBVIOUS
<1>1. cursor \in FirstPiece..NPiece /\ wg \in Int
  BY PieceAssumption DEF Init
<1>2. /\ workers \in [Worker -> WorkerState]
      /\ held \in [Worker -> Piece \cup {Nil}]
  BY DEF Init, WorkerState
<1>3. jobs \in Seq(Piece \cup {Nil})
  BY DEF Init
<1> QED
  BY <1>1, <1>2, <1>3 DEF Init, TypeOK, WaiterState

\* The steps of worker w keep the types.
LEMMA WorkerType ==
  ASSUME TypeOK, NEW w \in Worker, WorkerStep(w) \/ WorkerFail(w)
  PROVE  TypeOK'
<1> USE DEF TypeOK, Goto, WorkerState, shutdownVars, serviceVars
<1>1. CASE WorkerStart(w)
  BY <1>1 DEF WorkerStart
<1>2. CASE WorkerQuit(w)
  BY <1>2 DEF WorkerQuit, Exit, WaiterState
<1>3. CASE WorkerTakeNil(w)
  BY <1>3 DEF WorkerTakeNil, Exit, WaiterState
<1>4. CASE WorkerTake(w)
  <2>1. Head(jobs) \in Piece \cup {Nil} /\ Tail(jobs) \in Seq(Piece \cup {Nil})
    BY <1>4 DEF WorkerTake
  <2> QED
    BY <1>4, <2>1 DEF WorkerTake
<1>5. CASE WorkerDownload(w)
  BY <1>5 DEF WorkerDownload
<1>6. CASE WorkerFail(w)
  BY <1>6 DEF WorkerFail
<1>7. CASE WorkerRelease(w)
  BY <1>7 DEF WorkerRelease
<1> QED
  BY <1>1, <1>2, <1>3, <1>4, <1>5, <1>6, <1>7 DEF WorkerStep

\* The rendezvous of worker w with the services keep the types.
LEMMA RendezvousType ==
  ASSUME TypeOK, HandsExact, NEW w \in Worker, Rendezvous(w)
  PROVE  TypeOK'
<1> USE DEF TypeOK, Goto, WorkerState, shutdownVars, serviceVars
<1>1. CASE SchedulerReceive(w)
  BY <1>1 DEF SchedulerReceive
<1>2. CASE DispatcherReceive(w)
  BY <1>2 DEF DispatcherReceive
<1>3. CASE DispatcherRespond(w)
  BY <1>3 DEF DispatcherRespond
<1>4. CASE WriterReceive(w)
  <2>1. held[w] \in Piece
    BY <1>4 DEF WriterReceive, HandsExact, Busy
  <2> QED
    BY <1>4, <2>1 DEF WriterReceive
<1> QED
  BY <1>1, <1>2, <1>3, <1>4 DEF Rendezvous

\* The steps of the scheduler, the waiter, the dispatcher and the writer keep
\* the types.
LEMMA ServiceType ==
  ASSUME TypeOK, ServiceStep
  PROVE  TypeOK'
<1> USE DEF TypeOK, shutdownVars, serviceVars
<1>1. CASE SchedulerPick
  <2>1. NextPiece \in Piece \cup {Nil} /\ cursor' \in FirstPiece..NPiece
    BY <1>1, PieceAssumption DEF SchedulerPick, NextPiece, NextCursor, Piece
  <2>3. elsewhere' = elsewhere /\ elsewhere' \subseteq FirstPiece..(cursor' - 1)
    BY <1>1, PieceAssumption DEF SchedulerPick, NextCursor
  <2>2. waiter' \in WaiterState /\ completed' \in BOOLEAN
    <3>1. CASE waiter = "unborn" /\ cursor >= NPiece
      BY <1>1, <3>1 DEF SchedulerPick, LaunchWaiter, WaiterState
    <3>2. CASE waiter = "unborn" /\ ~(cursor >= NPiece) /\ shuttingDown
      BY <1>1, <3>2 DEF SchedulerPick, LaunchWaiter, WaiterState
    <3>3. CASE ~(waiter = "unborn" /\ (cursor >= NPiece \/ shuttingDown))
      BY <1>1, <3>3 DEF SchedulerPick, LaunchWaiter
    <3> QED
      BY <3>1, <3>2, <3>3
  <2> QED
    BY <1>1, <2>1, <2>2, <2>3 DEF SchedulerPick
<1>2. CASE SchedulerSeesCancel
  BY <1>2 DEF SchedulerSeesCancel
<1>3. CASE SchedulerReturn
  BY <1>3 DEF SchedulerReturn
<1>4. CASE WaiterWait
  BY <1>4 DEF WaiterWait, AfterWaitCall, WaiterState
<1>5. CASE WaiterWake
  BY <1>5 DEF WaiterWake, WaiterState
<1>6. CASE WaiterStep
  BY <1>6 DEF WaiterStep, WaiterState
<1>7. CASE DispatcherReturn
  BY <1>7 DEF DispatcherReturn
<1>8. CASE WriterWrite
  BY <1>8 DEF WriterWrite
<1>9. CASE WriterReturn
  BY <1>9 DEF WriterReturn
<1> QED
  BY <1>1, <1>2, <1>3, <1>4, <1>5, <1>6, <1>7, <1>8, <1>9 DEF ServiceStep

\* What comes from outside keeps the types: another session's scheduler goes no
\* further than the last piece.
LEMMA OutsideType ==
  ASSUME TypeOK, Outside
  PROVE  TypeOK'
<1> USE DEF TypeOK, shutdownVars, serviceVars
<1>1. CASE Cancel
  BY <1>1 DEF Cancel
<1>2. CASE Elsewhere
  <2>1. cursor' \in FirstPiece..NPiece /\ elsewhere' \subseteq FirstPiece..(cursor' - 1)
    BY <1>2, PieceAssumption DEF Elsewhere
  <2> QED
    BY <1>2, <2>1 DEF Elsewhere
<1>3. CASE WriterFail
  BY <1>3 DEF WriterFail
<1>4. CASE \E w \in Worker : WorkerFail(w)
  BY <1>4, WorkerType
<1> QED
  BY <1>1, <1>2, <1>3, <1>4 DEF Outside

-----------------------------------------------------------------------------
(* Who holds what: the base of the inductive invariant.                     *)

Base == TypeOK /\ HandsExact /\ ServingExact

\* The types and the two correspondences hold at the start.
LEMMA InitBase == Init => Base
  BY InitType, WorkerAssumption DEF Init, Base, HandsExact, ServingExact, Busy

\* Every step keeps the types.
LEMMA StepType ==
  ASSUME Base, [Next]_vars
  PROVE  TypeOK'
<1>1. CASE Next
  <2>1. ASSUME NEW w \in Worker, WorkerStep(w) PROVE TypeOK'
    BY <2>1, WorkerType DEF Base
  <2>2. ASSUME NEW w \in Worker, Rendezvous(w) PROVE TypeOK'
    BY <2>2, RendezvousType DEF Base
  <2>3. CASE ServiceStep
    BY <2>3, ServiceType DEF Base
  <2>4. CASE Outside
    BY <2>4, OutsideType DEF Base
  <2> QED
    BY <1>1, <2>1, <2>2, <2>3, <2>4 DEF Next, Progress
<1>2. CASE UNCHANGED vars
  BY <1>2 DEF Base, TypeOK, vars, shutdownVars, serviceVars
<1> QED
  BY <1>1, <1>2

\* A worker has a piece exactly in the stations of Busy, and the dispatcher
\* serves exactly the worker that waits for its answer, after every step too.
LEMMA StepHands ==
  ASSUME Base, [Next]_vars
  PROVE  HandsExact' /\ ServingExact'
<1> USE DEF Base, TypeOK, HandsExact, ServingExact, Busy, Goto, WorkerState
<1>1. ASSUME NEW w \in Worker, WorkerStep(w)
      PROVE  HandsExact' /\ ServingExact'
  <2>1. CASE WorkerTake(w)
    BY <2>1, WorkerAssumption DEF WorkerTake, serviceVars
  <2>2. CASE WorkerStart(w) \/ WorkerDownload(w) \/ WorkerRelease(w)
    BY <2>2, WorkerAssumption
       DEF WorkerStart, WorkerDownload, WorkerRelease, serviceVars
  <2>3. CASE WorkerQuit(w) \/ WorkerTakeNil(w)
    BY <2>3, WorkerAssumption DEF WorkerQuit, WorkerTakeNil, Exit, serviceVars
  <2> QED
    BY <1>1, <2>1, <2>2, <2>3 DEF WorkerStep
<1>2. ASSUME NEW w \in Worker, Rendezvous(w)
      PROVE  HandsExact' /\ ServingExact'
  <2>1. CASE SchedulerReceive(w)
    BY <2>1, WorkerAssumption DEF SchedulerReceive, serviceVars
  <2>2. CASE DispatcherReceive(w)
    BY <2>2, WorkerAssumption DEF DispatcherReceive
  <2>3. CASE DispatcherRespond(w)
    BY <2>3, WorkerAssumption DEF DispatcherRespond
  <2>4. CASE WriterReceive(w)
    BY <2>4, WorkerAssumption DEF WriterReceive
  <2> QED
    BY <1>2, <2>1, <2>2, <2>3, <2>4 DEF Rendezvous
<1>3. CASE UNCHANGED <<workers, held, dispatcher>>
  BY <1>3
<1>4. ServiceStep \/ Outside => UNCHANGED <<workers, held, dispatcher>>
  BY DEF ServiceStep, SchedulerPick, SchedulerSeesCancel, SchedulerReturn,
         WaiterWait, WaiterWake, WaiterStep, DispatcherReturn, WriterWrite,
         WriterReturn, Outside, Cancel, Elsewhere, WriterFail, WorkerFail, serviceVars
<1> QED
  BY <1>1, <1>2, <1>3, <1>4 DEF Next, Progress, vars, serviceVars

\* Base is an invariant of the specification.
THEOREM BaseHolds == Spec => []Base
<1>1. Base /\ [Next]_vars => Base'
  BY StepType, StepHands DEF Base
<1> QED
  BY InitBase, <1>1, PTL DEF Spec

\* Every variable keeps its type: no worker is ever sent to a piece beyond the
\* last, no index of Pieces is out of range.
THEOREM TypeCorrect == Spec => []TypeOK
<1>1. Base => TypeOK
  BY DEF Base
<1> QED
  BY BaseHolds, <1>1, PTL

-----------------------------------------------------------------------------
(* The counters: the WaitGroup, and the entries of downloadJobChan.         *)

Counts == WaitGroupExact /\ JobsBound /\ JobsMatched

\* A set of workers is finite, and one worker more or less counts for one.
LEMMA WorkerSets ==
  ASSUME NEW S \in SUBSET Worker
  PROVE  /\ IsFiniteSet(S) /\ Cardinality(S) \in Nat
         /\ Cardinality(S) <= Cardinality(Worker)
         /\ \A w \in Worker \ S : Cardinality(S \cup {w}) = Cardinality(S) + 1
         /\ \A w \in S : Cardinality(S \ {w}) = Cardinality(S) - 1
<1>1. IsFiniteSet(S) /\ Cardinality(S) <= Cardinality(Worker)
  BY WorkerAssumption, FS_Subset
<1> QED
  BY <1>1, FS_CardinalityType, FS_AddElement, FS_RemoveElement

\* Nobody has started and nothing is queued.
LEMMA InitCounts == Init => Counts
<1> SUFFICES ASSUME Init PROVE Counts
  OBVIOUS
<1>1. Counted = {} /\ Selecting = {} /\ Exited = {}
  BY DEF Init, Counted, Selecting, Exited
<1>2. Cardinality({}) = 0
  BY FS_EmptySet
<1> QED
  BY <1>1, <1>2 DEF Init, Counts, WaitGroupExact, JobsBound, JobsMatched, Picking

\* Add, Done and the workers' stations move together.
LEMMA StepWaitGroup ==
  ASSUME Base, WaitGroupExact, [Next]_vars
  PROVE  WaitGroupExact'
<1> USE DEF WaitGroupExact
<1>1. workers \in [Worker -> WorkerState] /\ Counted \in SUBSET Worker
  BY DEF Base, TypeOK, Counted
<1>2. ASSUME NEW w \in Worker, WorkerStart(w)
      PROVE  WaitGroupExact'
  <2>1. w \notin Counted /\ Counted' = Counted \cup {w}
    BY <1>1, <1>2 DEF WorkerStart, Goto, Counted
  <2> QED
    BY <1>1, <1>2, <2>1, WorkerSets DEF WorkerStart
<1>3. ASSUME NEW w \in Worker, WorkerQuit(w) \/ WorkerTakeNil(w)
      PROVE  WaitGroupExact'
  <2>1. w \in Counted /\ Counted' = Counted \ {w}
    BY <1>1, <1>3 DEF WorkerQuit, WorkerTakeNil, Exit, Goto, Counted
  <2> QED
    BY <1>1, <1>3, <2>1, WorkerSets DEF WorkerQuit, WorkerTakeNil, Exit
<1>4. ASSUME NEW w \in Worker,
             WorkerTake(w) \/ WorkerDownload(w) \/ WorkerRelease(w) \/ Rendezvous(w)
      PROVE  WaitGroupExact'
  <2>1. CASE WorkerTake(w) \/ WorkerDownload(w) \/ WorkerRelease(w)
    <3>1. wg' = wg /\ Counted' = Counted
      BY <1>1, <2>1 DEF WorkerTake, WorkerDownload, WorkerRelease, Goto, Counted
    <3> QED
      BY <3>1
  <2>2. CASE Rendezvous(w)
    <3>1. CASE SchedulerReceive(w)
      BY <1>1, <3>1 DEF SchedulerReceive, Goto, Counted
    <3>2. CASE DispatcherReceive(w)
      BY <1>1, <3>2 DEF DispatcherReceive, Goto, Counted
    <3>3. CASE DispatcherRespond(w)
      <4>1. workers[w] = "await"
        BY <3>3, WorkerAssumption DEF DispatcherRespond, Base, ServingExact
      <4> QED
        BY <1>1, <3>3, <4>1 DEF DispatcherRespond, Goto, Counted
    <3>4. CASE WriterReceive(w)
      BY <1>1, <3>4 DEF WriterReceive, Goto, Counted
    <3> QED
      BY <2>2, <3>1, <3>2, <3>3, <3>4 DEF Rendezvous
  <2> QED
    BY <1>4, <2>1, <2>2
<1>5. ASSUME UNCHANGED <<workers, wg>>
      PROVE  WaitGroupExact'
  BY <1>5 DEF Counted
<1>6. ASSUME ServiceStep \/ Outside \/ UNCHANGED vars
      PROVE  UNCHANGED <<workers, wg>>
  BY <1>6 DEF vars, ServiceStep, SchedulerPick, SchedulerSeesCancel, SchedulerReturn,
         WaiterWait, WaiterWake, WaiterStep, DispatcherReturn, WriterWrite,
         WriterReturn, Outside, Cancel, Elsewhere, WriterFail, WorkerFail
<1> QED
  BY <1>2, <1>3, <1>4, <1>5, <1>6 DEF Next, Progress, WorkerStep

\* Each signal received puts one worker into its select and one entry into
\* downloadJobChan; each entry taken takes a worker out.
LEMMA StepJobs ==
  ASSUME Base, JobsBound, JobsMatched, [Next]_vars
  PROVE  JobsBound' /\ JobsMatched'
<1> DEFINE Done == Selecting \cup Exited
           Result == JobsBound' /\ JobsMatched'
<1> USE DEF JobsBound, JobsMatched, Picking
<1>1. /\ workers \in [Worker -> WorkerState] /\ cancelled \in BOOLEAN
      /\ jobs \in Seq(Piece \cup {Nil})
      /\ Selecting \in SUBSET Worker /\ Done \in SUBSET Worker
      /\ Selecting' \in SUBSET Worker /\ Done' \in SUBSET Worker
  BY DEF Base, TypeOK, Selecting, Exited
<1>2. /\ Cardinality(Selecting) \in Nat /\ Cardinality(Done) \in Nat
      /\ Cardinality(Selecting') \in Nat /\ Cardinality(Done') \in Nat
  BY <1>1, WorkerSets
<1>3. ASSUME NEW w \in Worker, SchedulerReceive(w)
      PROVE  Result
  <2>1. /\ w \notin Selecting /\ Selecting' = Selecting \cup {w}
        /\ w \notin Done /\ Done' = Done \cup {w}
    BY <1>1, <1>3 DEF SchedulerReceive, Goto, Selecting, Exited
  <2>2. /\ Cardinality(Selecting') = Cardinality(Selecting) + 1
        /\ Cardinality(Done') = Cardinality(Done) + 1
    BY <1>1, <2>1, WorkerSets
  <2> QED
    BY <1>1, <1>2, <1>3, <2>2 DEF SchedulerReceive
<1>4. CASE SchedulerPick
  <2>1. Selecting' = Selecting /\ Exited' = Exited
    BY <1>4 DEF SchedulerPick, Selecting, Exited
  <2>2. Len(jobs') = Len(jobs) + 1 /\ Len(jobs) \in Nat
    BY <1>1, <1>4 DEF SchedulerPick
  <2> QED
    BY <1>2, <1>4, <2>1, <2>2 DEF SchedulerPick
<1>5. ASSUME NEW w \in Worker, WorkerTake(w)
      PROVE  Result
  <2>1. /\ w \in Selecting /\ Selecting' = Selecting \ {w}
        /\ w \in Done /\ Done' = Done \ {w}
    BY <1>1, <1>5 DEF WorkerTake, Goto, Selecting, Exited
  <2>2. /\ Cardinality(Selecting') = Cardinality(Selecting) - 1
        /\ Cardinality(Done') = Cardinality(Done) - 1
    BY <1>1, <2>1, WorkerSets
  <2>3. Len(jobs') = Len(jobs) - 1
    BY <1>1, <1>5 DEF WorkerTake
  <2> QED
    BY <1>1, <1>2, <1>5, <2>2, <2>3 DEF WorkerTake
<1>6. ASSUME NEW w \in Worker, WorkerTakeNil(w)
      PROVE  Result
  <2>1. /\ w \in Selecting /\ Selecting' = Selecting \ {w} /\ Done' = Done
    BY <1>1, <1>6 DEF WorkerTakeNil, Exit, Goto, Selecting, Exited
  <2>2. /\ Cardinality(Selecting') = Cardinality(Selecting) - 1
        /\ Cardinality(Done') = Cardinality(Done)
    BY <1>1, <2>1, WorkerSets
  <2>3. Len(jobs') = Len(jobs) - 1
    BY <1>1, <1>6 DEF WorkerTakeNil
  <2> QED
    BY <1>1, <1>2, <1>6, <2>2, <2>3 DEF WorkerTakeNil
<1>7. ASSUME NEW w \in Worker, WorkerQuit(w)
      PROVE  Result
  <2>1. Done' = Done
    BY <1>1, <1>7 DEF WorkerQuit, Exit, Goto, Selecting, Exited
  <2>2. Cardinality(Done') = Cardinality(Done)
    BY <2>1
  <2> QED
    BY <1>7, <2>2 DEF WorkerQuit
<1>8. ASSUME NEW w \in Worker,
             \/ WorkerStart(w) \/ WorkerDownload(w) \/ WorkerRelease(w)
             \/ DispatcherReceive(w) \/ DispatcherRespond(w) \/ WriterReceive(w)
      PROVE  Result
  <2>1. Selecting' = Selecting /\ Exited' = Exited
    <3>1. CASE WorkerStart(w) \/ WorkerDownload(w) \/ WorkerRelease(w)
      BY <1>1, <3>1 DEF WorkerStart, WorkerDownload, WorkerRelease, Goto,
                        Selecting, Exited
    <3>2. CASE DispatcherReceive(w)
      BY <1>1, <3>2 DEF DispatcherReceive, Goto, Selecting, Exited
    <3>3. CASE DispatcherRespond(w)
      <4>1. workers[w] = "await"
        BY <3>3, WorkerAssumption DEF DispatcherRespond, Base, ServingExact
      <4> QED
        BY <1>1, <3>3, <4>1 DEF DispatcherRespond, Goto, Selecting, Exited
    <3>4. CASE WriterReceive(w)
      BY <1>1, <3>4 DEF WriterReceive, Goto, Selecting, Exited
    <3> QED
      BY <1>8, <3>1, <3>2, <3>3, <3>4
  <2>2. UNCHANGED <<cancelled, jobs, scheduler>>
    BY <1>8 DEF WorkerStart, WorkerDownload, WorkerRelease, DispatcherReceive,
                DispatcherRespond, WriterReceive
  <2> QED
    BY <2>1, <2>2
<1>9. ASSUME UNCHANGED <<workers, jobs>>, cancelled => cancelled',
             scheduler' = "picking" => scheduler = "picking",
             scheduler = "picking" => scheduler' = "picking"
      PROVE  Result
  BY <1>1, <1>9 DEF Selecting, Exited
<1>10. ASSUME \/ Outside \/ UNCHANGED vars
              \/ ServiceStep /\ ~SchedulerPick
       PROVE  Result
  <2>1. /\ UNCHANGED <<workers, jobs>> /\ (cancelled => cancelled')
        /\ scheduler' = "picking" <=> scheduler = "picking"
    BY <1>10 DEF Outside, Cancel, Elsewhere, WriterFail, WorkerFail, vars,
          ServiceStep, SchedulerSeesCancel, SchedulerReturn, WaiterWait, WaiterWake,
          WaiterStep, DispatcherReturn, WriterWrite, WriterReturn
  <2> QED
    BY <2>1, <1>9
<1> QED
  BY <1>3, <1>4, <1>5, <1>6, <1>7, <1>8, <1>10
     DEF Next, Progress, WorkerStep, Rendezvous

-----------------------------------------------------------------------------
(* The channel downloadJobChan as a sequence of pieces and nils.            *)

Items(s) == {s[k] : k \in DOMAIN s} \ {Nil}
Distinct(s) == \A j, k \in DOMAIN s : s[j] = s[k] /\ s[j] # Nil => j = k

\* Sending adds the item, and keeps the pieces distinct when it is new or nil.
LEMMA SendItem ==
  ASSUME NEW S, NEW s \in Seq(S), NEW x \in S
  PROVE  /\ Items(Append(s, x)) = Items(s) \cup ({x} \ {Nil})
         /\ Distinct(s) /\ x \notin Items(s) => Distinct(Append(s, x))
<1> DEFINE t == Append(s, x)
<1>1. /\ Len(s) \in Nat /\ DOMAIN s = 1..Len(s)
      /\ DOMAIN t = 1..(Len(s) + 1) /\ t[Len(s) + 1] = x
      /\ \A k \in 1..Len(s) : t[k] = s[k]
  OBVIOUS
<1> HIDE DEF t
<1>2. Items(t) = Items(s) \cup ({x} \ {Nil})
  BY <1>1 DEF Items
<1>3. ASSUME Distinct(s), x \notin Items(s) PROVE Distinct(t)
  BY <1>1, <1>3 DEF Distinct, Items
<1> QED
  BY <1>2, <1>3 DEF t

\* Receiving removes the head: of distinct pieces exactly that one is gone.
LEMMA ReceiveItem ==
  ASSUME NEW S, NEW s \in Seq(S), s # <<>>, Distinct(s)
  PROVE  /\ Items(Tail(s)) = Items(s) \ {Head(s)}
         /\ Distinct(Tail(s))
         /\ Head(s) # Nil => Head(s) \in Items(s)
<1> DEFINE t == Tail(s)
<1>1. /\ Len(s) \in Nat \ {0} /\ DOMAIN s = 1..Len(s)
      /\ DOMAIN t = 1..(Len(s) - 1) /\ Head(s) = s[1]
      /\ \A k \in 1..(Len(s) - 1) : t[k] = s[k + 1]
  OBVIOUS
<1> HIDE DEF t
<1>2. ASSUME NEW x \in Items(t) PROVE x \in Items(s) \ {s[1]}
  <2>1. PICK k \in 1..(Len(s) - 1) : x = s[k + 1]
    BY <1>1, <1>2 DEF Items
  <2>2. k + 1 \in DOMAIN s /\ 1 \in DOMAIN s /\ k + 1 # 1
    BY <1>1, <2>1
  <2> QED
    BY <1>2, <2>1, <2>2 DEF Items, Distinct
<1>3. ASSUME NEW x \in Items(s), x # s[1] PROVE x \in Items(t)
  <2>1. PICK k \in DOMAIN s : x = s[k]
    BY <1>3 DEF Items
  <2>2. k - 1 \in DOMAIN t /\ t[k - 1] = s[k]
    BY <1>1, <1>3, <2>1
  <2> QED
    BY <1>3, <2>1, <2>2 DEF Items
<1>4. Distinct(t)
  BY <1>1 DEF Distinct
<1>5. Head(s) # Nil => Head(s) \in Items(s)
  BY <1>1 DEF Items
<1> QED
  BY <1>1, <1>2, <1>3, <1>4, <1>5 DEF t

-----------------------------------------------------------------------------
(* Where the chosen pieces are.                                             *)

\* Nothing is chosen, queued, held or received.
LEMMA InitAccounted == Init => EveryPieceAccounted
<1> SUFFICES ASSUME Init PROVE EveryPieceAccounted
  OBVIOUS
<1>1. Chosen = {}
  BY PieceAssumption DEF Init, Chosen
<1>2. Queued = {} /\ InHand = {} /\ received = {}
  BY DEF Init, Queued, InHand
<1> QED
  BY <1>1, <1>2 DEF Init, EveryPieceAccounted

\* A worker that takes a piece adds it to the pieces in hand; the writer that
\* receives it takes it away.
LEMMA Hands ==
  ASSUME Base, NEW w \in Worker
  PROVE  /\ \A p : held[w] = Nil /\ p # Nil /\ held' = [held EXCEPT ![w] = p]
                  => InHand' = InHand \cup {p}
         /\ /\ held[w] # Nil /\ held' = [held EXCEPT ![w] = Nil]
            /\ \A u, v \in Worker : held[u] = held[v] /\ held[u] # Nil => u = v
            => InHand' = InHand \ {held[w]}
<1>1. held \in [Worker -> Piece \cup {Nil}]
  BY DEF Base, TypeOK
<1> QED
  BY <1>1 DEF InHand

\* Choosing, taking and receiving move a piece from one place to the next.
LEMMA StepAccounted ==
  ASSUME Base, EveryPieceAccounted, [Next]_vars
  PROVE  EveryPieceAccounted'
<1> DEFINE Places == <<cursor, elsewhere, jobs, held, received>>
<1>1. /\ jobs \in Seq(Piece \cup {Nil}) /\ held \in [Worker -> Piece \cup {Nil}]
      /\ cursor \in FirstPiece..NPiece /\ NPiece \in Nat /\ FirstPiece \in Nat
      /\ elsewhere \subseteq FirstPiece..(cursor - 1)
      /\ Queued = Items(jobs) /\ Queued' = Items(jobs') /\ Distinct(jobs)
  BY PieceAssumption DEF Base, TypeOK, Queued, Items, Distinct, EveryPieceAccounted
<1>2. CASE SchedulerPick
  <2>1. /\ UNCHANGED <<held, received>> /\ InHand' = InHand
        /\ jobs' = Append(jobs, NextPiece) /\ NextPiece \in Piece \cup {Nil}
    BY <1>1, <1>2 DEF SchedulerPick, serviceVars, InHand, NextPiece, Piece
  <2>2. NextPiece \notin Chosen \cup {Nil} \/ NextPiece = Nil
    BY <1>1, NilAssumption DEF NextPiece, Chosen
  <2>3. Chosen' = Chosen \cup ({NextPiece} \ {Nil})
    <3>0. elsewhere' = elsewhere
      BY <1>2 DEF SchedulerPick
    <3>1. CASE cursor >= NPiece
      BY <1>2, <3>0, <3>1 DEF SchedulerPick, NextPiece, NextCursor, Chosen
    <3>2. CASE ~(cursor >= NPiece)
      <4>1. cursor # Nil
        BY <1>1, NilAssumption
      <4>2. NextPiece = cursor /\ cursor' = cursor + 1
        BY <1>2, <3>2 DEF SchedulerPick, NextPiece, NextCursor
      <4>3. FirstPiece..((cursor + 1) - 1) = (FirstPiece..(cursor - 1)) \cup {cursor}
        BY <1>1
      <4>4. cursor \notin elsewhere
        BY <1>1
      <4> QED
        BY <3>0, <4>1, <4>2, <4>3, <4>4 DEF Chosen
    <3> QED
      BY <3>1, <3>2
  <2>4. Queued' = Queued \cup ({NextPiece} \ {Nil})
    BY <1>1, <2>1, SendItem
  <2>5. NextPiece \notin Items(jobs)
    BY <1>1, <2>2 DEF Items, EveryPieceAccounted
  <2>6. Distinct(jobs')
    BY <1>1, <2>1, <2>5, SendItem
  <2> QED
    BY <2>1, <2>2, <2>3, <2>4, <2>6 DEF EveryPieceAccounted, Distinct
<1>3. ASSUME NEW w \in Worker, WorkerTake(w)
      PROVE  EveryPieceAccounted'
  <2>1. /\ UNCHANGED <<cursor, elsewhere, received>> /\ Chosen' = Chosen
        /\ jobs # <<>> /\ Head(jobs) # Nil /\ jobs' = Tail(jobs)
        /\ held' = [held EXCEPT ![w] = Head(jobs)]
    BY <1>3 DEF WorkerTake, serviceVars, Chosen
  <2>2. held[w] = Nil
    BY <1>3 DEF WorkerTake, Base, HandsExact, Busy
  <2>3. InHand' = InHand \cup {Head(jobs)}
    BY <2>1, <2>2, Hands
  <2>4. /\ Queued' = Queued \ {Head(jobs)} /\ Distinct(jobs')
        /\ Head(jobs) \in Queued
    BY <1>1, <2>1, ReceiveItem
  <2>5. \A u, v \in Worker : held'[u] = held'[v] /\ held'[u] # Nil => u = v
    BY <1>1, <2>1, <2>4 DEF EveryPieceAccounted, InHand
  <2> QED
    BY <2>1, <2>3, <2>4, <2>5 DEF EveryPieceAccounted, Distinct
<1>4. ASSUME NEW w \in Worker, WorkerTakeNil(w)
      PROVE  EveryPieceAccounted'
  <2>1. /\ UNCHANGED <<cursor, elsewhere, held, received>>
        /\ Chosen' = Chosen /\ InHand' = InHand
        /\ jobs # <<>> /\ Head(jobs) = Nil /\ jobs' = Tail(jobs)
    BY <1>4 DEF WorkerTakeNil, serviceVars, Chosen, InHand
  <2>2. Items(Tail(jobs)) = Items(jobs) \ {Nil} /\ Distinct(Tail(jobs))
    BY <1>1, <2>1, ReceiveItem
  <2>3. Nil \notin Items(jobs)
    BY DEF Items
  <2>4. Queued' = Queued /\ Distinct(jobs')
    BY <1>1, <2>1, <2>2, <2>3
  <2> QED
    BY <2>1, <2>4 DEF EveryPieceAccounted, Distinct
<1>5. ASSUME NEW w \in Worker, WriterReceive(w)
      PROVE  EveryPieceAccounted'
  <2>1. /\ UNCHANGED <<cursor, elsewhere, jobs>> /\ Chosen' = Chosen /\ Queued' = Queued
        /\ received' = received \cup {held[w]}
        /\ held' = [held EXCEPT ![w] = Nil]
    BY <1>5 DEF WriterReceive, Chosen, Queued
  <2>2. held[w] # Nil /\ held[w] \in InHand
    BY <1>5 DEF WriterReceive, Base, HandsExact, Busy, InHand
  <2>3. InHand' = InHand \ {held[w]}
    BY <2>1, <2>2, Hands DEF EveryPieceAccounted
  <2>4. \A u, v \in Worker : held'[u] = held'[v] /\ held'[u] # Nil => u = v
    BY <1>1, <2>1 DEF EveryPieceAccounted
  <2> QED
    BY <2>1, <2>2, <2>3, <2>4 DEF EveryPieceAccounted
<1>6. ASSUME UNCHANGED Places
      PROVE  EveryPieceAccounted'
  BY <1>6 DEF EveryPieceAccounted, Chosen, Queued, InHand
<1>7. ASSUME \/ Outside /\ ~Elsewhere
             \/ UNCHANGED vars
             \/ ServiceStep /\ ~SchedulerPick
      PROVE  UNCHANGED Places
  BY <1>7 DEF Outside, Cancel, vars, serviceVars, ServiceStep, SchedulerSeesCancel,
        SchedulerReturn, WaiterWait, WaiterWake, WaiterStep, DispatcherReturn,
        WriterWrite, WriterReturn, WriterFail, WorkerFail
<1>8. ASSUME NEW w \in Worker,
             \/ WorkerStart(w) \/ WorkerQuit(w) \/ WorkerDownload(w)
             \/ WorkerRelease(w) \/ SchedulerReceive(w)
             \/ DispatcherReceive(w) \/ DispatcherRespond(w)
      PROVE  UNCHANGED Places
  BY <1>8 DEF WorkerStart, WorkerQuit, WorkerDownload, WorkerRelease,
        SchedulerReceive, DispatcherReceive, DispatcherRespond, serviceVars
<1>9. CASE Elsewhere
  <2>1. FirstPiece..((cursor + 1) - 1) = (FirstPiece..(cursor - 1)) \cup {cursor}
    BY <1>1
  <2>2. cursor \notin FirstPiece..(cursor - 1)
    BY <1>1
  <2>3. Chosen' = Chosen
    BY <1>9, <2>1, <2>2 DEF Elsewhere, Chosen
  <2>4. UNCHANGED <<Queued, InHand, jobs, held, received>>
    BY <1>9 DEF Elsewhere, Queued, InHand, serviceVars
  <2> QED
    BY <2>3, <2>4 DEF EveryPieceAccounted
<1> QED
  BY <1>2, <1>3, <1>4, <1>5, <1>6, <1>7, <1>8, <1>9
     DEF Next, Progress, WorkerStep, Rendezvous

-----------------------------------------------------------------------------
(* The end of the session.                                                  *)

\* The shut-down goroutine is born after the last piece or a cancellation.
LEMMA StepEarlyEnd ==
  ASSUME Base, EarlyEnd, [Next]_vars
  PROVE  EarlyEnd'
<1> USE DEF EarlyEnd
<1>1. /\ cursor \in FirstPiece..NPiece /\ NPiece \in Nat /\ FirstPiece \in Nat
      /\ cancelled \in BOOLEAN /\ completed \in BOOLEAN /\ shuttingDown \in BOOLEAN
  BY PieceAssumption DEF Base, TypeOK
<1>2. CASE SchedulerPick
  <2>1. UNCHANGED <<cancelled, shuttingDown>> /\ (cursor = NPiece => cursor' = NPiece)
    BY <1>1, <1>2 DEF SchedulerPick, NextCursor
  <2>2. CASE waiter = "unborn" /\ cursor >= NPiece
    <3>1. completed' = (cursor >= NPiece) /\ waiter' = "wait"
      BY <1>2, <2>2 DEF SchedulerPick, LaunchWaiter
    <3>2. completed'
      BY <2>2, <3>1
    <3>3. cursor = NPiece
      BY <1>1, <2>2
    <3> QED
      BY <2>1, <3>1, <3>2, <3>3
  <2>3. CASE waiter = "unborn" /\ ~(cursor >= NPiece) /\ shuttingDown
    <3>1. ~completed' /\ waiter' = "wait" /\ cancelled
      BY <1>2, <2>3 DEF SchedulerPick, LaunchWaiter
    <3> QED
      BY <2>1, <3>1
  <2>4. CASE ~(waiter = "unborn" /\ (cursor >= NPiece \/ shuttingDown))
    BY <1>2, <2>1, <2>4 DEF SchedulerPick, LaunchWaiter, shutdownVars
  <2> QED
    BY <2>2, <2>3, <2>4
<1>3. ASSUME completed' = completed, cursor = NPiece => cursor' = NPiece,
             cancelled => cancelled',
             shuttingDown' => shuttingDown \/ cancelled,
             waiter' = "unborn" <=> waiter = "unborn"
      PROVE  EarlyEnd'
  BY <1>3
<1>4. CASE Outside \/ SchedulerSeesCancel \/ SchedulerReturn \/ UNCHANGED vars
  BY <1>1, <1>3, <1>4
     DEF Outside, Cancel, Elsewhere, WriterFail, WorkerFail, SchedulerSeesCancel,
         SchedulerReturn, vars, shutdownVars
<1>5. CASE WaiterWait \/ WaiterWake \/ WaiterStep
  BY <1>3, <1>5 DEF WaiterWait, AfterWaitCall, WaiterWake, WaiterStep
<1>6. CASE DispatcherReturn \/ WriterWrite \/ WriterReturn
  BY <1>3, <1>6 DEF DispatcherReturn, WriterWrite, WriterReturn, shutdownVars
<1>7. ASSUME NEW w \in Worker, WorkerStep(w)
      PROVE  EarlyEnd'
  <2>1. CASE WorkerQuit(w) \/ WorkerTakeNil(w)
    BY <1>3, <2>1 DEF WorkerQuit, WorkerTakeNil, Exit
  <2>2. CASE \/ WorkerStart(w) \/ WorkerTake(w) \/ WorkerDownload(w)
             \/ WorkerRelease(w)
    BY <1>3, <2>2 DEF WorkerStart, WorkerTake, WorkerDownload, WorkerRelease,
                      shutdownVars
  <2> QED
    BY <1>7, <2>1, <2>2 DEF WorkerStep
<1>8. ASSUME NEW w \in Worker, Rendezvous(w)
      PROVE  EarlyEnd'
  BY <1>3, <1>8 DEF Rendezvous, SchedulerReceive, DispatcherReceive,
                    DispatcherRespond, WriterReceive, shutdownVars
<1> QED
  BY <1>2, <1>4, <1>5, <1>6, <1>7, <1>8 DEF Next, Progress, ServiceStep

\* Who has gone and who sleeps follows the station of the waiter, step by step.
LEMMA StepWinding ==
  ASSUME Base, Counts, EarlyEnd, WindingDown, [Next]_vars
  PROVE  WindingDown'
<1> USE DEF WindingDown
<1>1. /\ workers \in [Worker -> WorkerState] /\ jobs \in Seq(Piece \cup {Nil})
      /\ cursor \in FirstPiece..NPiece /\ FirstPiece \in Nat /\ NPiece \in Nat
      /\ cancelled \in BOOLEAN /\ wg \in Nat
  <2>1. Counted \in SUBSET Worker
    BY DEF Counted
  <2> QED
    BY <2>1, PieceAssumption, WorkerSets DEF Base, TypeOK, Counts, WaitGroupExact
<1> DEFINE Clean == Exited = {} /\ \A k \in DOMAIN jobs : jobs[k] # Nil
<1>2. ASSUME UNCHANGED <<scheduler, stopped, waiter>>, wg' >= wg, wg' \in Nat,
             cancelled => cancelled', Clean => Clean' \/ cancelled'
      PROVE  WindingDown'
  BY <1>1, <1>2 DEF LocalCancelled, ChildrenCancelled
<1>3. ASSUME NEW w \in Worker, WorkerStart(w)
      PROVE  WindingDown'
  <2>1. Exited' = Exited
    BY <1>1, <1>3 DEF WorkerStart, Goto, Exited
  <2> QED
    BY <1>1, <1>2, <1>3, <2>1 DEF WorkerStart, shutdownVars, serviceVars
<1>4. ASSUME NEW w \in Worker, WorkerQuit(w) \/ WorkerTakeNil(w)
      PROVE  WindingDown'
  <2>1. wg' = wg - 1 /\ waiter' = (IF wg = 1 /\ waiter = "asleep" THEN "woken" ELSE waiter)
    BY <1>4 DEF WorkerQuit, WorkerTakeNil, Exit
  <2>2. UNCHANGED <<scheduler, stopped, cancelled>>
    BY <1>4 DEF WorkerQuit, WorkerTakeNil, serviceVars
  <2>3. ~Clean \/ cancelled
    <3>1. CASE WorkerQuit(w)
      BY <3>1 DEF WorkerQuit
    <3>2. CASE WorkerTakeNil(w)
      <4>1. 1 \in DOMAIN jobs /\ jobs[1] = Nil
        BY <1>1, <3>2 DEF WorkerTakeNil
      <4> QED
        BY <4>1
    <3> QED
      BY <1>4, <3>1, <3>2
  <2>4. waiter # "unborn" \/ cancelled
    BY <2>3
  <2> HIDE DEF Clean
  <2>5. /\ LocalCancelled => LocalCancelled'
        /\ ChildrenCancelled => ChildrenCancelled'
        /\ waiter' = "unborn" => waiter = "unborn"
    BY <2>1 DEF LocalCancelled, ChildrenCancelled
  <2>6. waiter' = "asleep" => wg' > 0
    BY <1>1, <2>1
  <2> QED
    BY <2>2, <2>4, <2>5, <2>6
<1>5. ASSUME NEW w \in Worker, WorkerTake(w)
      PROVE  WindingDown'
  <2>1. Exited' = Exited
    BY <1>1, <1>5 DEF WorkerTake, Goto, Exited
  <2>2. \A k \in DOMAIN jobs' : k + 1 \in DOMAIN jobs /\ jobs'[k] = jobs[k + 1]
    BY <1>1, <1>5 DEF WorkerTake
  <2> QED
    BY <1>1, <1>2, <1>5, <2>1, <2>2 DEF WorkerTake, shutdownVars, serviceVars
<1>6. ASSUME NEW w \in Worker, WorkerDownload(w) \/ WorkerRelease(w)
      PROVE  WindingDown'
  <2>1. Exited' = Exited
    BY <1>1, <1>6 DEF WorkerDownload, WorkerRelease, Goto, Exited
  <2> QED
    BY <1>1, <1>2, <1>6, <2>1
       DEF WorkerDownload, WorkerRelease, shutdownVars, serviceVars
<1>7. ASSUME NEW w \in Worker, Rendezvous(w)
      PROVE  WindingDown'
  <2>1. Exited' = Exited
    <3>1. workers[w] # "exited"
      BY <1>7, WorkerAssumption
         DEF Rendezvous, SchedulerReceive, DispatcherReceive, DispatcherRespond,
             WriterReceive, Base, ServingExact
    <3> QED
      BY <1>1, <1>7, <3>1 DEF Rendezvous, SchedulerReceive, DispatcherReceive,
                              DispatcherRespond, WriterReceive, Goto, Exited
  <2>2. CASE SchedulerReceive(w)
    BY <2>1, <2>2 DEF SchedulerReceive, shutdownVars, serviceVars, LocalCancelled,
                      ChildrenCancelled
  <2>3. CASE ~SchedulerReceive(w)
    BY <1>1, <1>2, <1>7, <2>1, <2>3
       DEF Rendezvous, DispatcherReceive, DispatcherRespond, WriterReceive, shutdownVars
  <2> QED
    BY <2>2, <2>3
<1>8. CASE SchedulerPick
  <2>1. /\ scheduler' = "select" /\ UNCHANGED <<stopped, wg, cancelled, workers>>
        /\ waiter' = waiter \/ (waiter = "unborn" /\ waiter' = "wait")
    BY <1>8 DEF SchedulerPick, LaunchWaiter, shutdownVars, serviceVars
  <2>2. ASSUME waiter' = "unborn"
        PROVE  NextPiece # Nil /\ jobs' = Append(jobs, NextPiece)
    <3>1. ~(cursor >= NPiece)
      BY <1>8, <2>2 DEF SchedulerPick, LaunchWaiter, shutdownVars
    <3>2. NextPiece = cursor /\ cursor \in 0..NPiece
      BY <1>1, <3>1 DEF NextPiece
    <3> QED
      BY <1>8, <3>2, NilAssumption DEF SchedulerPick
  <2>3. waiter' = "unborn" /\ Clean => Clean'
    BY <1>1, <2>1, <2>2 DEF Exited
  <2> HIDE DEF Clean
  <2>4. /\ LocalCancelled' <=> LocalCancelled
        /\ ChildrenCancelled' <=> ChildrenCancelled
        /\ waiter' = "asleep" => waiter = "asleep"
        /\ waiter' = "unborn" => waiter = "unborn"
    BY <2>1 DEF LocalCancelled, ChildrenCancelled
  <2>5. waiter' = "unborn" /\ ~cancelled' => Clean'
    BY <2>1, <2>3, <2>4 DEF Clean
  <2> QED
    BY <2>1, <2>4, <2>5 DEF Clean
<1>9. CASE SchedulerSeesCancel
  BY <1>1, <1>2, <1>9 DEF SchedulerSeesCancel, shutdownVars, serviceVars, Exited
<1>10. CASE SchedulerReturn
  BY <1>10 DEF SchedulerReturn, shutdownVars, serviceVars, LocalCancelled,
               ChildrenCancelled, Exited
<1>11. CASE WaiterWait \/ WaiterWake \/ WaiterStep
  <2>1. /\ UNCHANGED <<scheduler, stopped, wg>> /\ waiter' # "unborn"
        /\ waiter' = "asleep" => wg # 0
    BY <1>11 DEF WaiterWait, AfterWaitCall, WaiterWake, WaiterStep, serviceVars
  <2>2. /\ LocalCancelled => LocalCancelled'
        /\ ChildrenCancelled => ChildrenCancelled'
    BY <1>11 DEF WaiterWait, AfterWaitCall, WaiterWake, WaiterStep, LocalCancelled,
                 ChildrenCancelled
  <2> QED
    BY <1>1, <2>1, <2>2
<1>12. CASE DispatcherReturn \/ WriterReturn
  BY <1>12 DEF DispatcherReturn, WriterReturn, shutdownVars, LocalCancelled,
               ChildrenCancelled, Exited
<1>13. CASE WriterWrite
  BY <1>1, <1>2, <1>13 DEF WriterWrite, shutdownVars, Exited
<1>14. CASE Outside
  <2>1. /\ UNCHANGED <<scheduler, stopped, waiter, wg, Exited, jobs>>
        /\ cancelled => cancelled'
    BY <1>14 DEF Outside, Cancel, Elsewhere, WriterFail, WorkerFail, shutdownVars,
                 serviceVars, Exited
  <2> QED
    BY <1>1, <1>2, <2>1
<1>15. CASE UNCHANGED vars
  BY <1>1, <1>2, <1>15 DEF vars, shutdownVars, serviceVars, Exited
<1> QED
  BY <1>3, <1>4, <1>5, <1>6, <1>7, <1>8, <1>9, <1>10, <1>11, <1>12, <1>13, <1>14, <1>15
     DEF Next, Progress, ServiceStep, WorkerStep

\* When the counter is zero in a session nobody cancelled, no worker has a piece
\* and none is queued: every chosen piece has been received.
LEMMA NothingPending ==
  ASSUME Base, Counts, EveryPieceAccounted, ~cancelled, wg = 0
  PROVE  received = Chosen
<1>1. Counted = {}
  <2>1. Counted \in SUBSET Worker
    BY DEF Counted
  <2>2. IsFiniteSet(Counted) /\ Cardinality(Counted) = 0
    BY <2>1, WorkerSets DEF Counts, WaitGroupExact
  <2> QED
    BY <2>2, FS_EmptySet
<1>2. InHand = {}
  BY <1>1 DEF Counted, InHand, Base, HandsExact, Busy
<1>3. Queued = {}
  <2>1. Selecting = {}
    BY <1>1 DEF Counted, Selecting
  <2>2. Len(jobs) + Picking = 0
    BY <2>1, FS_EmptySet DEF Counts, JobsMatched
  <2>3. jobs \in Seq(Piece \cup {Nil}) /\ Len(jobs) = 0
    BY <2>2 DEF Base, TypeOK, Picking
  <2> QED
    BY <2>3 DEF Queued
<1> QED
  BY <1>2, <1>3 DEF EveryPieceAccounted

\* The first pieces are among all pieces.
LEMMA Prefix ==
  ASSUME NEW a \in Nat, NEW n \in Nat, NEW c \in a..n
  PROVE  a..(c - 1) \subseteq a..(n - 1)
  OBVIOUS

\* Wait returns only when every piece is received, and nothing is undone later.
LEMMA StepCompletion ==
  ASSUME IInv, [Next]_vars, Base', EveryPieceAccounted'
  PROVE  CompletionSound'
<1> SUFFICES ASSUME Waited', ~cancelled'
             PROVE  completed' /\ received' = Share'
  BY DEF CompletionSound
<1>1. Base /\ Counts
  BY DEF IInv, Base, Counts
<1>2. ~cancelled
  BY DEF Next, Progress, Outside, Cancel, Elsewhere, WriterFail, vars, WorkerStep,
         Rendezvous, ServiceStep, WorkerStart, WorkerQuit, WorkerTakeNil, WorkerTake,
         WorkerDownload, WorkerFail, WorkerRelease, SchedulerReceive, SchedulerPick,
         SchedulerSeesCancel, SchedulerReturn, WaiterWait, WaiterWake, WaiterStep,
         DispatcherReceive, DispatcherRespond, DispatcherReturn, WriterReceive,
         WriterWrite, WriterReturn
<1>3. CASE ~Waited
  <2>1. CASE (WaiterWait \/ WaiterWake) /\ wg = 0
    <3>1. UNCHANGED <<completed, cursor, elsewhere, received>> /\ waiter # "unborn"
      BY <2>1 DEF WaiterWait, WaiterWake, serviceVars
    <3>2. completed /\ cursor = NPiece
      BY <1>2, <3>1 DEF IInv, EarlyEnd
    <3>3. received = Chosen
      BY <1>1, <1>2, <2>1, NothingPending DEF IInv
    <3> QED
      BY <3>1, <3>2, <3>3 DEF Chosen, Share
  <2>2. ASSUME ~((WaiterWait \/ WaiterWake) /\ wg = 0)
        PROVE  ~Waited'
    <3> USE <1>3, <2>2 DEF Waited
    <3>1. CASE WaiterWait \/ WaiterWake \/ WaiterStep
      BY <3>1 DEF WaiterWait, AfterWaitCall, WaiterWake, WaiterStep
    <3>2. CASE SchedulerPick
      BY <3>2 DEF SchedulerPick, LaunchWaiter, shutdownVars
    <3>3. CASE \E w \in Worker : WorkerQuit(w) \/ WorkerTakeNil(w)
      BY <3>3 DEF WorkerQuit, WorkerTakeNil, Exit
    <3>4. ASSUME UNCHANGED waiter PROVE ~Waited'
      BY <3>4
    <3> QED
      BY <3>1, <3>2, <3>3, <3>4 DEF Next, Progress, Outside, Cancel, Elsewhere,
         WriterFail, vars, WorkerStep, Rendezvous, ServiceStep, WorkerStart, WorkerTake, WorkerDownload,
         WorkerFail, WorkerRelease, SchedulerReceive, SchedulerSeesCancel,
         SchedulerReturn, DispatcherReceive, DispatcherRespond,
         DispatcherReturn, WriterReceive, WriterWrite, WriterReturn, shutdownVars
  <2> QED
    BY <2>1, <2>2
<1>4. CASE Waited
  <2>1. completed /\ received = Share /\ waiter # "unborn" /\ cursor = NPiece
    BY <1>2, <1>4 DEF IInv, CompletionSound, EarlyEnd, Waited
  <2>2. completed' = completed /\ received \subseteq received'
    BY <2>1 DEF Next, Progress, Outside, Cancel, Elsewhere, WriterFail, vars,
         WorkerStep, Rendezvous, ServiceStep,
         WorkerStart, WorkerQuit, WorkerTakeNil, WorkerTake, WorkerDownload,
         WorkerFail, WorkerRelease, SchedulerReceive, SchedulerPick, LaunchWaiter,
         SchedulerSeesCancel, SchedulerReturn, WaiterWait, WaiterWake, WaiterStep,
         DispatcherReceive, DispatcherRespond, DispatcherReturn, WriterReceive,
         WriterWrite, WriterReturn, shutdownVars, serviceVars
  <2>3. elsewhere' = elsewhere
    <3>1. ~Elsewhere
      BY <2>1, PieceAssumption DEF Elsewhere
    <3> QED
      BY <3>1 DEF Next, Progress, Outside, Cancel, WriterFail, vars, WorkerStep,
         Rendezvous, ServiceStep, WorkerStart, WorkerQuit, WorkerTakeNil, WorkerTake,
         WorkerDownload, WorkerFail, WorkerRelease, SchedulerReceive, SchedulerPick,
         SchedulerSeesCancel, SchedulerReturn, WaiterWait, WaiterWake, WaiterStep,
         DispatcherReceive, DispatcherRespond, DispatcherReturn, WriterReceive,
         WriterWrite, WriterReturn
  <2>4. received' \subseteq Share'
    <3>1. cursor' \in FirstPiece..NPiece /\ NPiece \in Nat /\ FirstPiece \in Nat
      BY PieceAssumption DEF Base, TypeOK
    <3>2. received' \subseteq Chosen'
      BY DEF EveryPieceAccounted
    <3>3. FirstPiece..(cursor' - 1) \subseteq FirstPiece..(NPiece - 1)
      BY <3>1, Prefix
    <3> QED
      BY <3>2, <3>3 DEF Chosen, Share
  <2> QED
    BY <2>1, <2>2, <2>3, <2>4 DEF Share
<1> QED
  BY <1>3, <1>4

-----------------------------------------------------------------------------
(* The inductive invariant, and what follows from it.                       *)

\* The inductive invariant holds at the start.
LEMMA InitIInv == Init => IInv
<1> SUFFICES ASSUME Init PROVE IInv
  OBVIOUS
<1>1. Base /\ Counts /\ EveryPieceAccounted
  BY InitBase, InitCounts, InitAccounted
<1>2. EarlyEnd /\ CompletionSound
  BY DEF Init, EarlyEnd, CompletionSound, Waited
<1>3. WindingDown
  BY DEF Init, WindingDown, LocalCancelled, ChildrenCancelled, Exited
<1> QED
  BY <1>1, <1>2, <1>3 DEF IInv, Base, Counts

\* Every step keeps the inductive invariant.
LEMMA StepIInv == IInv /\ [Next]_vars => IInv'
<1> SUFFICES ASSUME IInv, [Next]_vars PROVE IInv'
  OBVIOUS
<1>1. Base /\ Counts /\ EveryPieceAccounted /\ EarlyEnd /\ WindingDown
  BY DEF IInv, Base, Counts
<1>2. Base'
  BY <1>1, StepType, StepHands DEF Base
<1>3. Counts'
  BY <1>1, StepWaitGroup, StepJobs DEF Counts
<1>4. EveryPieceAccounted'
  BY <1>1, StepAccounted
<1>5. EarlyEnd'
  BY <1>1, StepEarlyEnd
<1>6. CompletionSound'
  BY <1>2, <1>4, StepCompletion
<1>7. WindingDown'
  BY <1>1, StepWinding
<1> QED
  BY <1>2, <1>3, <1>4, <1>5, <1>6, <1>7 DEF IInv, Base, Counts

\* The inductive invariant holds in every session, for every number of workers
\* and pieces.
THEOREM IInvHolds == Spec => []IInv
  BY InitIInv, StepIInv, PTL DEF Spec

\* No piece is lost or given out twice, however the session is cancelled.
THEOREM PiecesAccounted == Spec => []EveryPieceAccounted
<1>1. IInv => EveryPieceAccounted
  BY DEF IInv
<1> QED
  BY IInvHolds, <1>1, PTL

\* CompleteTorrent is not announced before the last piece has reached the writer,
\* unless the session is cancelled.
THEOREM CompletionIsSound == Spec => []CompletionSound
<1>1. IInv => CompletionSound
  BY DEF IInv
<1> QED
  BY IInvHolds, <1>1, PTL

\* The scheduler finds room in downloadJobChan.
LEMMA RoomForJob == IInv => JobsNeverBlock
<1> SUFFICES ASSUME IInv, scheduler = "picking"
             PROVE  Len(jobs) < Capacity
  BY DEF JobsNeverBlock
<1>1. Selecting \cup Exited \in SUBSET Worker
  BY DEF Selecting, Exited
<1>2. /\ Cardinality(Selecting \cup Exited) \in Nat
      /\ Cardinality(Selecting \cup Exited) <= Cardinality(Worker)
      /\ Cardinality(Worker) \in Nat
  BY <1>1, WorkerSets
<1>3. Len(jobs) \in Nat /\ Len(jobs) + 1 <= Cardinality(Selecting \cup Exited)
  BY DEF IInv, TypeOK, JobsBound, Picking
<1> QED
  BY <1>2, <1>3 DEF Capacity

\* The scheduler never blocks on downloadJobChan.
THEOREM JobsNeverBlockHolds == Spec => []JobsNeverBlock
  BY IInvHolds, RoomForJob, PTL

\* Nothing is in anybody's hands once Wait has returned in a session nobody
\* cancelled.
LEMMA HandsEmpty ==
  ASSUME IInv, Waited, ~cancelled
  PROVE  cursor = NPiece /\ Queued \cup InHand = {}
<1>1. cursor = NPiece
  BY DEF IInv, EarlyEnd, CompletionSound
<1>2. received = Chosen
  BY <1>1 DEF IInv, CompletionSound, Chosen, Share
<1> QED
  BY <1>1, <1>2 DEF IInv, EveryPieceAccounted

\* When the dispatcher and the writer of a session nobody cancelled are told to
\* stop, no worker needs them any more.
THEOREM DependentsAreNotNeeded == Spec => []DependentsNotNeeded
<1>1. IInv => DependentsNotNeeded
  <2> SUFFICES ASSUME IInv, ChildrenCancelled, ~cancelled
               PROVE  /\ \A w \in Worker : workers[w] \notin Busy
                      /\ dispatcher = Nil
    BY DEF DependentsNotNeeded
  <2>1. InHand = {}
    BY HandsEmpty DEF ChildrenCancelled, Waited
  <2>2. \A w \in Worker : workers[w] \notin Busy
    BY <2>1 DEF IInv, HandsExact, InHand
  <2> QED
    BY <2>2 DEF IInv, TypeOK, ServingExact, Busy
<1> QED
  BY IInvHolds, <1>1, PTL

-----------------------------------------------------------------------------
(* Standstill.                                                              *)

\* While the session is neither over nor at its end, a standstill finds every
\* worker returned: each one at another station has its partner free.
LEMMA AllExited ==
  ASSUME IInv, ~CanRun, waiter \in {"unborn", "asleep"}
  PROVE  \A w \in Worker : workers[w] = "exited"
<1>1. stopped = {} /\ scheduler # "returned"
  BY DEF IInv, WindingDown, LocalCancelled, ChildrenCancelled
<1>2. scheduler = "select"
  BY <1>1, RoomForJob DEF CanRun, ServiceCanRun, JobsNeverBlock, IInv, TypeOK
<1>3. writer = Nil /\ WriterIdle
  BY <1>1 DEF CanRun, ServiceCanRun, WriterIdle
<1>4. dispatcher = Nil
  BY DEF CanRun, WorkerCanRun, IInv, TypeOK
<1> SUFFICES ASSUME NEW w \in Worker
             PROVE  workers[w] = "exited"
  OBVIOUS
<1>5. ~WorkerCanRun(w)
  BY DEF CanRun
<1>6. workers[w] # "await"
  BY <1>4, WorkerAssumption DEF IInv, ServingExact
<1>7. workers[w] # "select"
  <2> SUFFICES ASSUME workers[w] = "select" PROVE FALSE
    OBVIOUS
  <2>1. ~cancelled /\ jobs = <<>>
    BY <1>5 DEF WorkerCanRun
  <2>2. Cardinality(Selecting) = 0
    BY <1>2, <2>1 DEF IInv, JobsMatched, Picking
  <2>3. Selecting \in SUBSET Worker /\ w \in Selecting
    BY DEF Selecting
  <2> QED
    BY <2>2, <2>3, WorkerSets, FS_EmptySet
<1>8. workers[w] \in WorkerState
  BY DEF IInv, TypeOK
<1> QED
  BY <1>1, <1>2, <1>3, <1>4, <1>5, <1>6, <1>7, <1>8 DEF WorkerCanRun, WorkerState

\* The goroutines of a session never all wait for one another before its end,
\* unless a cancellation made every worker return first: the send on a channel,
\* the receive or the Wait at which one of them stands finds its other side.
THEOREM NeverStuckHolds == Spec => []NeverStuck
<1>1. IInv => NeverStuck
  <2> SUFFICES ASSUME IInv, ~CanRun
               PROVE  Announced \/ (cancelled /\ (Drained \/ Abandoned))
    BY DEF NeverStuck
  <2>1. waiter \in {"unborn", "asleep", "returned"}
    BY DEF CanRun, ServiceCanRun, IInv, TypeOK
  <2>2. CASE waiter = "returned"
    BY <2>2 DEF IInv, EarlyEnd, Announced, Drained
  <2>3. CASE waiter \in {"unborn", "asleep"}
    <3>1. \A w \in Worker : workers[w] = "exited"
      BY <2>3, AllExited
    <3>2. waiter # "asleep"
      <4>1. Counted = {}
        BY <3>1 DEF Counted
      <4>2. wg = 0
        BY <4>1, FS_EmptySet DEF IInv, WaitGroupExact
      <4> QED
        BY <4>2 DEF IInv, WindingDown
    <3>3. waiter = "unborn"
      BY <2>3, <3>2
    <3>4. Exited # {}
      BY <3>1, WorkerAssumption DEF Exited
    <3>5. cancelled
      BY <3>3, <3>4 DEF IInv, WindingDown
    <3> QED
      BY <3>1, <3>3, <3>5 DEF Abandoned
  <2> QED
    BY <2>1, <2>2, <2>3
<1> QED
  BY IInvHolds, <1>1, PTL

-----------------------------------------------------------------------------
(* The end is reached: every step lowers StepsLeft, a natural number.       *)

\* The order of sums, for natural numbers.
LEMMA Falls == \A a, b, c \in Nat : c + a \in Nat /\ (b < a => c + b < c + a)
  OBVIOUS

\* A sum over the workers rises by what one of its values rises by.
LEMMA SumRises ==
  ASSUME NEW f, NEW h, NEW w \in Worker, NEW d \in Nat,
         \A q \in Worker : f[q] \in Nat /\ h[q] = IF q = w THEN f[q] + d ELSE f[q]
  PROVE  Total(f, Worker) \in Nat /\ Total(h, Worker) = Total(f, Worker) + d
<1>1. /\ Total(f, Worker) \in Nat
      /\ Total(h, Worker) = Total(f, Worker) + (IF w \in Worker THEN d ELSE 0)
  BY WorkerAssumption, TotalChanges
<1> QED
  BY <1>1

\* A sum over the workers follows the value of the one that moves.
LEMMA SumMoves ==
  ASSUME NEW f \in [Worker -> Nat], NEW w \in Worker, NEW k \in Nat
  PROVE  /\ Total(f, Worker) \in Nat
         /\ Total([f EXCEPT ![w] = k], Worker) \in Nat
         /\ Total([f EXCEPT ![w] = k], Worker) = Total(f, Worker) - f[w] + k
<1>1. PICK g, h : g = f /\ h = [f EXCEPT ![w] = k]
  OBVIOUS
<1>2. /\ g[w] \in Nat /\ h[w] = k
      /\ \A q \in Worker : g[q] \in Nat /\ h[q] \in Nat /\ (q # w => h[q] = g[q])
  BY <1>1
<1>3. CASE k >= g[w]
  <2>1. k - g[w] \in Nat /\ k = g[w] + (k - g[w])
    BY <1>2, <1>3
  <2>2. PICK d \in Nat : k = g[w] + d
    BY <2>1
  <2>3. \A q \in Worker : g[q] \in Nat /\ h[q] = IF q = w THEN g[q] + d ELSE g[q]
    BY <1>2, <2>2
  <2>4. Total(g, Worker) \in Nat /\ Total(h, Worker) = Total(g, Worker) + d
    BY <2>3, SumRises
  <2> QED
    BY <1>1, <1>2, <2>2, <2>4
<1>4. CASE ~(k >= g[w])
  <2>1. g[w] - k \in Nat /\ g[w] = k + (g[w] - k)
    BY <1>2, <1>4
  <2>2. PICK d \in Nat : g[w] = k + d
    BY <2>1
  <2>3. \A q \in Worker : h[q] \in Nat /\ g[q] = IF q = w THEN h[q] + d ELSE h[q]
    BY <1>2, <2>2
  <2>4. Total(h, Worker) \in Nat /\ Total(g, Worker) = Total(h, Worker) + d
    BY <2>3, SumRises
  <2> QED
    BY <1>1, <1>2, <2>2, <2>4
<1> QED
  BY <1>3, <1>4

\* The ranks are natural numbers.
LEMMA RankTypes ==
  /\ \A t \in WorkerState : WorkerRank[t] \in Nat
  /\ \A t \in WaiterState : WaiterRank[t] \in Nat
  /\ \A t \in {"select", "picking", "returned"} : SchedulerRank[t] \in Nat
BY DEF WorkerRank, WorkerState, WaiterRank, WaiterState, SchedulerRank

\* A worker that moves changes the sum of the ranks by the difference of two.
LEMMA WorkerMoves ==
  ASSUME TypeOK, NEW w \in Worker, NEW t \in WorkerState, Goto(w, t)
  PROVE  /\ WorkersLeft \in Nat /\ WorkersLeft' \in Nat
         /\ WorkersLeft' = WorkersLeft - WorkerRank[workers[w]] + WorkerRank[t]
<1>1. workers \in [Worker -> WorkerState]
  BY DEF TypeOK
<1>2. Ranks \in [Worker -> Nat] /\ Ranks[w] = WorkerRank[workers[w]]
  BY <1>1, RankTypes DEF Ranks
<1>3. Ranks' = [Ranks EXCEPT ![w] = WorkerRank[t]]
  BY <1>1 DEF Ranks, Goto
<1>4. WorkersLeft = Total(Ranks, Worker) /\ WorkersLeft' = Total(Ranks', Worker)
  BY DEF WorkersLeft, Total, FoldSet, MapThenFoldSet
<1>5. WorkerRank[t] \in Nat
  BY RankTypes
<1>6. PICK before, k : before = Ranks /\ k = WorkerRank[t]
  OBVIOUS
<1>7. /\ Total(before, Worker) \in Nat
      /\ Total([before EXCEPT ![w] = k], Worker) \in Nat
      /\ Total([before EXCEPT ![w] = k], Worker) = Total(before, Worker) - before[w] + k
  BY <1>2, <1>5, <1>6, SumMoves
<1> QED
  BY <1>2, <1>3, <1>4, <1>6, <1>7

\* Nobody moves.
LEMMA WorkersStay ==
  ASSUME TypeOK, workers' = workers
  PROVE  WorkersLeft \in Nat /\ WorkersLeft' = WorkersLeft
<1>1. Ranks \in [Worker -> Nat] /\ Ranks' = Ranks
  BY RankTypes DEF Ranks, TypeOK
<1>2. PICK w \in Worker : TRUE
  BY WorkerAssumption
<1>3. WorkersLeft = Total(Ranks, Worker) /\ WorkersLeft' = Total(Ranks', Worker)
  BY DEF WorkersLeft, Total, FoldSet, MapThenFoldSet
<1> QED
  BY <1>1, <1>2, <1>3, SumMoves

\* What is left of the workers is a natural number.
LEMMA WorkersNumber ==
  ASSUME TypeOK
  PROVE  WorkersLeft \in Nat
<1>1. Ranks \in [Worker -> Nat]
  BY RankTypes DEF Ranks, TypeOK
<1>2. WorkersLeft = Total(Ranks, Worker)
  BY DEF WorkersLeft, Total, FoldSet, MapThenFoldSet
<1>3. PICK w \in Worker : TRUE
  BY WorkerAssumption
<1> QED
  BY <1>1, <1>2, <1>3, SumMoves

\* What is left of the pieces and of the services is a natural number.
LEMMA PartTypes ==
  ASSUME TypeOK
  PROVE  /\ IsFiniteSet(Untaken) /\ Cardinality(Untaken) \in Nat
         /\ ServicesLeft \in Nat
<1>1. IsFiniteSet(Untaken)
  <2>1. IsFiniteSet(FirstPiece..(NPiece - 1))
    BY PieceAssumption, FS_Interval
  <2> QED
    BY <2>1, FS_Subset DEF Untaken, Share
<1>2. SchedulerRank[scheduler] \in Nat /\ WaiterRank[waiter] \in Nat
  BY RankTypes DEF TypeOK
<1>3. ServicesLeft \in Nat
  BY <1>2 DEF ServicesLeft, Flag
<1> QED
  BY <1>1, <1>3, FS_CardinalityType

\* The same after a step.
LEMMA ServicesNext ==
  ASSUME TypeOK'
  PROVE  ServicesLeft' \in Nat
<1>1. SchedulerRank[scheduler'] \in Nat /\ WaiterRank[waiter'] \in Nat
  BY RankTypes DEF TypeOK
<1> QED
  BY <1>1 DEF ServicesLeft, Flag

\* The steps a worker takes alone or with a service, except taking a piece, lower
\* what is left of the workers by more than they add to what the services have.
LEMMA MovesRunOut ==
  ASSUME TypeOK, ServingExact, TypeOK', NEW w \in Worker,
         (WorkerStep(w) /\ ~WorkerTake(w)) \/ Rendezvous(w)
  PROVE  /\ WorkersLeft \in Nat /\ WorkersLeft' \in Nat
         /\ WorkersLeft' + ServicesLeft' < WorkersLeft + ServicesLeft
<1>1. /\ WorkerRank["exited"] = 0 /\ WorkerRank["select"] = 1 /\ WorkerRank["signal"] = 3
      /\ WorkerRank["release"] = 4 /\ WorkerRank["spawned"] = 4 /\ WorkerRank["write"] = 6
      /\ WorkerRank["download"] = 7 /\ WorkerRank["await"] = 8
      /\ WorkerRank["request"] = 9
  BY DEF WorkerRank
<1>2. ServicesLeft \in Nat /\ ServicesLeft' \in Nat
  BY PartTypes, ServicesNext
<1>3. ASSUME NEW t \in WorkerState, Goto(w, t)
      PROVE  /\ WorkersLeft \in Nat /\ WorkersLeft' \in Nat
             /\ WorkersLeft' = WorkersLeft - WorkerRank[workers[w]] + WorkerRank[t]
  BY <1>3, WorkerMoves
<1>4. ASSUME WorkerStart(w) \/ WorkerDownload(w) \/ WorkerRelease(w)
      PROVE  ServicesLeft' = ServicesLeft
  BY <1>4 DEF WorkerStart, WorkerDownload, WorkerRelease, shutdownVars, serviceVars,
              ServicesLeft
<1>5. CASE WorkerStart(w)
  <2>1. workers[w] = "spawned" /\ Goto(w, "signal") /\ "signal" \in WorkerState
    BY <1>5 DEF WorkerStart, WorkerState
  <2> QED
    BY <1>1, <1>2, <1>3, <1>4, <1>5, <2>1
<1>6. CASE WorkerDownload(w)
  <2>1. workers[w] = "download" /\ Goto(w, "write") /\ "write" \in WorkerState
    BY <1>6 DEF WorkerDownload, WorkerState
  <2> QED
    BY <1>1, <1>2, <1>3, <1>4, <1>6, <2>1
<1>7. CASE WorkerRelease(w)
  <2>1. workers[w] = "release" /\ Goto(w, "signal") /\ "signal" \in WorkerState
    BY <1>7 DEF WorkerRelease, WorkerState
  <2> QED
    BY <1>1, <1>2, <1>3, <1>4, <1>7, <2>1
<1>8. CASE WorkerQuit(w) \/ WorkerTakeNil(w)
  <2>1. workers[w] = "select" /\ Goto(w, "exited") /\ "exited" \in WorkerState
    BY <1>8 DEF WorkerQuit, WorkerTakeNil, Exit, WorkerState
  <2>2. /\ UNCHANGED <<scheduler, writer, stopped, shuttingDown, cancelled, panicked>>
        /\ waiter' = waiter \/ (waiter = "asleep" /\ waiter' = "woken")
    BY <1>8 DEF WorkerQuit, WorkerTakeNil, Exit, serviceVars
  <2>3. WaiterRank[waiter] \in Nat /\ WaiterRank[waiter'] <= WaiterRank[waiter]
    <3>1. WaiterRank["woken"] = 5 /\ WaiterRank["asleep"] = 6
      BY DEF WaiterRank
    <3>2. WaiterRank[waiter] \in Nat
      BY RankTypes DEF TypeOK
    <3> QED
      BY <2>2, <3>1, <3>2
  <2>4. ServicesLeft' <= ServicesLeft
    <3>1. WaiterRank[waiter'] \in Nat /\ SchedulerRank[scheduler] \in Nat
      BY RankTypes DEF TypeOK
    <3> QED
      BY <2>2, <2>3, <3>1 DEF ServicesLeft, Flag
  <2> QED
    BY <1>1, <1>2, <1>3, <2>1, <2>4
<1>9. CASE SchedulerReceive(w)
  <2>1. workers[w] = "signal" /\ Goto(w, "select") /\ "select" \in WorkerState
    BY <1>9 DEF SchedulerReceive, WorkerState
  <2>2. SchedulerRank["select"] = 1 /\ SchedulerRank["picking"] = 2
    BY DEF SchedulerRank
  <2>3. WaiterRank[waiter] \in Nat
    BY RankTypes DEF TypeOK
  <2>4. ServicesLeft' = ServicesLeft + 1
    BY <1>9, <2>2, <2>3
       DEF SchedulerReceive, shutdownVars, serviceVars, ServicesLeft, Flag
  <2> QED
    BY <1>1, <1>2, <1>3, <2>1, <2>4
<1>10. CASE DispatcherReceive(w) \/ DispatcherRespond(w)
  <2>1. ServicesLeft' = ServicesLeft
    BY <1>10 DEF DispatcherReceive, DispatcherRespond, shutdownVars, ServicesLeft
  <2>2. CASE DispatcherReceive(w)
    <3>1. workers[w] = "request" /\ Goto(w, "await") /\ "await" \in WorkerState
      BY <2>2 DEF DispatcherReceive, WorkerState
    <3> QED
      BY <1>1, <1>2, <1>3, <2>1, <3>1
  <2>3. CASE DispatcherRespond(w)
    <3>1. workers[w] = "await" /\ Goto(w, "download") /\ "download" \in WorkerState
      BY <2>3 DEF DispatcherRespond, ServingExact, WorkerState
    <3> QED
      BY <1>1, <1>2, <1>3, <2>1, <3>1
  <2> QED
    BY <1>10, <2>2, <2>3
<1>11. CASE WriterReceive(w)
  <2>1. workers[w] = "write" /\ Goto(w, "release") /\ "release" \in WorkerState
    BY <1>11 DEF WriterReceive, WorkerState
  <2>2. ServicesLeft' <= ServicesLeft + 1
    <3>1. WaiterRank[waiter] \in Nat /\ SchedulerRank[scheduler] \in Nat
      BY RankTypes DEF TypeOK
    <3> QED
      BY <1>11, <3>1 DEF WriterReceive, WriterIdle, shutdownVars, ServicesLeft, Flag
  <2> QED
    BY <1>1, <1>2, <1>3, <2>1, <2>2
<1> QED
  BY <1>5, <1>6, <1>7, <1>8, <1>9, <1>10, <1>11 DEF WorkerStep, Rendezvous

\* A step of a service, a cancellation and a failure leave the workers where they
\* are and lower what is left of the services.
LEMMA ServicesRunOut ==
  ASSUME TypeOK, TypeOK',
         ~panicked, ServiceStep \/ (Outside /\ ~Elsewhere)
  PROVE  ServicesLeft' < ServicesLeft
<1>1. /\ SchedulerRank["returned"] = 0 /\ SchedulerRank["select"] = 1
      /\ SchedulerRank["picking"] = 2
  BY DEF SchedulerRank
<1>2. /\ WaiterRank["returned"] = 0 /\ WaiterRank["announce"] = 1
      /\ WaiterRank["cancelLocal"] = 2 /\ WaiterRank["mainDone"] = 3
      /\ WaiterRank["cancelChildren"] = 4 /\ WaiterRank["woken"] = 5
      /\ WaiterRank["asleep"] = 6 /\ WaiterRank["wait"] = 7 /\ WaiterRank["unborn"] = 8
  BY DEF WaiterRank
<1>3. /\ SchedulerRank[scheduler] \in Nat /\ WaiterRank[waiter] \in Nat
      /\ SchedulerRank[scheduler'] \in Nat /\ WaiterRank[waiter'] \in Nat
  BY RankTypes DEF TypeOK
<1> USE DEF ServicesLeft, Flag, shutdownVars, serviceVars
<1>5. CASE SchedulerPick
  <2>1. /\ scheduler = "picking" /\ scheduler' = "select"
        /\ UNCHANGED <<writer, stopped, shuttingDown, cancelled, panicked>>
    BY <1>5 DEF SchedulerPick
  <2>2. waiter' = waiter \/ (waiter = "unborn" /\ waiter' = "wait")
    BY <1>5 DEF SchedulerPick, LaunchWaiter
  <2>3. CASE waiter' = waiter
    BY <1>1, <1>3, <2>1, <2>3
  <2>4. CASE waiter = "unborn" /\ waiter' = "wait"
    BY <1>1, <1>2, <2>1, <2>4
  <2> QED
    BY <2>2, <2>3, <2>4
<1>6. CASE SchedulerSeesCancel
  BY <1>3, <1>6 DEF SchedulerSeesCancel
<1>7. CASE SchedulerReturn
  BY <1>1, <1>3, <1>7 DEF SchedulerReturn
<1>8. CASE WaiterWait
  <2>1. UNCHANGED <<scheduler, writer, stopped, shuttingDown, cancelled, panicked>>
    BY <1>8 DEF WaiterWait
  <2>2. waiter = "wait" /\ waiter' \in {"cancelChildren", "asleep"}
    BY <1>8 DEF WaiterWait, AfterWaitCall
  <2>3. CASE waiter' = "cancelChildren"
    BY <1>2, <1>3, <2>1, <2>2, <2>3
  <2>4. CASE waiter' = "asleep"
    BY <1>2, <1>3, <2>1, <2>2, <2>4
  <2> QED
    BY <2>2, <2>3, <2>4
<1>9. CASE WaiterWake
  <2>1. UNCHANGED <<scheduler, writer, stopped, shuttingDown, cancelled>>
    BY <1>9 DEF WaiterWake
  <2>2. CASE wg = 0
    <3>1. waiter = "woken" /\ waiter' = "cancelChildren" /\ panicked' = panicked
      BY <1>9, <2>2 DEF WaiterWake
    <3> QED
      BY <1>2, <1>3, <2>1, <3>1
  <2>3. CASE wg # 0
    <3>1. waiter' = waiter /\ panicked'
      BY <1>9, <2>3 DEF WaiterWake
    <3> QED
      BY <1>3, <2>1, <3>1
  <2> QED
    BY <2>2, <2>3
<1>10. CASE WaiterStep
  <2>1. UNCHANGED <<scheduler, writer, stopped, shuttingDown, cancelled, panicked>>
    BY <1>10 DEF WaiterStep
  <2>2. CASE waiter = "cancelChildren" /\ waiter' = "mainDone"
    BY <1>2, <1>3, <2>1, <2>2
  <2>3. CASE waiter = "mainDone" /\ waiter' = "cancelLocal"
    BY <1>2, <1>3, <2>1, <2>3
  <2>4. CASE waiter = "cancelLocal" /\ waiter' = "announce"
    BY <1>2, <1>3, <2>1, <2>4
  <2>5. CASE waiter = "announce" /\ waiter' = "returned"
    BY <1>2, <1>3, <2>1, <2>5
  <2> QED
    BY <1>10, <2>2, <2>3, <2>4, <2>5 DEF WaiterStep
<1>11. CASE DispatcherReturn
  BY <1>3, <1>11 DEF DispatcherReturn
<1>12. CASE WriterWrite
  BY <1>3, <1>12 DEF WriterWrite
<1>13. CASE WriterReturn
  BY <1>3, <1>13 DEF WriterReturn, WriterIdle
<1>14. CASE Cancel
  BY <1>3, <1>14 DEF Cancel
<1>15. CASE WriterFail \/ \E w \in Worker : WorkerFail(w)
  BY <1>3, <1>15 DEF WriterFail, WorkerFail
<1> QED
  BY <1>5, <1>6, <1>7, <1>8, <1>9, <1>10, <1>11, <1>12, <1>13, <1>14, <1>15
     DEF ServiceStep, Outside

\* Taking a piece lowers what is left by more than the new work of the worker.
LEMMA TakeRunsOut ==
  ASSUME IInv, TypeOK', NEW w \in Worker, WorkerTake(w)
  PROVE  /\ Cardinality(Untaken') = Cardinality(Untaken) - 1
         /\ WorkersLeft \in Nat /\ WorkersLeft' = WorkersLeft + 8
         /\ ServicesLeft' = ServicesLeft
<1>1. TypeOK /\ Base /\ EveryPieceAccounted
  BY DEF IInv, Base
<1>2. ServicesLeft' = ServicesLeft
  BY DEF WorkerTake, shutdownVars, serviceVars, ServicesLeft
<1>3. WorkersLeft \in Nat /\ WorkersLeft' = WorkersLeft + 8
  <2>1. workers[w] = "select" /\ Goto(w, "request") /\ "request" \in WorkerState
    BY DEF WorkerTake, WorkerState
  <2>2. WorkerRank["select"] = 1 /\ WorkerRank["request"] = 9
    BY DEF WorkerRank
  <2>3. /\ WorkersLeft \in Nat /\ WorkersLeft' \in Nat
        /\ WorkersLeft' = WorkersLeft - WorkerRank[workers[w]] + WorkerRank["request"]
    BY <1>1, <2>1, WorkerMoves
  <2> QED
    BY <2>1, <2>2, <2>3
<1> DEFINE p == Head(jobs)
<1>4. p \in Queued /\ p # Nil
  <2>1. jobs # <<>> /\ jobs \in Seq(Piece \cup {Nil}) /\ Head(jobs) # Nil
    BY <1>1 DEF WorkerTake, TypeOK
  <2>2. 1 \in DOMAIN jobs /\ jobs[1] = Head(jobs)
    BY <2>1
  <2> QED
    BY <2>1, <2>2 DEF Queued
<1>5. InHand' = InHand \cup {p} /\ UNCHANGED <<received, elsewhere>>
  <2>1. /\ held' = [held EXCEPT ![w] = p] /\ workers[w] = "select"
        /\ UNCHANGED <<received, elsewhere>>
    BY DEF WorkerTake, serviceVars
  <2>2. held[w] = Nil
    BY <2>1 DEF IInv, HandsExact, Busy
  <2> HIDE DEF p
  <2> QED
    BY <1>1, <1>4, <2>1, <2>2, Hands
<1>6. p \in Untaken
  <2>1. p \in Chosen /\ p \notin InHand /\ p \notin received
    BY <1>1, <1>4 DEF EveryPieceAccounted
  <2>2. p \in Share
    BY <1>1, <2>1, PieceAssumption DEF Chosen, Share, TypeOK
  <2> QED
    BY <2>1, <2>2 DEF Untaken
<1>7. Untaken' = Untaken \ {p}
  BY <1>5 DEF Untaken, Share
<1> HIDE DEF p
<1>8. Cardinality(Untaken \ {p}) = Cardinality(Untaken) - 1
  BY <1>1, <1>6, PartTypes, FS_RemoveElement
<1> QED
  BY <1>2, <1>3, <1>7, <1>8

\* A piece another scheduler takes is one less, and nothing else moves.
LEMMA ElsewhereRunsOut ==
  ASSUME IInv, Elsewhere
  PROVE  /\ Cardinality(Untaken') = Cardinality(Untaken) - 1
         /\ UNCHANGED <<workers, ServicesLeft>>
<1>1. TypeOK /\ EveryPieceAccounted
  BY DEF IInv
<1>2. cursor \in FirstPiece..(NPiece - 1) /\ cursor \notin FirstPiece..(cursor - 1)
  BY <1>1, PieceAssumption DEF Elsewhere, TypeOK
<1>3. cursor \notin elsewhere /\ cursor \notin Chosen
  BY <1>1, <1>2 DEF TypeOK, Chosen
<1>4. cursor \in Untaken
  BY <1>1, <1>2, <1>3 DEF Untaken, Share, EveryPieceAccounted
<1>5. Untaken' = Untaken \ {cursor}
  BY DEF Elsewhere, Untaken, Share, InHand, serviceVars
<1>6. Cardinality(Untaken \ {cursor}) = Cardinality(Untaken) - 1
  BY <1>1, <1>4, PartTypes, FS_RemoveElement
<1>7. UNCHANGED <<workers, ServicesLeft>>
  BY DEF Elsewhere, ServicesLeft, serviceVars, shutdownVars
<1> QED
  BY <1>5, <1>6, <1>7

\* No other step makes a piece untaken.
LEMMA UntakenStays ==
  ASSUME IInv, [Next]_vars, ~\E w \in Worker : WorkerTake(w), ~Elsewhere
  PROVE  Untaken' = Untaken
<1>1. ASSUME UNCHANGED <<held, received, elsewhere>>
      PROVE  Untaken' = Untaken
  BY <1>1 DEF Untaken, Share, InHand
<1>2. ASSUME NEW w \in Worker, WriterReceive(w)
      PROVE  Untaken' = Untaken
  <2>1. /\ held' = [held EXCEPT ![w] = Nil] /\ received' = received \cup {held[w]}
        /\ workers[w] = "write" /\ elsewhere' = elsewhere
    BY <1>2 DEF WriterReceive
  <2>2. held[w] # Nil
    BY <2>1 DEF IInv, HandsExact, Busy
  <2>3. held[w] \in InHand
    BY <2>2 DEF InHand
  <2>4. InHand' = InHand \ {held[w]}
    BY <2>1, <2>2, Hands DEF IInv, Base, EveryPieceAccounted
  <2>5. (InHand \cup received)' = InHand \cup received
    BY <2>1, <2>3, <2>4
  <2> QED
    BY <2>1, <2>5 DEF Untaken, Share
<1>3. CASE ServiceStep \/ Outside \/ UNCHANGED vars
  BY <1>1, <1>3
     DEF ServiceStep, SchedulerPick, SchedulerSeesCancel, SchedulerReturn, WaiterWait,
         WaiterWake, WaiterStep, DispatcherReturn, WriterWrite, WriterReturn, Outside,
         Cancel, WriterFail, WorkerFail, vars, serviceVars
<1>4. ASSUME NEW w \in Worker, WorkerStep(w) \/ Rendezvous(w), ~WriterReceive(w)
      PROVE  Untaken' = Untaken
  BY <1>1, <1>4
     DEF WorkerStep, WorkerStart, WorkerQuit, WorkerTakeNil, WorkerDownload,
         WorkerRelease, Rendezvous, SchedulerReceive, DispatcherReceive,
         DispatcherRespond, serviceVars
<1> QED
  BY <1>2, <1>3, <1>4 DEF Next, Progress

\* Every step of a session, of any number of workers, brings it closer to its
\* last one: a session takes at most as many steps as StepsLeft says at its start.
THEOREM SessionRunsOut == Spec => RunsOut
<1>1. IInv /\ IInv' /\ [Next]_vars => [StepsLeft' < StepsLeft]_vars
  <2> SUFFICES ASSUME IInv, IInv', Next
               PROVE  StepsLeft' < StepsLeft
    OBVIOUS
  <2>1. TypeOK /\ TypeOK' /\ ServingExact
    BY DEF IInv
  <2>2. /\ Cardinality(Untaken) \in Nat /\ ServicesLeft \in Nat /\ ServicesLeft' \in Nat
    BY <2>1, PartTypes, ServicesNext
  <2>3. CASE \E w \in Worker : WorkerTake(w)
    <3>1. /\ Cardinality(Untaken') = Cardinality(Untaken) - 1
          /\ WorkersLeft \in Nat /\ WorkersLeft' = WorkersLeft + 8
          /\ ServicesLeft' = ServicesLeft
      BY <2>1, <2>3, TakeRunsOut
    <3> QED
      BY <2>2, <3>1 DEF StepsLeft
  <2>4. CASE Elsewhere
    <3>1. /\ Cardinality(Untaken') = Cardinality(Untaken) - 1
          /\ workers' = workers /\ ServicesLeft' = ServicesLeft
      BY <2>4, ElsewhereRunsOut
    <3>2. WorkersLeft \in Nat /\ WorkersLeft' = WorkersLeft
      BY <2>1, <3>1, WorkersStay
    <3> QED
      BY <2>2, <3>1, <3>2 DEF StepsLeft
  <2>5. CASE ~Elsewhere /\ ~\E w \in Worker : WorkerTake(w)
    <3>1. Untaken' = Untaken
      BY <2>5, UntakenStays
    <3>2. /\ WorkersLeft \in Nat /\ WorkersLeft' \in Nat
          /\ WorkersLeft' + ServicesLeft' < WorkersLeft + ServicesLeft
      <4>1. ASSUME NEW w \in Worker, WorkerStep(w) \/ Rendezvous(w)
            PROVE  /\ WorkersLeft \in Nat /\ WorkersLeft' \in Nat
                   /\ WorkersLeft' + ServicesLeft' < WorkersLeft + ServicesLeft
        BY <2>1, <2>5, <4>1, MovesRunOut
      <4>2. CASE ~panicked /\ (ServiceStep \/ Outside)
        <5>1. ServicesLeft' < ServicesLeft
          BY <2>1, <2>5, <4>2, ServicesRunOut
        <5>2. workers' = workers
          BY <4>2
             DEF ServiceStep, SchedulerPick, SchedulerSeesCancel, SchedulerReturn,
                 WaiterWait, WaiterWake, WaiterStep, DispatcherReturn, WriterWrite,
                 WriterReturn, Outside, Cancel, Elsewhere, WriterFail, WorkerFail
        <5>3. WorkersLeft \in Nat /\ WorkersLeft' = WorkersLeft
          BY <2>1, <5>2, WorkersStay
        <5> QED
          BY <2>2, <5>1, <5>3, Falls
      <4> QED
        BY <4>1, <4>2 DEF Next, Progress
    <3>3. 9 * Cardinality(Untaken) \in Nat
      BY <2>2
    <3>4. /\ StepsLeft = 9 * Cardinality(Untaken) + (WorkersLeft + ServicesLeft)
          /\ StepsLeft' = 9 * Cardinality(Untaken) + (WorkersLeft' + ServicesLeft')
      BY <2>2, <3>1, <3>2, <3>3 DEF StepsLeft
    <3>5. WorkersLeft + ServicesLeft \in Nat /\ WorkersLeft' + ServicesLeft' \in Nat
      BY <2>2, <3>2, Falls
    <3> QED
      BY <3>2, <3>3, <3>4, <3>5, Falls
  <2> QED
    BY <2>3, <2>4, <2>5
<1>2. IInv => StepsLeft \in Nat
  <2> SUFFICES ASSUME IInv
               PROVE  StepsLeft \in Nat
    OBVIOUS
  <2>1. TypeOK
    BY DEF IInv
  <2>2. Cardinality(Untaken) \in Nat /\ WorkersLeft \in Nat /\ ServicesLeft \in Nat
    BY <2>1, PartTypes, WorkersNumber
  <2> QED
    BY <2>2 DEF StepsLeft
<1> QED
  BY IInvHolds, <1>1, <1>2, PTL DEF Spec, RunsOut

-----------------------------------------------------------------------------
(* The session implements its contract.                                     *)

\* The pieces in hand, in the sense of the contract, are those chosen and not
\* received.
LEMMA Outstanding == EveryPieceAccounted => Queued \cup InHand = Chosen \ received
  BY DEF EveryPieceAccounted

\* A session starts as the contract says.
LEMMA InitContract == Init => Contract!Init
<1> SUFFICES ASSUME Init PROVE Contract!Init
  OBVIOUS
<1>1. Queued \cup InHand = {}
  BY DEF Init, Queued, InHand
<1>2. Phase = "running"
  BY DEF Init, Phase, Announced, Drained
<1> QED
  BY <1>1, <1>2 DEF Init, Contract!Init

\* The contract sees a session through these.
View == <<cancelled, cursor, elsewhere, received, waiter, completed, panicked>>

\* A step that changes nothing of the view, or only wakes or starts the shut-down
\* goroutine, is a stuttering step of the contract.
LEMMA Unseen ==
  ASSUME EveryPieceAccounted, EveryPieceAccounted',
         UNCHANGED <<cancelled, cursor, elsewhere, received, panicked>>, Phase' = Phase
  PROVE  UNCHANGED Contract!vars
<1>1. (Queued \cup InHand)' = Queued \cup InHand
  <2>1. (Queued \cup InHand)' = (Chosen \ received)'
    BY DEF EveryPieceAccounted
  <2>2. (Chosen \ received)' = Chosen \ received
    BY DEF Chosen
  <2> QED
    BY <2>1, <2>2, Outstanding
<1> QED
  BY <1>1 DEF Contract!vars

\* Each step of a session is a step of the contract or a stuttering step.
LEMMA StepContract ==
  ASSUME IInv, IInv', [Next]_vars
  PROVE  [Contract!Next]_(Contract!vars)
<1> DEFINE Goal == [Contract!Next]_(Contract!vars)
<1>1. EveryPieceAccounted /\ EveryPieceAccounted'
  BY DEF IInv
<1>2. /\ cursor \in FirstPiece..NPiece /\ NPiece \in Nat /\ FirstPiece \in Nat
      /\ cancelled \in BOOLEAN /\ Queued \cup InHand = Chosen \ received
      /\ (Queued \cup InHand)' = (Chosen \ received)'
  BY <1>1, PieceAssumption, Outstanding DEF IInv, TypeOK, EveryPieceAccounted
<1>3. CASE UNCHANGED View
  <2>1. Phase' = Phase
    BY <1>3 DEF View, Phase, Announced, Drained
  <2> QED
    BY <1>1, <1>3, <2>1, Unseen DEF View
<1>4. CASE ~panicked /\ Cancel
  <2>1. Phase' = Phase /\ (Queued \cup InHand)' = Queued \cup InHand
    BY <1>4 DEF Cancel, Phase, Announced, Drained, Queued, InHand, shutdownVars
  <2> QED
    BY <1>4, <2>1 DEF Cancel, Contract!Next, Contract!Cancel, serviceVars
<1>5. CASE ~panicked /\ (WriterFail \/ \E w \in Worker : WorkerFail(w))
  <2>1. Phase' = Phase /\ (Queued \cup InHand)' = Queued \cup InHand
    BY <1>5 DEF WriterFail, WorkerFail, Phase, Announced, Drained, Queued, InHand,
                shutdownVars
  <2> QED
    BY <1>5, <2>1 DEF WriterFail, WorkerFail, Contract!Next, Contract!Die, serviceVars
<1>6. ASSUME NEW w \in Worker, ~panicked, WriterReceive(w)
      PROVE  Goal
  <2> DEFINE p == held[w]
  <2>1. p \in Queued \cup InHand
    BY <1>6 DEF WriterReceive, IInv, HandsExact, Busy, InHand
  <2>2. /\ received' = received \cup {p}
        /\ (Queued \cup InHand)' = (Queued \cup InHand) \ {p}
    BY <1>2, <1>6 DEF WriterReceive, Chosen
  <2>3. Phase' = Phase /\ UNCHANGED <<cancelled, cursor, panicked>>
    BY <1>6 DEF WriterReceive, Phase, Announced, Drained, shutdownVars
  <2> QED
    BY <1>6, <2>1, <2>2, <2>3 DEF Contract!Next, Contract!Deliver
<1>7. CASE ~panicked /\ SchedulerPick
  <2>1. UNCHANGED <<cancelled, elsewhere, received, panicked>>
    BY <1>7 DEF SchedulerPick, serviceVars
  <2>2. Phase' = Phase
    BY <1>7 DEF SchedulerPick, LaunchWaiter, shutdownVars, Phase, Announced, Drained
  <2>3. CASE cursor >= NPiece
    <3>1. cursor' = cursor
      BY <1>7, <2>3 DEF SchedulerPick, NextCursor
    <3> QED
      BY <1>1, <2>1, <2>2, <3>1, Unseen
  <2>4. CASE ~(cursor >= NPiece)
    <3>1. cursor' = cursor + 1 /\ cursor < NPiece
      BY <1>2, <1>7, <2>4 DEF SchedulerPick, NextCursor
    <3>2. Phase = "running" \/ cancelled
      BY <1>2, <3>1 DEF IInv, EarlyEnd, Phase, Announced, Drained
    <3>3. cursor \notin received
      <4>1. received \subseteq FirstPiece..(cursor - 1)
        BY <1>1 DEF EveryPieceAccounted, Chosen
      <4> QED
        BY <1>2, <4>1
    <3>4. FirstPiece..((cursor + 1) - 1) = (FirstPiece..(cursor - 1)) \cup {cursor}
      BY <1>2
    <3>5. cursor \notin elsewhere
      BY <1>2 DEF IInv, TypeOK
    <3>6. (Queued \cup InHand)' = (Queued \cup InHand) \cup {cursor}
      BY <1>2, <2>1, <3>1, <3>3, <3>4, <3>5 DEF Chosen
    <3> QED
      BY <1>7, <2>1, <2>2, <3>1, <3>2, <3>6 DEF Contract!Next, Contract!HandOut
  <2> QED
    BY <2>3, <2>4
<1>8. CASE ~panicked /\ WaiterStep
  <2>1. /\ UNCHANGED <<cancelled, cursor, elsewhere, received, completed, panicked>>
        /\ Waited
    BY <1>8 DEF WaiterStep, serviceVars, Waited
  <2>2. (Queued \cup InHand)' = Queued \cup InHand
    BY <1>2, <2>1 DEF Chosen
  <2>3. CASE waiter = "mainDone"
    <3>1. Phase = "running" /\ Phase' = "over"
      BY <1>8, <2>3 DEF WaiterStep, Phase, Announced, Drained
    <3>2. cancelled \/ (cursor = NPiece /\ Queued \cup InHand = {})
      BY <2>1, HandsEmpty
    <3> QED
      BY <1>8, <2>1, <2>2, <3>1, <3>2 DEF Contract!Next, Contract!Finish
  <2>4. CASE waiter = "announce" /\ completed
    <3>1. Phase = "over" /\ Phase' = "announced" /\ cursor = NPiece
      BY <1>8, <2>1, <2>4 DEF WaiterStep, Phase, Announced, Drained, IInv, EarlyEnd
    <3> QED
      BY <1>8, <2>1, <2>2, <3>1 DEF Contract!Next, Contract!Announce
  <2>5. CASE waiter # "mainDone" /\ ~(waiter = "announce" /\ completed)
    <3>1. Phase' = Phase
      BY <1>8, <2>1, <2>5 DEF WaiterStep, Phase, Announced, Drained
    <3> QED
      BY <1>1, <2>1, <3>1, Unseen
  <2> QED
    BY <2>3, <2>4, <2>5
<1>9. CASE ~panicked /\ (WaiterWait \/ WaiterWake)
  <2>1. Phase' = Phase /\ UNCHANGED <<cancelled, cursor, elsewhere, received>>
    BY <1>9 DEF WaiterWait, AfterWaitCall, WaiterWake, Phase, Announced, Drained,
                serviceVars
  <2>2. CASE UNCHANGED panicked
    BY <1>1, <2>1, <2>2, Unseen
  <2>3. CASE panicked'
    <3>1. (Queued \cup InHand)' = Queued \cup InHand
      BY <1>2, <2>1 DEF Chosen
    <3> QED
      BY <1>9, <2>1, <2>3, <3>1, Zenon DEF Contract!Next, Contract!Die, IInv, TypeOK
  <2> QED
    BY <1>9, <2>2, <2>3 DEF WaiterWait, WaiterWake
<1>10. ASSUME NEW w \in Worker, WorkerQuit(w) \/ WorkerTakeNil(w)
       PROVE  Goal
  <2>1. Phase' = Phase /\ UNCHANGED <<cancelled, cursor, elsewhere, received, panicked>>
    BY <1>10 DEF WorkerQuit, WorkerTakeNil, Exit, Phase, Announced, Drained,
                 serviceVars
  <2> QED
    BY <1>1, <2>1, Unseen
<1>11. ASSUME \/ UNCHANGED vars \/ SchedulerSeesCancel \/ SchedulerReturn
              \/ DispatcherReturn \/ WriterWrite \/ WriterReturn
              \/ \E w \in Worker :
                   \/ WorkerStart(w) \/ WorkerTake(w) \/ WorkerDownload(w)
                   \/ WorkerRelease(w) \/ SchedulerReceive(w)
                   \/ DispatcherReceive(w) \/ DispatcherRespond(w)
       PROVE  UNCHANGED View
  BY <1>11 DEF View, vars, shutdownVars, serviceVars, SchedulerSeesCancel,
        SchedulerReturn, DispatcherReturn, WriterWrite, WriterReturn, WorkerStart,
        WorkerTake, WorkerDownload, WorkerRelease, SchedulerReceive,
        DispatcherReceive, DispatcherRespond
<1>12. CASE ~panicked /\ Elsewhere
  <2>1. Phase' = Phase /\ (Queued \cup InHand)' = Queued \cup InHand
    BY <1>12 DEF Elsewhere, Phase, Announced, Drained, Queued, InHand, shutdownVars
  <2> QED
    BY <1>12, <2>1
       DEF Elsewhere, Contract!Next, Contract!Elsewhere, serviceVars
<1> QED
  BY <1>3, <1>4, <1>5, <1>6, <1>7, <1>8, <1>9, <1>10, <1>11, <1>12
     DEF Next, Progress, Outside, ServiceStep, WorkerStep, Rendezvous

\* A session implements SessionContract: pieces are handed out in order and
\* delivered once, it ends only when it was cancelled or everything is delivered,
\* and it announces completion only when nothing is left to hand out.
THEOREM SessionKeepsContract == Spec => KeepsContract
<1>1. IInv /\ IInv' /\ [Next]_vars => [Contract!Next]_(Contract!vars)
  BY StepContract
<1> QED
  BY InitContract, IInvHolds, <1>1, PTL DEF Spec, KeepsContract, Contract!Spec
=============================================================================
