------------------------ MODULE PeerDispatch_proofs ------------------------
(***************************************************************************)
(* Theorems about PeerDispatch, for any workers, peers and limit.          *)
(***************************************************************************)
EXTENDS PeerDispatch, FiniteSetTheorems, TLAPS

-----------------------------------------------------------------------------
(* Type correctness.                                                        *)

\* The initial values have their types.
LEMMA InitType == Init => TypeOK
  BY SeedAssumption DEF Init, TypeOK, WorkerState, DispatcherState

\* What remote peers do keeps the types.
LEMMA RemoteType ==
  ASSUME TypeOK, RemoteStep
  PROVE  TypeOK'
<1> USE DEF TypeOK, offerVars, signalVars, workerVars, dispatchVars
<1>1. CASE RouterSignal
  BY <1>1 DEF RouterSignal, AfterSignal, DispatcherState
<1>2. ASSUME NEW p \in Peer, UnChoke(p)
      PROVE  TypeOK'
  BY <1>2 DEF UnChoke
<1>3. ASSUME NEW p \in Peer, Choke(p)
      PROVE  TypeOK'
  BY <1>3 DEF Choke
<1>4. ASSUME NEW p \in Peer, AddNewPeer(p)
      PROVE  TypeOK'
  BY <1>4 DEF AddNewPeer
<1>5. ASSUME NEW p \in Peer, JoinSignal(p)
      PROVE  TypeOK'
  BY <1>5 DEF JoinSignal, AfterSignal, DispatcherState
<1>6. ASSUME NEW p \in Peer, NEW pieces \in SUBSET PieceIndex, Offer(p, pieces)
      PROVE  TypeOK'
  BY <1>6 DEF Offer
<1> QED
  BY <1>1, <1>2, <1>3, <1>4, <1>5, <1>6 DEF RemoteStep

\* The steps of worker w, and the dispatcher's receipt of its request, keep the
\* types.
LEMMA WorkerType ==
  ASSUME TypeOK, NEW w \in Worker, WorkerStep(w) \/ DispatcherReceive(w)
  PROVE  TypeOK'
<1> USE SetAssumption
        DEF TypeOK, Goto, WorkerState, offerVars, signalVars, dispatchVars
<1>1. CASE WorkerAsk(w)
  BY <1>1 DEF WorkerAsk
<1>2. CASE WorkerRelease(w)
  <2>1. peerOf[w] \in Peer
    BY <1>2 DEF WorkerRelease
  <2> QED
    BY <1>2, <2>1 DEF WorkerRelease, Released
<1>3. CASE WorkerLock(w)
  BY <1>3 DEF WorkerLock
<1>4. CASE WorkerSignal(w)
  BY <1>4 DEF WorkerSignal, AfterSignal, DispatcherState
<1>5. CASE DispatcherReceive(w)
  BY <1>5 DEF DispatcherReceive, DispatcherState
<1> QED
  BY <1>1, <1>2, <1>3, <1>4, <1>5 DEF WorkerStep

\* The other steps of the dispatcher keep the types.
LEMMA DispatcherType ==
  ASSUME TypeOK, DispatcherStep
  PROVE  TypeOK'
<1> USE SetAssumption DEF TypeOK, offerVars, signalVars, workerVars, DispatcherState
<1>1. CASE DispatcherLock
  BY <1>1 DEF DispatcherLock
<1>2. CASE Wait
  BY <1>2 DEF Wait
<1>3. ASSUME NEW p \in Peer, Select(p)
      PROVE  TypeOK'
  BY <1>3 DEF Select, Visiting, Taken
<1>4. ASSUME NEW p \in Peer, Refuse(p)
      PROVE  TypeOK'
  BY <1>4 DEF Refuse, Visiting
<1>5. CASE Resume
  BY <1>5 DEF Resume
<1>6. CASE Respond
  <2>1. request \in Worker /\ selected \in Peer
    BY <1>6 DEF Respond
  <2> QED
    BY <1>6, <2>1 DEF Respond, Goto, WorkerState
<1> QED
  BY <1>1, <1>2, <1>3, <1>4, <1>5, <1>6 DEF DispatcherStep, RangeStep

\* Every step keeps the types.
LEMMA StepType == TypeOK /\ [Next]_vars => TypeOK'
<1> SUFFICES ASSUME TypeOK, [Next]_vars PROVE TypeOK'
  OBVIOUS
<1>1. CASE Next
  BY <1>1, RemoteType, WorkerType, DispatcherType DEF Next
<1>2. CASE UNCHANGED vars
  BY <1>2 DEF vars, offerVars, signalVars, workerVars, dispatchVars, TypeOK
<1> QED
  BY <1>1, <1>2

\* Every variable keeps its type, a worker has a peer exactly while it uses it and
\* the dispatcher has a request exactly outside its select.
THEOREM TypeCorrect == Spec => []TypeOK
  BY InitType, StepType, PTL DEF Spec

-----------------------------------------------------------------------------
(* The load of a peer.                                                      *)

\* No peer is used at the start.
LEMMA InitLoad == Init => LoadExact
<1> SUFFICES ASSUME Init, NEW p \in Peer
             PROVE  isFree[p] = Cardinality(UsersOf(p)) + (IF selected = p THEN 1 ELSE 0)
  BY DEF LoadExact
<1>1. UsersOf(p) = {}
  BY SetAssumption DEF Init, UsersOf
<1> QED
  BY <1>1, FS_EmptySet, SetAssumption DEF Init

\* The users of a peer are finitely many; one more or less counts for one.
LEMMA Users ==
  ASSUME NEW S \in SUBSET Worker
  PROVE  /\ Cardinality(S) \in Nat
         /\ \A w \in Worker \ S : Cardinality(S \cup {w}) = Cardinality(S) + 1
         /\ \A w \in S : Cardinality(S \ {w}) = Cardinality(S) - 1
<1>1. IsFiniteSet(S)
  BY SetAssumption, FS_Subset
<1> QED
  BY <1>1, FS_CardinalityType, FS_AddElement, FS_RemoveElement

\* A peer's IsFree changes exactly when it is selected and when a user leaves.
LEMMA StepLoad ==
  ASSUME TypeOK, LoadExact, [Next]_vars
  PROVE  LoadExact'
<1> USE DEF LoadExact
<1>1. /\ isFree \in [Peer -> Int] /\ peerOf \in [Worker -> Peer \cup {Nil}]
      /\ \A p \in Peer : UsersOf(p) \in SUBSET Worker
      /\ \A p \in Peer : Cardinality(UsersOf(p)) \in Nat
  <2>1. \A p \in Peer : UsersOf(p) \in SUBSET Worker
    BY DEF UsersOf
  <2> QED
    BY <2>1, Users DEF TypeOK
<1>2. ASSUME NEW w \in Worker, WorkerRelease(w)
      PROVE  LoadExact'
  <2> SUFFICES ASSUME NEW p \in Peer
               PROVE  (isFree[p] = Cardinality(UsersOf(p))
                                     + (IF selected = p THEN 1 ELSE 0))'
    OBVIOUS
  <2>1. /\ peerOf' = [peerOf EXCEPT ![w] = Nil] /\ selected' = selected
        /\ isFree' = [isFree EXCEPT ![peerOf[w]] = @ - 1] /\ peerOf[w] \in Peer
    BY <1>2 DEF WorkerRelease, Released, dispatchVars, TypeOK
  <2>2. CASE p = peerOf[w]
    <3>1. w \in UsersOf(p) /\ UsersOf(p)' = UsersOf(p) \ {w}
      BY <1>1, <2>1, <2>2, SetAssumption DEF UsersOf
    <3>2. Cardinality(UsersOf(p)') = Cardinality(UsersOf(p)) - 1
      BY <1>1, <3>1, Users
    <3>3. isFree'[p] = isFree[p] - 1
      BY <1>1, <2>1, <2>2
    <3> QED
      BY <1>1, <2>1, <3>2, <3>3
  <2>3. CASE p # peerOf[w]
    <3>1. UsersOf(p)' = UsersOf(p) /\ isFree'[p] = isFree[p]
      BY <1>1, <2>1, <2>3, SetAssumption DEF UsersOf
    <3> QED
      BY <2>1, <3>1
  <2> QED
    BY <2>2, <2>3
<1>3. ASSUME NEW q \in Peer, Select(q)
      PROVE  LoadExact'
  <2> SUFFICES ASSUME NEW p \in Peer
               PROVE  (isFree[p] = Cardinality(UsersOf(p))
                                     + (IF selected = p THEN 1 ELSE 0))'
    OBVIOUS
  <2>1. /\ peerOf' = peerOf /\ selected' = q /\ selected = Nil
        /\ isFree' = [isFree EXCEPT ![q] = @ + 1]
    BY <1>3 DEF Select, Visiting, Taken, workerVars, TypeOK
  <2>2. UsersOf(p)' = UsersOf(p)
    BY <2>1 DEF UsersOf
  <2> QED
    BY <1>1, <2>1, <2>2, SetAssumption
<1>4. CASE Respond
  <2> SUFFICES ASSUME NEW p \in Peer
               PROVE  (isFree[p] = Cardinality(UsersOf(p))
                                     + (IF selected = p THEN 1 ELSE 0))'
    OBVIOUS
  <2>1. /\ peerOf' = [peerOf EXCEPT ![request] = selected] /\ selected' = Nil
        /\ isFree' = isFree /\ request \in Worker /\ selected \in Peer
        /\ peerOf[request] = Nil
    BY <1>4 DEF Respond, TypeOK
  <2>2. CASE p = selected
    <3>1. request \notin UsersOf(p) /\ UsersOf(p)' = UsersOf(p) \cup {request}
      BY <1>1, <2>1, <2>2, SetAssumption DEF UsersOf
    <3>2. Cardinality(UsersOf(p)') = Cardinality(UsersOf(p)) + 1
      BY <1>1, <2>1, <3>1, Users
    <3> QED
      BY <1>1, <2>1, <2>2, <3>2, SetAssumption
  <2>3. CASE p # selected
    <3>1. UsersOf(p)' = UsersOf(p)
      BY <1>1, <2>1, <2>3, SetAssumption DEF UsersOf
    <3> QED
      BY <2>1, <2>3, <3>1, SetAssumption
  <2> QED
    BY <2>2, <2>3
<1>5. ASSUME UNCHANGED <<isFree, peerOf, selected>>
      PROVE  LoadExact'
  BY <1>5 DEF UsersOf
<1>6. ASSUME \/ RemoteStep \/ UNCHANGED vars
             \/ DispatcherLock \/ Wait \/ Resume \/ \E p \in Peer : Refuse(p)
             \/ \E w \in Worker : \/ WorkerAsk(w) \/ WorkerLock(w)
                                  \/ WorkerSignal(w) \/ DispatcherReceive(w)
      PROVE  UNCHANGED <<isFree, peerOf, selected>>
  BY <1>6 DEF RemoteStep, RouterSignal, UnChoke, Choke, AddNewPeer, JoinSignal,
        Offer, vars, DispatcherLock, Wait, Resume, Refuse, WorkerAsk, WorkerLock,
        WorkerSignal, DispatcherReceive, workerVars, dispatchVars
<1> QED
  BY <1>2, <1>3, <1>4, <1>5, <1>6 DEF Next, WorkerStep, DispatcherStep, RangeStep

\* IsFree counts the workers that use a peer, with the one about to be given it.
THEOREM LoadIsExact == Spec => []LoadExact
<1>1. TypeOK /\ LoadExact /\ [Next]_vars => LoadExact'
  BY StepLoad
<1> QED
  BY InitLoad, <1>1, TypeCorrect, PTL DEF Spec

\* No peer serves more pieces than the limit, for any number of workers.
THEOREM CapacityIsRespected == Spec => []CapacityRespected
<1>1. Init => CapacityRespected
  BY MaxAssumption DEF Init, CapacityRespected
<1>2. TypeOK /\ CapacityRespected /\ [Next]_vars => CapacityRespected'
  <2> SUFFICES ASSUME TypeOK, CapacityRespected, [Next]_vars
               PROVE  CapacityRespected'
    OBVIOUS
  <2> USE DEF CapacityRespected
  <2>1. isFree \in [Peer -> Int] /\ MaxPiecePerPeer \in Int
    BY MaxAssumption DEF TypeOK
  <2>2. ASSUME NEW w \in Worker, WorkerRelease(w)
        PROVE  CapacityRespected'
    BY <2>1, <2>2 DEF WorkerRelease, Released
  <2>3. ASSUME NEW p \in Peer, Select(p)
        PROVE  CapacityRespected'
    BY <2>1, <2>3 DEF Select, IsAvailable, HasRoom, Taken
  <2>4. ASSUME \/ RemoteStep \/ UNCHANGED vars
               \/ DispatcherLock \/ Wait \/ Resume \/ Respond
               \/ \E p \in Peer : Refuse(p)
               \/ \E w \in Worker : \/ WorkerAsk(w) \/ WorkerLock(w)
                                    \/ WorkerSignal(w) \/ DispatcherReceive(w)
        PROVE  isFree' = isFree
    BY <2>4 DEF RemoteStep, RouterSignal, UnChoke, Choke, AddNewPeer, JoinSignal,
          Offer, vars, DispatcherLock, Wait, Resume, Respond, Refuse, WorkerAsk,
          WorkerLock, WorkerSignal, DispatcherReceive
  <2>5. ASSUME isFree' = isFree
        PROVE  CapacityRespected'
    BY <2>5
  <2> QED
    BY <2>2, <2>3, <2>4, <2>5 DEF Next, WorkerStep, DispatcherStep, RangeStep
<1> QED
  BY <1>1, <1>2, TypeCorrect, PTL DEF Spec

-----------------------------------------------------------------------------
(* The sleep of the dispatcher.                                             *)

\* While the dispatcher ranges, no worker can lock; while it sleeps, the first
\* worker that signals wakes it.
LEMMA StepRefused ==
  ASSUME TypeOK, RefusedStayFull, [Next]_vars
  PROVE  RefusedStayFull'
<1> USE DEF RefusedStayFull
<1>1. isFree \in [Peer -> Int] /\ workers \in [Worker -> WorkerState] /\ refused \subseteq Peer
  BY DEF TypeOK
<1>2. ASSUME NEW w \in Worker, WorkerRelease(w)
      PROVE  RefusedStayFull'
  BY <1>1, <1>2 DEF WorkerRelease, Goto, dispatchVars
<1>3. ASSUME NEW w \in Worker, WorkerLock(w)
      PROVE  RefusedStayFull'
  <2>1. dispatcher # "range" /\ UNCHANGED <<isFree, dispatcher, refused>>
    BY <1>3 DEF WorkerLock, WorkerMayLock, LockFree, dispatchVars
  <2>2. workers' = [workers EXCEPT ![w] = "signal"]
    BY <1>3 DEF WorkerLock, Goto
  <2> QED
    BY <1>1, <2>1, <2>2
<1>4. ASSUME NEW w \in Worker, WorkerSignal(w)
      PROVE  RefusedStayFull'
  <2>1. /\ dispatcher' # "asleep"
        /\ dispatcher' = "range" => dispatcher = "range"
        /\ UNCHANGED <<isFree, refused>> /\ workers' = [workers EXCEPT ![w] = "idle"]
        /\ workers[w] = "signal"
    BY <1>4 DEF WorkerSignal, AfterSignal, Goto
  <2> QED
    BY <1>1, <2>1
<1>5. ASSUME NEW w \in Worker, WorkerAsk(w) \/ DispatcherReceive(w)
      PROVE  RefusedStayFull'
  <2>1. CASE WorkerAsk(w)
    BY <1>1, <2>1 DEF WorkerAsk, Goto, dispatchVars
  <2>2. CASE DispatcherReceive(w)
    BY <1>1, <2>2 DEF DispatcherReceive, Goto
  <2> QED
    BY <1>5, <2>1, <2>2
<1>6. CASE RemoteStep
  <2>1. /\ UNCHANGED <<isFree, refused, workers>>
        /\ dispatcher' = dispatcher \/ dispatcher' = "woken"
    BY <1>6 DEF RemoteStep, RouterSignal, UnChoke, Choke, AddNewPeer, JoinSignal,
          Offer, AfterSignal, workerVars, dispatchVars
  <2> QED
    BY <2>1
<1>7. ASSUME NEW p \in Peer, Refuse(p)
      PROVE  RefusedStayFull'
  <2>1. UNCHANGED <<isFree, workers, dispatcher>> /\ dispatcher = "range"
    BY <1>7 DEF Refuse, Visiting, workerVars
  <2>2. \/ refused' = refused \cup {p} /\ isFree[p] = MaxPiecePerPeer
        \/ refused' = refused
    BY <1>7 DEF Refuse, IsAvailable, HasRoom
  <2> QED
    BY <2>1, <2>2
<1>8. CASE Wait
  BY <1>8 DEF Wait, workerVars
<1>9. CASE DispatcherLock \/ Resume \/ Respond \/ \E p \in Peer : Select(p)
  <2>1. refused' = {} \/ dispatcher' \notin {"range", "asleep"}
    BY <1>9 DEF DispatcherLock, Resume, Respond, Select
  <2> QED
    BY <2>1
<1>10. CASE UNCHANGED vars
  BY <1>10 DEF vars, workerVars, dispatchVars
<1> QED
  BY <1>2, <1>3, <1>4, <1>5, <1>6, <1>7, <1>8, <1>9, <1>10
     DEF Next, WorkerStep, DispatcherStep, RangeStep

\* The dispatcher never sleeps through the release of a peer it refused only for
\* its load, for any number of workers and peers.
THEOREM BusyPeerAlwaysWakes == Spec => []BusyPeerWakes
<1>1. Init => RefusedStayFull
  BY DEF Init, RefusedStayFull
<1>2. TypeOK /\ RefusedStayFull /\ [Next]_vars => RefusedStayFull'
  BY StepRefused
<1>3. RefusedStayFull => BusyPeerWakes
  BY DEF RefusedStayFull, BusyPeerWakes
<1> QED
  BY <1>1, <1>2, <1>3, TypeCorrect, PTL DEF Spec
=============================================================================
