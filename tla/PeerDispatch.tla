---------------------------- MODULE PeerDispatch ----------------------------
(***************************************************************************)
(* How workers get peers: the goroutine GetAvailablePeer of PeerManager,   *)
(* the workers that ask it for a peer and give it back, and the goroutines *)
(* that change what peers offer (the message router and AddNewPeer). They  *)
(* meet at the condition variable peerAlert: GetAvailablePeer looks for a  *)
(* peer and waits holding its lock, workers signal holding it, the message *)
(* handlers and AddNewPeer signal without it.                              *)
(*                                                                         *)
(* GetAvailablePeer's context is cancelled only after the workers of the   *)
(* session have ended; that end is in DownloadSession.                     *)
(***************************************************************************)
EXTENDS Integers, FiniteSets

CONSTANTS
  Worker,     \* the worker goroutines
  Peer,       \* Peer objects
  Id,         \* Id[p] is GetId() of the object p, its key in activePeers
  Seed,       \* objects that are connected, never choke and have every piece
  PieceIndex, \* the pieces workers ask for
  MaxPiecePerPeer,
  Nil

ASSUME SetAssumption == IsFiniteSet(Worker) /\ Nil \notin Worker /\ Nil \notin Peer
ASSUME SeedAssumption ==
  Seed \subseteq Peer /\ \A p \in Peer, s \in Seed : Id[p] = Id[s] => p = s
ASSUME MaxAssumption == MaxPiecePerPeer \in Nat \ {0}

VARIABLES
  active,      \* the values of the map activePeers
  stored,      \* objects that are or were in activePeers
  choking,     \* objects with isChocking set
  bitfield,    \* the pieces each object's bitfield shows
  isFree,      \* IsFree of each object: the number of workers that use it
  router,      \* "idle", or "signal" between a handler's update and its Signal
  joining,     \* AddNewPeer goroutines between Store and Signal
  workers,     \* where each worker is
  wanted,      \* pieceIndex of each worker's request
  peerOf,      \* the peer each worker was given, or Nil
  dispatcher,  \* where GetAvailablePeer is
  request,     \* the worker whose request it serves, or Nil
  visited,     \* peers the running Range has looked at
  late,        \* peers stored since it began
  selected,    \* its selectedPeer, or Nil
  refused      \* history: peers the last Range refused only for their load

offerVars    == <<active, stored, choking, bitfield>>
signalVars   == <<router, joining>>
workerVars   == <<workers, wanted, peerOf>>
dispatchVars == <<dispatcher, request, visited, late, selected, refused>>
vars == <<offerVars, isFree, signalVars, workerVars, dispatchVars>>

\* A worker is elsewhere; sends on peerChan; receives the response; downloads and
\* hands the piece over; calls peerAlert.L.Lock(); holds the lock to Signal.
WorkerState == {"idle", "request", "await", "using", "lock", "signal"}

\* GetAvailablePeer is in its select; calls L.Lock(); ranges over activePeers
\* holding the lock; sends the response holding it; is in Wait; has been signalled
\* and takes the lock again.
DispatcherState == {"select", "lock", "range", "respond", "asleep", "woken"}

\* peerAlert.L is held by whoever is between Lock and Unlock.
LockFree ==
  /\ dispatcher \notin {"range", "respond"}
  /\ \A w \in Worker : workers[w] # "signal"

\* (Mutant: a signal is remembered until somebody waits.)
SignalRemembered == "woken"

\* peerAlert.Signal() wakes GetAvailablePeer if it waits, and is forgotten if not.
AfterSignal == IF dispatcher = "asleep" THEN "woken" ELSE dispatcher

\* (Mutant: room for one too many.)
HasRoomForMore(p) == isFree[p] # MaxPiecePerPeer + 1

\* The two halves of isAvailable.
Offers(p, i) == p \notin choking /\ i \in bitfield[p]
HasRoom(p)   == isFree[p] # MaxPiecePerPeer
IsAvailable(p, i) == Offers(p, i) /\ HasRoom(p)

Init ==
  /\ active = Seed
  /\ stored = Seed
  /\ choking = Peer \ Seed
  /\ bitfield = [p \in Peer |-> IF p \in Seed THEN PieceIndex ELSE {}]
  /\ isFree = [p \in Peer |-> 0]
  /\ router = "idle"
  /\ joining = {}
  /\ workers = [w \in Worker |-> "idle"]
  /\ wanted \in [Worker -> PieceIndex]
  /\ peerOf = [w \in Worker |-> Nil]
  /\ dispatcher = "select"
  /\ request = Nil
  /\ visited = {}
  /\ late = {}
  /\ selected = Nil
  /\ refused = {}

Goto(w, station) == workers' = [workers EXCEPT ![w] = station]

-----------------------------------------------------------------------------
(* Remote peers. The handlers run in the message router, one at a time; each*)
(* changes the peer, then signals without the lock.                        *)

\* Objects whose HandleMsgStream runs: AddNewPeer starts it after its Signal. An
\* object that was replaced in activePeers keeps its connection.
Talking == stored \ joining

\* HandleUnChokeMsg up to the Signal.
UnChoke(p) ==
  /\ router = "idle" /\ p \in Talking
  /\ choking' = choking \ {p}
  /\ router' = "signal"
  /\ UNCHANGED <<active, stored, bitfield, isFree, joining, workerVars, dispatchVars>>

\* HandleChokeMsg up to the Signal.
Choke(p) ==
  /\ router = "idle" /\ p \in Talking
  /\ p \notin Seed
  /\ choking' = choking \cup {p}
  /\ router' = "signal"
  /\ UNCHANGED <<active, stored, bitfield, isFree, joining, workerVars, dispatchVars>>

\* HandleBitFieldMsg (any pieces) and HandleHaveMsg (one piece more, which one is
\* the subject of PieceAvailability) up to the Signal.
Offer(p, pieces) ==
  /\ router = "idle" /\ p \in Talking
  /\ p \notin Seed
  /\ bitfield' = [bitfield EXCEPT ![p] = pieces]
  /\ router' = "signal"
  /\ UNCHANGED <<active, stored, choking, isFree, joining, workerVars, dispatchVars>>

\* manager.PeerManager.peerAlert.Signal() in a handler.
RouterSignal ==
  /\ router = "signal"
  /\ router' = "idle"
  /\ dispatcher' = AfterSignal
  /\ UNCHANGED <<offerVars, isFree, joining, workerVars, request, visited,
                 late, selected, refused>>

\* AddNewPeer: activePeers.Store, which replaces an object with the same id (the
\* trackers announce peers again and again; seeds are not announced again).
AddNewPeer(p) ==
  /\ p \notin stored
  /\ active' = {q \in active : Id[q] # Id[p]} \cup {p}
  /\ stored' = stored \cup {p}
  /\ joining' = joining \cup {p}
  /\ late' = late \cup {p}
  /\ UNCHANGED <<choking, bitfield, isFree, router, workerVars, dispatcher,
                 request, visited, selected, refused>>

\* AddNewPeer: peerAlert.Signal().
JoinSignal(p) ==
  /\ p \in joining
  /\ joining' = joining \ {p}
  /\ dispatcher' = AfterSignal
  /\ UNCHANGED <<offerVars, isFree, router, workerVars, request, visited,
                 late, selected, refused>>

-----------------------------------------------------------------------------
(* Workers.                                                                 *)

\* A worker takes a piece from downloadJobChan and makes a request for it.
WorkerAsk(w) ==
  /\ workers[w] = "idle"
  /\ wanted' \in {[wanted EXCEPT ![w] = i] : i \in PieceIndex}
  /\ Goto(w, "request")
  /\ UNCHANGED <<offerVars, isFree, signalVars, peerOf, dispatchVars>>

\* (Mutant: the worker keeps its place at the peer.)
ReleasedNot(w) == isFree

\* atomic.AddInt64(&peer.IsFree, -1).
Released(w) == [isFree EXCEPT ![peerOf[w]] = @ - 1]

\* The piece is downloaded and handed to the writer; the worker gives up its place
\* at the peer and is about to lock peerAlert.L.
WorkerRelease(w) ==
  /\ workers[w] = "using"
  /\ isFree' = Released(w)
  /\ peerOf' = [peerOf EXCEPT ![w] = Nil]
  /\ Goto(w, "lock")
  /\ UNCHANGED <<offerVars, signalVars, wanted, dispatchVars>>

\* (Mutant: the worker signals without the lock.)
LockUnneeded == TRUE

\* What peerAlert.L.Lock() in a worker waits for.
WorkerMayLock == LockFree

WorkerLock(w) ==
  /\ workers[w] = "lock"
  /\ WorkerMayLock
  /\ Goto(w, "signal")
  /\ UNCHANGED <<offerVars, isFree, signalVars, wanted, peerOf, dispatchVars>>

\* peerAlert.Signal() and L.Unlock().
WorkerSignal(w) ==
  /\ workers[w] = "signal"
  /\ dispatcher' = AfterSignal
  /\ Goto(w, "idle")
  /\ UNCHANGED <<offerVars, isFree, signalVars, wanted, peerOf, request, visited,
                 late, selected, refused>>

-----------------------------------------------------------------------------
(* GetAvailablePeer.                                                        *)

\* `request := <-manager.peerChan', unbuffered.
DispatcherReceive(w) ==
  /\ dispatcher = "select"
  /\ workers[w] = "request"
  /\ dispatcher' = "lock"
  /\ request' = w
  /\ Goto(w, "await")
  /\ UNCHANGED <<offerVars, isFree, signalVars, wanted, peerOf, visited, late,
                 selected, refused>>

\* peerAlert.L.Lock(), and the Range begins.
DispatcherLock ==
  /\ dispatcher = "lock"
  /\ LockFree
  /\ dispatcher' = "range"
  /\ visited' = {}
  /\ late' = {}
  /\ refused' = {}
  /\ UNCHANGED <<offerVars, isFree, signalVars, workerVars, request, selected>>

\* atomic.AddInt64(&peer.IsFree,1).
Taken(p) == [isFree EXCEPT ![p] = @ + 1]

\* Range visits every key once, and sees the object stored there at that time.
Visiting(p) ==
  /\ dispatcher = "range"
  /\ p \in active
  /\ \A q \in visited : Id[q] # Id[p]

\* The function of the Range finds p available and ends the Range.
Select(p) ==
  /\ Visiting(p)
  /\ IsAvailable(p, wanted[request])
  /\ isFree' = Taken(p)
  /\ selected' = p
  /\ dispatcher' = "respond"
  /\ UNCHANGED <<offerVars, signalVars, workerVars, request, visited, late, refused>>

\* The function of the Range finds p not available and goes on.
Refuse(p) ==
  /\ Visiting(p)
  /\ ~IsAvailable(p, wanted[request])
  /\ visited' = visited \cup {p}
  /\ refused' = IF Offers(p, wanted[request]) THEN refused \cup {p} ELSE refused
  /\ UNCHANGED <<offerVars, isFree, signalVars, workerVars, dispatcher, request,
                 late, selected>>

\* The Range is over without a peer: it has visited every key it found there, and
\* perhaps those stored meanwhile. peerAlert.Wait() registers with the condition
\* variable and unlocks.
Wait ==
  /\ dispatcher = "range"
  /\ \A p \in active \ late : p \in visited
  /\ dispatcher' = "asleep"
  /\ UNCHANGED <<offerVars, isFree, signalVars, workerVars, request, visited, late,
                 selected, refused>>

\* Wait locks again and returns; the loop unlocks and starts over.
Resume ==
  /\ dispatcher = "woken"
  /\ LockFree
  /\ dispatcher' = "lock"
  /\ UNCHANGED <<offerVars, isFree, signalVars, workerVars, request, visited, late,
                 selected, refused>>

\* `request.response <- selectedPeer' and L.Unlock().
Respond ==
  /\ dispatcher = "respond"
  /\ peerOf' = [peerOf EXCEPT ![request] = selected]
  /\ Goto(request, "using")
  /\ dispatcher' = "select"
  /\ request' = Nil
  /\ selected' = Nil
  /\ UNCHANGED <<offerVars, isFree, signalVars, wanted, visited, late, refused>>

-----------------------------------------------------------------------------
RemoteStep ==
  \/ RouterSignal
  \/ \E p \in Peer :
       \/ UnChoke(p) \/ Choke(p) \/ AddNewPeer(p) \/ JoinSignal(p)
       \/ \E pieces \in SUBSET PieceIndex : Offer(p, pieces)

WorkerStep(w) ==
  \/ WorkerAsk(w) \/ WorkerRelease(w) \/ WorkerLock(w) \/ WorkerSignal(w)

RangeStep      == Wait \/ \E p \in Peer : Select(p) \/ Refuse(p)
DispatcherStep == DispatcherLock \/ RangeStep \/ Resume \/ Respond

Next ==
  \/ RemoteStep
  \/ \E w \in Worker : WorkerStep(w) \/ DispatcherReceive(w)
  \/ DispatcherStep

Spec == Init /\ [][Next]_vars

\* Goroutines of this process that can run do; sync.Mutex does not starve who waits for it, and
\* senders blocked on a channel are served in the order they came. Of remote peers it
\* asks one thing, in WorkerRelease: the blocks of a piece arrive in the end, and the
\* worker gives its peer back. What peers offer need not change, and a worker need not
\* ask for another piece.
Fairness ==
  /\ WF_vars(RouterSignal) /\ \A p \in Peer : WF_vars(JoinSignal(p))
  /\ WF_vars(RangeStep) /\ WF_vars(Respond)
  /\ SF_vars(DispatcherLock) /\ SF_vars(Resume)
  /\ \A w \in Worker :
       /\ WF_vars(WorkerRelease(w)) /\ WF_vars(WorkerSignal(w))
       /\ SF_vars(WorkerLock(w)) /\ SF_vars(DispatcherReceive(w))

FairSpec == Spec /\ Fairness

-----------------------------------------------------------------------------
(* Properties.                                                              *)

\* The types, and who has what: a worker has a peer exactly while it uses it, and
\* the dispatcher has a request exactly outside its select.
TypeOK ==
  /\ active \subseteq Peer /\ stored \subseteq Peer /\ choking \subseteq Peer
  /\ bitfield \in [Peer -> SUBSET PieceIndex]
  /\ isFree \in [Peer -> Int]
  /\ router \in {"idle", "signal"}
  /\ joining \subseteq Peer
  /\ workers \in [Worker -> WorkerState]
  /\ wanted \in [Worker -> PieceIndex]
  /\ peerOf \in [Worker -> Peer \cup {Nil}]
  /\ dispatcher \in DispatcherState
  /\ request \in Worker \cup {Nil}
  /\ visited \subseteq Peer /\ late \subseteq Peer /\ refused \subseteq Peer
  /\ selected \in Peer \cup {Nil}
  /\ \A w \in Worker : peerOf[w] # Nil <=> workers[w] = "using"
  /\ request = Nil <=> dispatcher = "select"
  /\ request # Nil => workers[request] = "await"
  /\ selected # Nil <=> dispatcher = "respond"

UsersOf(p) == {w \in Worker : peerOf[w] = p}

\* IsFree, which the dispatcher increments and the workers decrement without a
\* common lock, counts the workers that use the peer, and the one that is about
\* to be given it.
LoadExact ==
  \A p \in Peer :
    isFree[p] = Cardinality(UsersOf(p)) + (IF selected = p THEN 1 ELSE 0)

\* No Peer object serves more than maxPiecePerPeer pieces at a time, although
\* isAvailable compares IsFree with the limit by == only.
CapacityRespected == \A p \in Peer : isFree[p] <= MaxPiecePerPeer

\* The dispatcher does not sleep through the release of a peer it refused only
\* because the peer was full: while it sleeps, the peer is full still or a worker
\* is on its way to signal. (The handlers signal without the lock; a peer that
\* unchokes between the Range and the Wait is not covered.)
BusyPeerWakes ==
  dispatcher = "asleep" =>
    \A p \in refused :
      isFree[p] = MaxPiecePerPeer \/ \E w \in Worker : workers[w] \in {"lock", "signal"}

\* What the dispatcher may count on while it holds the lock, and while it sleeps.
RefusedStayFull ==
  \A p \in refused :
    \/ isFree[p] = MaxPiecePerPeer
    \/ dispatcher = "range"  /\ \E w \in Worker : workers[w] = "lock"
    \/ dispatcher = "asleep" /\ \E w \in Worker : workers[w] \in {"lock", "signal"}
    \/ dispatcher \notin {"range", "asleep"}

\* A worker that waits for a peer gets one if some connected peer stays available
\* to it. (Not so: the Signal of a handler may come between the Range and the
\* Wait, and no later signal has to come.)
AvailablePeerIsUsed ==
  \A w \in Worker :
    <>[](\E p \in active : IsAvailable(p, wanted[w])) => []<>(workers[w] # "await")

\* Where a seed is connected every request gets a peer, whatever the other peers
\* offer and however many workers compete, as long as workers that have a peer get
\* their blocks from it and give it back.
RequestsAreServed == \A w \in Worker : workers[w] = "request" ~> workers[w] = "using"
=============================================================================
