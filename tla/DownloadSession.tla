-------------------------- MODULE DownloadSession --------------------------
(***************************************************************************)
(* One call of Downloader.Start (core/downloader.go): the scheduler        *)
(* goroutine `download', the nWorker goroutines of startWorker, the        *)
(* goroutine that waits for the workers and winds the session down, the    *)
(* piece writer `write' and the peer dispatcher GetAvailablePeer.          *)
(*                                                                         *)
(* Which peer serves a piece, and how its blocks travel, are the subject   *)
(* of PeerDispatch and PieceDownload: here the dispatcher may answer at    *)
(* any time and piece.download may end at any time.                        *)
(***************************************************************************)
EXTENDS Integers, Sequences, FiniteSets, FiniteSetsExt

CONSTANTS
  Worker,      \* the worker goroutines, nWorker of them
  NPiece,      \* len(downloader.Pieces)
  FirstPiece,  \* lastSelectedPieceIndex when Start is called
  Nil          \* a nil *Piece, and the absence of a piece or a worker

ASSUME WorkerAssumption == IsFiniteSet(Worker) /\ Worker # {} /\ Nil \notin Worker
ASSUME PieceAssumption  == NPiece \in Nat /\ FirstPiece \in 0..NPiece
ASSUME NilAssumption    == Nil \notin 0..NPiece

VARIABLES
  cancelled,     \* downloaderCtx is done: the manager paused or stopped
  cursor,        \* totalSelectedPiece (lastSelectedPieceIndex moves with it)
  elsewhere,     \* pieces another session's scheduler took meanwhile
  workers,       \* where each worker goroutine is
  held,          \* the piece a worker took from downloadJobChan
  jobs,          \* contents of downloadJobChan
  wg,            \* counter of workerWaitGroup
  scheduler,     \* where `download' is
  shuttingDown,  \* its isShuttingDown
  waiter,        \* the shut-down goroutine; "unborn": sentShutDownSignal is false
  completed,     \* the isCompleted that goroutine captured
  dispatcher,    \* GetAvailablePeer: the worker it serves, or Nil
  writer,        \* `write': the piece it is writing, or Nil
  stopped,       \* which of "dispatcher" and "writer" have returned
  received,      \* pieces the writer received
  written,       \* pieces writePiece has put on disk
  panicked       \* log.Panicf, log.Fatal or a panic ended the process

shutdownVars == <<waiter, completed>>
serviceVars  == <<dispatcher, writer, stopped, received, written>>
vars == <<cancelled, cursor, elsewhere, workers, held, jobs, wg, scheduler, shuttingDown,
          shutdownVars, serviceVars, panicked>>

Piece == 0..(NPiece - 1)

\* Stations of a worker: started but before Add(1); sending on signalChan; in
\* the select; sending on peerChan; receiving the response; in piece.download;
\* sending on writerChan; giving the peer back; returned.
WorkerState == {"spawned", "signal", "select", "request", "await", "download",
                "write", "release", "exited"}

\* A worker in one of these stations has a piece in its hands.
Busy == {"request", "await", "download", "write"}

\* Stations of the shut-down goroutine: not started; before Wait; asleep in Wait;
\* woken by the last Done but not yet running; before each statement after Wait.
WaiterState == {"unborn", "wait", "asleep", "woken", "cancelChildren", "mainDone",
                "cancelLocal", "announce", "returned"}

\* Workers between their Add(1) and their Done().
Counted   == {w \in Worker : workers[w] \notin {"spawned", "exited"}}
Selecting == {w \in Worker : workers[w] = "select"}

\* cancelChildRoutines(), mainRoutinesWg.Done(), cancelFunc() and the send of
\* CompleteTorrent follow Wait in this order, so the station tells what happened.
\* (Mutant: cancelChildRoutines() before Wait.)
ChildrenCancelledFirst == waiter # "unborn"
Waited            == waiter \notin {"unborn", "wait", "asleep", "woken"}
ChildrenCancelled == waiter \in {"mainDone", "cancelLocal", "announce", "returned"}
Drained           == waiter \in {"cancelLocal", "announce", "returned"}
LocalCancelled    == waiter \in {"announce", "returned"}
Announced         == waiter = "returned" /\ completed

Init ==
  /\ cancelled = FALSE
  /\ cursor = FirstPiece
  /\ elsewhere = {}
  /\ workers = [w \in Worker |-> "spawned"]
  /\ held = [w \in Worker |-> Nil]
  /\ jobs = <<>>
  /\ wg = 0
  /\ scheduler = "select"
  /\ shuttingDown = FALSE
  /\ waiter = "unborn"
  /\ completed = FALSE
  /\ dispatcher = Nil
  /\ writer = Nil
  /\ stopped = {}
  /\ received = {}
  /\ written = {}
  /\ panicked = FALSE

\* The manager calls downloadCancelRoutine, to pause or to stop.
Cancel ==
  /\ ~cancelled
  /\ cancelled' = TRUE
  /\ UNCHANGED <<cursor, elsewhere, workers, held, jobs, wg, scheduler, shuttingDown,
                 shutdownVars, serviceVars, panicked>>

\* The index outlives a session, and the schedulers of two can run: a cancelled
\* session's goroutines go on after its Wait returned, and the manager may start
\* the next. Here another scheduler than this session's selects a piece.
Elsewhere ==
  /\ cursor < NPiece
  /\ cursor' = cursor + 1
  /\ elsewhere' = elsewhere \cup {cursor}
  /\ UNCHANGED <<cancelled, workers, held, jobs, wg, scheduler, shuttingDown,
                 shutdownVars, serviceVars, panicked>>

-----------------------------------------------------------------------------
(* Workers.                                                                 *)

Goto(w, station) == workers' = [workers EXCEPT ![w] = station]

\* The goroutine gets to run: workerWaitGroup.Add(1) is its first statement, so
\* nothing makes it run before Wait.
WorkerStart(w) ==
  /\ workers[w] = "spawned"
  /\ wg' = wg + 1
  /\ Goto(w, "signal")
  /\ UNCHANGED <<cancelled, cursor, elsewhere, held, jobs, scheduler, shuttingDown,
                 shutdownVars, serviceVars, panicked>>

\* (Mutant: return without Done.)
ExitUncounted(w) == Goto(w, "exited") /\ UNCHANGED <<wg, waiter>>

\* workerWaitGroup.Done() and return; the last Done wakes a sleeping Wait.
Exit(w) ==
  /\ wg' = wg - 1
  /\ waiter' = IF wg = 1 /\ waiter = "asleep" THEN "woken" ELSE waiter
  /\ Goto(w, "exited")

\* The select takes `case <-ctx2.Done()'.
WorkerQuit(w) ==
  /\ workers[w] = "select"
  /\ cancelled
  /\ Exit(w)
  /\ UNCHANGED <<cancelled, cursor, elsewhere, held, jobs, scheduler, shuttingDown,
                 completed, serviceVars, panicked>>

\* The select takes `case piece := <-downloadJobChan', perhaps although the
\* context is done too: a nil ends the worker,
WorkerTakeNil(w) ==
  /\ workers[w] = "select"
  /\ jobs # <<>>
  /\ Head(jobs) = Nil
  /\ jobs' = Tail(jobs)
  /\ Exit(w)
  /\ UNCHANGED <<cancelled, cursor, elsewhere, held, scheduler, shuttingDown, completed,
                 serviceVars, panicked>>

\* and a piece sends it to the dispatcher.
WorkerTake(w) ==
  /\ workers[w] = "select"
  /\ jobs # <<>>
  /\ Head(jobs) # Nil
  /\ jobs' = Tail(jobs)
  /\ held' = [held EXCEPT ![w] = Head(jobs)]
  /\ Goto(w, "request")
  /\ UNCHANGED <<cancelled, cursor, elsewhere, wg, scheduler, shuttingDown, shutdownVars,
                 serviceVars, panicked>>

\* piece.download returns nil: the piece is complete in memory.
WorkerDownload(w) ==
  /\ workers[w] = "download"
  /\ Goto(w, "write")
  /\ UNCHANGED <<cancelled, cursor, elsewhere, held, jobs, wg, scheduler, shuttingDown,
                 shutdownVars, serviceVars, panicked>>

\* piece.download returns the error of a Write: log.Panicf ends the process, the
\* Push that would give the piece back is never reached.
WorkerFail(w) ==
  /\ workers[w] = "download"
  /\ panicked' = TRUE
  /\ UNCHANGED <<cancelled, cursor, elsewhere, workers, held, jobs, wg, scheduler,
                 shuttingDown, shutdownVars, serviceVars>>

\* IsFree is decremented, the dispatcher is signalled, and the worker is back at
\* `signalChan <- i'.
WorkerRelease(w) ==
  /\ workers[w] = "release"
  /\ Goto(w, "signal")
  /\ UNCHANGED <<cancelled, cursor, elsewhere, held, jobs, wg, scheduler, shuttingDown,
                 shutdownVars, serviceVars, panicked>>

-----------------------------------------------------------------------------
(* The scheduler `download'.                                                *)

\* signalChan is unbuffered: sender and receiver move together.
SchedulerReceive(w) ==
  /\ scheduler = "select"
  /\ workers[w] = "signal"
  /\ scheduler' = "picking"
  /\ Goto(w, "select")
  /\ UNCHANGED <<cancelled, cursor, elsewhere, held, jobs, wg, shuttingDown, shutdownVars,
                 serviceVars, panicked>>

\* (Mutants: no test of totalSelectedPiece; the index is not advanced; a channel
\* one place too small.)
NextPieceUnchecked == cursor
NextCursorStuck    == cursor
CapacityShort      == Cardinality(Worker) - 1

\* selectPiece in the mode every downloader has, sequential.
NextPiece  == IF cursor >= NPiece THEN Nil ELSE cursor
NextCursor == IF cursor >= NPiece THEN cursor ELSE cursor + 1

\* make(chan *Piece, downloader.nWorker).
Capacity == Cardinality(Worker)

\* The first signal after the last piece, or after the scheduler saw the
\* cancellation, starts the goroutine that waits for the workers.
LaunchWaiter ==
  IF waiter = "unborn" /\ (cursor >= NPiece \/ shuttingDown)
  THEN waiter' = "wait" /\ completed' = (cursor >= NPiece)
  ELSE UNCHANGED shutdownVars

\* The rest of `case i := <-signalChan': select a piece and push it.
SchedulerPick ==
  /\ scheduler = "picking"
  /\ Len(jobs) < Capacity
  /\ cursor' = NextCursor
  /\ LaunchWaiter
  /\ jobs' = Append(jobs, NextPiece)
  /\ scheduler' = "select"
  /\ UNCHANGED <<cancelled, elsewhere, workers, held, wg, shuttingDown,
                 serviceVars, panicked>>

\* `case <-ctx.Done()'; once taken, taking it again changes nothing.
SchedulerSeesCancel ==
  /\ scheduler = "select"
  /\ cancelled
  /\ ~shuttingDown
  /\ shuttingDown' = TRUE
  /\ UNCHANGED <<cancelled, cursor, elsewhere, workers, held, jobs, wg, scheduler,
                 shutdownVars, serviceVars, panicked>>

\* `case <-localCtx.Done()'.
SchedulerReturn ==
  /\ scheduler = "select"
  /\ LocalCancelled
  /\ scheduler' = "returned"
  /\ UNCHANGED <<cancelled, cursor, elsewhere, workers, held, jobs, wg, shuttingDown,
                 shutdownVars, serviceVars, panicked>>

-----------------------------------------------------------------------------
(* The shut-down goroutine.                                                 *)

\* (Mutant: nothing waits for the workers.)
WaiterGoesOn == "cancelChildren"

\* The call of workerWaitGroup.Wait() returns at once or sleeps.
AfterWaitCall == IF wg = 0 THEN "cancelChildren" ELSE "asleep"

WaiterWait ==
  /\ waiter = "wait"
  /\ waiter' = AfterWaitCall
  /\ UNCHANGED <<cancelled, cursor, elsewhere, workers, held, jobs, wg, scheduler,
                 shuttingDown, completed, serviceVars, panicked>>

\* Wait runs again after the last Done. It panics ("WaitGroup is reused before
\* previous Wait has returned") if a late worker called Add(1) in between.
WaiterWake ==
  /\ waiter = "woken"
  /\ IF wg = 0 THEN waiter' = "cancelChildren" /\ UNCHANGED panicked
               ELSE panicked' = TRUE /\ UNCHANGED waiter
  /\ UNCHANGED <<cancelled, cursor, elsewhere, workers, held, jobs, wg, scheduler,
                 shuttingDown, completed, serviceVars>>

\* The statements after Wait, one step each: cancelChildRoutines(),
\* mainRoutinesWg.Done(), cancelFunc(), and the send on stateChan if completed.
WaiterStep ==
  /\ \/ waiter = "cancelChildren" /\ waiter' = "mainDone"
     \/ waiter = "mainDone"       /\ waiter' = "cancelLocal"
     \/ waiter = "cancelLocal"    /\ waiter' = "announce"
     \/ waiter = "announce"       /\ waiter' = "returned"
  /\ UNCHANGED <<cancelled, cursor, elsewhere, workers, held, jobs, wg, scheduler,
                 shuttingDown, completed, serviceVars, panicked>>

-----------------------------------------------------------------------------
(* The dispatcher and the writer.                                           *)

\* `request := <-manager.peerChan', unbuffered.
DispatcherReceive(w) ==
  /\ dispatcher = Nil /\ "dispatcher" \notin stopped
  /\ workers[w] = "request"
  /\ dispatcher' = w
  /\ Goto(w, "await")
  /\ UNCHANGED <<cancelled, cursor, elsewhere, held, jobs, wg, scheduler, shuttingDown,
                 shutdownVars, writer, stopped, received, written, panicked>>

\* `request.response <- selectedPeer'.
DispatcherRespond(w) ==
  /\ dispatcher = w
  /\ dispatcher' = Nil
  /\ Goto(w, "download")
  /\ UNCHANGED <<cancelled, cursor, elsewhere, held, jobs, wg, scheduler, shuttingDown,
                 shutdownVars, writer, stopped, received, written, panicked>>

DispatcherReturn ==
  /\ dispatcher = Nil /\ "dispatcher" \notin stopped
  /\ ChildrenCancelled
  /\ stopped' = stopped \cup {"dispatcher"}
  /\ UNCHANGED <<cancelled, cursor, elsewhere, workers, held, jobs, wg, scheduler,
                 shuttingDown, shutdownVars, dispatcher, writer, received,
                 written, panicked>>

\* (Mutant: the loop of `write' does not wait for writePiece.)
WriterIdleTooSoon == "writer" \notin stopped

\* `write' is at its select.
WriterIdle == writer = Nil /\ "writer" \notin stopped

\* `piece := <-downloader.writerChan', unbuffered.
WriterReceive(w) ==
  /\ WriterIdle
  /\ workers[w] = "write"
  /\ writer' = held[w]
  /\ received' = received \cup {held[w]}
  /\ held' = [held EXCEPT ![w] = Nil]
  /\ Goto(w, "release")
  /\ UNCHANGED <<cancelled, cursor, elsewhere, jobs, wg, scheduler, shuttingDown,
                 shutdownVars, dispatcher, stopped, written, panicked>>

\* writePiece.
WriterWrite ==
  /\ writer # Nil
  /\ written' = written \cup {writer}
  /\ writer' = Nil
  /\ UNCHANGED <<cancelled, cursor, elsewhere, workers, held, jobs, wg, scheduler,
                 shuttingDown, shutdownVars, dispatcher, stopped, received,
                 panicked>>

\* writePiece fails: log.Panicf where the file cannot be opened, log.Fatal here.
WriterFail ==
  /\ writer # Nil
  /\ panicked' = TRUE
  /\ UNCHANGED <<cancelled, cursor, elsewhere, workers, held, jobs, wg, scheduler,
                 shuttingDown, shutdownVars, serviceVars>>

WriterReturn ==
  /\ WriterIdle
  /\ ChildrenCancelled
  /\ stopped' = stopped \cup {"writer"}
  /\ UNCHANGED <<cancelled, cursor, elsewhere, workers, held, jobs, wg, scheduler,
                 shuttingDown, shutdownVars, dispatcher, writer, received,
                 written, panicked>>

-----------------------------------------------------------------------------
WorkerStep(w) ==
  \/ WorkerStart(w)   \/ WorkerQuit(w)    \/ WorkerTakeNil(w)
  \/ WorkerTake(w)    \/ WorkerDownload(w) \/ WorkerRelease(w)

Rendezvous(w) ==
  \/ SchedulerReceive(w)  \/ DispatcherReceive(w)
  \/ DispatcherRespond(w) \/ WriterReceive(w)

ServiceStep ==
  \/ SchedulerPick    \/ SchedulerSeesCancel \/ SchedulerReturn
  \/ WaiterWait       \/ WaiterWake          \/ WaiterStep
  \/ DispatcherReturn \/ WriterWrite         \/ WriterReturn

\* What the goroutines do when nothing fails.
Progress ==
  /\ ~panicked
  /\ ServiceStep \/ \E w \in Worker : WorkerStep(w) \/ Rendezvous(w)

\* What nothing in the session brings about.
Outside == Cancel \/ Elsewhere \/ WriterFail \/ \E w \in Worker : WorkerFail(w)

Next == Progress \/ (~panicked /\ Outside)

Spec == Init /\ [][Next]_vars

\* The steps that need a remote peer: the dispatcher finds one that has the piece
\* and room for it, and that peer sends every block.
PeerStep == \E w \in Worker : DispatcherRespond(w) \/ WorkerDownload(w)

\* A session takes finitely many steps, so it is enough that some goroutine runs
\* while one can without a peer: the Go runtime sees to that. No cancellation and
\* no failure has to happen, and no peer has to be found or to answer; where
\* that is needed, PeersServe is the premise.
FairSpec == Spec /\ WF_vars(Progress /\ ~PeerStep)

-----------------------------------------------------------------------------
(* Properties.                                                              *)

TypeOK ==
  /\ cancelled \in BOOLEAN
  /\ cursor \in FirstPiece..NPiece
  /\ elsewhere \subseteq FirstPiece..(cursor - 1)
  /\ workers \in [Worker -> WorkerState]
  /\ held \in [Worker -> Piece \cup {Nil}]
  /\ jobs \in Seq(Piece \cup {Nil})
  /\ wg \in Int
  /\ scheduler \in {"select", "picking", "returned"}
  /\ shuttingDown \in BOOLEAN
  /\ waiter \in WaiterState
  /\ completed \in BOOLEAN
  /\ dispatcher \in Worker \cup {Nil}
  /\ writer \in Piece \cup {Nil}
  /\ stopped \subseteq {"dispatcher", "writer"}
  /\ received \subseteq Piece
  /\ written \subseteq Piece
  /\ panicked \in BOOLEAN

\* What this session chose, and what it has chosen when the last piece is.
Chosen == (FirstPiece..(cursor - 1)) \ elsewhere
Share  == (FirstPiece..(NPiece - 1)) \ elsewhere
Queued == {jobs[k] : k \in DOMAIN jobs} \ {Nil}
InHand == {held[w] : w \in Worker} \ {Nil}

\* No piece is lost between the channels and none is given out twice, whatever
\* the select statements choose and whenever the session is cancelled: every
\* piece selectPiece returned to this session's scheduler is in exactly one of
\* downloadJobChan, one worker's hands and the writer.
EveryPieceAccounted ==
  /\ Chosen = Queued \cup InHand \cup received
  /\ Queued \cap InHand = {} /\ Queued \cap received = {} /\ InHand \cap received = {}
  /\ \A j, k \in DOMAIN jobs : jobs[j] = jobs[k] /\ jobs[j] # Nil => j = k
  /\ \A v, w \in Worker : held[v] = held[w] /\ held[v] # Nil => v = w

\* The send `downloadJobChan <- piece' never blocks the scheduler, which is the
\* only goroutine that can receive the signals the workers wait to send: its
\* capacity nWorker covers the pieces and nils of every worker.
JobsNeverBlock == scheduler = "picking" => Len(jobs) < Capacity

\* When Wait has returned in a session nobody cancelled, every piece from
\* FirstPiece on that no other scheduler took has reached the writer:
\* CompleteTorrent is not announced before this session's share is delivered,
\* also when a worker starts only after the others have finished.
CompletionSound ==
  Waited /\ ~cancelled => completed /\ received = Share

\* The writer and the dispatcher outlive the workers they serve: once they are
\* told to stop in a session nobody cancelled, no worker waits for them.
DependentsNotNeeded ==
  ChildrenCancelled /\ ~cancelled =>
    /\ \A w \in Worker : workers[w] \notin Busy
    /\ dispatcher = Nil

\* Every worker that waits for a peer or for its blocks gets them in the end: a
\* matter of the remote peers, and of the dispatcher's wake-up (PeerDispatch).
PeersServe == \A w \in Worker : []<>(workers[w] \notin {"await", "download"})

\* As long as the peers serve, a session that nobody cancels and in which no
\* Write and no writePiece fails comes to its end and announces it: no goroutine
\* waits for another one that waits.
Finishes == PeersServe => <>(cancelled \/ panicked \/ Announced)

\* The announcement may come while writePiece still runs, but `write' does not
\* leave with a piece it has received: the last pieces reach the disk too, unless
\* the write of one of them fails, which ends the process after the torrent was
\* announced complete.
CompletedReachesDisk ==
  (Announced /\ ~cancelled) ~> ((panicked /\ writer # Nil) \/ Share \subseteq written)

\* As long as the peers serve, a session that is cancelled winds down, so that the
\* manager's Wait on mainRoutinesWg returns and the torrent can be started again.
CancelDrains == PeersServe => (cancelled ~> (panicked \/ Drained))

-----------------------------------------------------------------------------
(* The session implements its contract.                                     *)

Phase == IF Announced THEN "announced" ELSE IF Drained THEN "over" ELSE "running"

Contract == INSTANCE SessionContract WITH
  next <- cursor, inHand <- Queued \cup InHand, delivered <- received,
  phase <- Phase, dead <- panicked

\* Every step of the goroutines is a step of the contract or changes nothing the
\* manager can tell: in-order hand out, single delivery, no early end, no early
\* announcement.
KeepsContract == Contract!Spec

-----------------------------------------------------------------------------
(* Standstill: the guards of Progress, and how far a session is from its    *)
(* last step.                                                               *)

\* Worker w can go on, by itself or because the other side of its channel is there.
WorkerCanRun(w) ==
  \/ workers[w] \in {"spawned", "download", "release"}
  \/ workers[w] = "signal"  /\ scheduler = "select"
  \/ workers[w] = "select"  /\ (cancelled \/ jobs # <<>>)
  \/ workers[w] = "request" /\ dispatcher = Nil /\ "dispatcher" \notin stopped
  \/ workers[w] = "write"   /\ WriterIdle
  \/ dispatcher = w

\* One of the scheduler, the waiter, the writer and the dispatcher can.
ServiceCanRun ==
  \/ scheduler = "picking" /\ Len(jobs) < Capacity
  \/ scheduler = "select"  /\ (LocalCancelled \/ (cancelled /\ ~shuttingDown))
  \/ waiter \notin {"unborn", "asleep", "returned"}
  \/ writer # Nil
  \/ ChildrenCancelled /\ (WriterIdle \/ (dispatcher = Nil /\ "dispatcher" \notin stopped))

CanRun == ServiceCanRun \/ \E w \in Worker : WorkerCanRun(w)

\* Every worker took `case <-ctx2.Done()' before any of them signalled again:
\* nothing makes the scheduler start the goroutine that waits for them.
Abandoned ==
  cancelled /\ waiter = "unborn" /\ \A w \in Worker : workers[w] = "exited"

\* The goroutines never all wait for one another, on a channel or in Wait, before
\* the session is announced or, if it was cancelled, over. The one exception is
\* Abandoned, a standstill that only a cancellation brings about. A dispatcher
\* that looks for a peer and a worker in piece.download count as able to run:
\* what they wait for is not another goroutine of the session.
NeverStuck ==
  ~panicked /\ ~CanRun => Announced \/ (cancelled /\ (Drained \/ Abandoned))

\* How many steps a worker can take from its station without a new piece; the
\* steps of the others that it makes possible are counted with it.
WorkerRank == [exited   |-> 0, select |-> 1, signal |-> 3, release |-> 4, spawned |-> 4,
               write    |-> 6, download |-> 7, await |-> 8, request |-> 9]
WaiterRank == [returned |-> 0, announce |-> 1, cancelLocal |-> 2, mainDone |-> 3,
               cancelChildren |-> 4, woken |-> 5, asleep |-> 6, wait |-> 7, unborn |-> 8]
SchedulerRank == [returned |-> 0, select |-> 1, picking |-> 2]
Ranks   == [w \in Worker |-> WorkerRank[workers[w]]]
Flag(b) == IF b THEN 1 ELSE 0

\* The pieces no worker has taken from downloadJobChan yet.
Untaken == Share \ (InHand \cup received)

WorkersLeft  == FoldSet(LAMBDA w, n : n + Ranks[w], 0, Worker)
ServicesLeft ==
  SchedulerRank[scheduler] + WaiterRank[waiter] + Flag(writer # Nil)
  + Flag("dispatcher" \notin stopped) + Flag("writer" \notin stopped)
  + Flag(~shuttingDown) + Flag(~cancelled) + Flag(~panicked)

StepsLeft == 9 * Cardinality(Untaken) + WorkersLeft + ServicesLeft

\* No goroutine goes round in circles: every step of the session, whoever takes
\* it, brings it closer to its last one. With NeverStuck: a session that goes on
\* whenever it can ends, and ends as NeverStuck says.
RunsOut == [](StepsLeft \in Nat) /\ [][StepsLeft' < StepsLeft]_vars

-----------------------------------------------------------------------------
(* The inductive invariant behind the safety properties.                    *)

Picking == IF scheduler = "picking" THEN 1 ELSE 0

\* The WaitGroup counts exactly the workers between Add and Done.
WaitGroupExact == wg = Cardinality(Counted)

HandsExact == \A w \in Worker : held[w] # Nil <=> workers[w] \in Busy

ServingExact ==
  \A w \in Worker : workers[w] = "await" <=> dispatcher = w

\* Every signal put a worker into its select and one entry into downloadJobChan;
\* a worker that quits because of the context leaves its entry behind.
Exited == {w \in Worker : workers[w] = "exited"}
JobsBound   == Len(jobs) + Picking <= Cardinality(Selecting \cup Exited)
JobsMatched == ~cancelled => Len(jobs) + Picking = Cardinality(Selecting)

\* Nothing but a cancellation makes the session wind down before the last piece
\* is chosen.
EarlyEnd ==
  /\ shuttingDown => cancelled
  /\ waiter # "unborn" => completed \/ cancelled
  /\ completed => cursor = NPiece /\ waiter # "unborn"

\* Who can have gone, and who can sleep, follows the station of the waiter.
WindingDown ==
  /\ scheduler = "returned" => LocalCancelled
  /\ stopped # {} => ChildrenCancelled
  /\ waiter = "asleep" => wg > 0
  /\ waiter = "unborn" /\ ~cancelled => Exited = {} /\ \A k \in DOMAIN jobs : jobs[k] # Nil

IInv ==
  /\ TypeOK
  /\ WaitGroupExact
  /\ HandsExact
  /\ ServingExact
  /\ JobsBound
  /\ JobsMatched
  /\ EarlyEnd
  /\ WindingDown
  /\ EveryPieceAccounted
  /\ CompletionSound
=============================================================================
