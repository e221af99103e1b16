--------------------------- MODULE TorrentManager ---------------------------
(***************************************************************************)
(* The life cycle of a torrent (core/torrent_manager.go): the event loop   *)
(* Init reads commands from stateChan and calls start, pause or stop of    *)
(* the current state; start launches a download session, pause and stop    *)
(* cancel it and wait for it; a session that has everything sends          *)
(* CompleteTorrent to stateChan itself.                                    *)
(*                                                                         *)
(* A session does what SessionContract allows, which DownloadSession       *)
(* implements. Sessions follow each other on the same Downloader: they     *)
(* share its Pieces and the fields of selectPiece, whose ++ are a load and *)
(* a store each. The scheduler and the workers of a cancelled session may  *)
(* go on when it is over, next to those of the next one.                   *)
(***************************************************************************)
EXTENDS Integers, Sequences

CONSTANTS
  NPiece,      \* len(downloader.Pieces)
  MaxSession,  \* bound on the number of sessions
  Nil

ASSUME BoundAssumption == NPiece \in Nat /\ MaxSession \in Nat
ASSUME NilAssumption   == Nil \notin Nat

VARIABLES
  myState,    \* the type of manager.myState
  services,   \* are its scrapperCancelFunc and msgRouterCancelFunc not nil?
  stateChan,  \* contents of stateChan
  loop,       \* where Init is
  handling,   \* manager.state: the command it read last
  sessions,   \* the sessions in the order of their start
  index,      \* lastSelectedPieceIndex
  total,      \* totalSelectedPiece
  selected,   \* selectedPiece
  handed,     \* history: how often each piece was handed to a worker
  raced,      \* history: have two schedulers been in selectPiece at a time?
  routers     \* msgRouter goroutines that run

managerVars  == <<myState, services, loop, handling, routers>>
selectVars   == <<index, total, selected, handed, raced>>
downloadVars == <<sessions, selectVars>>
vars == <<managerVars, stateChan, downloadVars>>

Piece   == 0..(NPiece - 1)
State   == {"Stopped", "InProgress", "Paused"}
UserCommand == {"start", "pause", "stop"}
Command == UserCommand \cup {"complete"}

\* Init reads stateChan; waits in downloadRoutineWait.Wait() of pause or of stop;
\* the process has panicked.
LoopState == {"select", "pausing", "stopping", "panicked"}

\* selectPiece is not running; has found that pieces are left; has taken one; has read
\* the index to advance it; has advanced it and read the total to advance that.
SelectState == {"idle", "take", "load", "count", "return"}

\* A session: was its context cancelled; "running" until its scheduler starts the
\* shut-down goroutine, "winding" until mainRoutinesWg.Done(), then "over" and, if
\* isCompleted, "announced"; the isCompleted that goroutine captured; where its
\* selectPiece is, and the number it has read; the pieces in downloadJobChan and in the
\* hands of workers; the pieces its workers gave to the writer.
Session ==
  [cancelled : BOOLEAN, phase : {"running", "winding", "over", "announced"},
   completed : BOOLEAN, at : SelectState, saw : Nat,
   hand : SUBSET Piece, delivered : SUBSET Piece]

NewSession ==
  [cancelled |-> FALSE, phase |-> "running", completed |-> FALSE, at |-> "idle",
   saw |-> 0, hand |-> {}, delivered |-> {}]

Current    == Len(sessions)
Running(i) == i \in DOMAIN sessions /\ sessions[i].phase \in {"running", "winding"}

Init ==
  /\ myState = "Stopped"
  /\ services = FALSE
  /\ stateChan = <<>>
  /\ loop = "select"
  /\ handling = Nil
  /\ sessions = <<>>
  /\ index = 0
  /\ total = 0
  /\ selected = Nil
  /\ handed = [p \in Piece |-> 0]
  /\ raced = FALSE
  /\ routers = 0

-----------------------------------------------------------------------------
(* Commands.                                                                *)

\* `manager.stateChan <- state' in SetState: it blocks while stateChan, which has
\* capacity 1, is full.
SetState(c) ==
  /\ stateChan = <<>>
  /\ c = "start" => Len(sessions) < MaxSession
  /\ stateChan' = <<c>>
  /\ UNCHANGED <<managerVars, downloadVars>>

\* Init reads a command.
Read(c) ==
  /\ loop = "select"
  /\ stateChan = <<c>>
  /\ stateChan' = <<>>
  /\ handling' = c

\* (Mutant: a new session starts with the first piece.)
IndexReset == 0

\* lastSelectedPieceIndex after Downloader.Start: only the channels are reset.
IndexAtStart == index

Launch ==
  /\ sessions' = Append(sessions, NewSession)
  /\ index' = IndexAtStart
  /\ myState' = "InProgress"
  /\ UNCHANGED <<loop, total, selected, handed, raced>>

\* Stopped.start: the router, the announcer and the session.
StoppedStart ==
  /\ myState = "Stopped"
  /\ Read("start")
  /\ Launch
  /\ services' = TRUE
  /\ routers' = routers + 1

\* Paused.start: only the session; the new InProgress has no functions to cancel
\* the router and the announcer.
PausedStart ==
  /\ myState = "Paused"
  /\ Read("start")
  /\ Launch
  /\ services' = FALSE
  /\ UNCHANGED routers

\* The methods that only log: start in progress, pause and stop when stopped, pause
\* when paused.
Ignore ==
  /\ \/ myState = "InProgress" /\ Read("start")
     \/ myState = "Paused" /\ Read("pause")
     \/ myState = "Stopped" /\ \E c \in Command \ {"start"} : Read(c)
  /\ UNCHANGED <<myState, services, loop, routers, downloadVars>>

\* InProgress.pause and InProgress.stop (CompleteTorrent stops too) up to
\* downloadRoutineWait.Wait().
CancelDownload ==
  /\ myState = "InProgress"
  /\ \/ Read("pause") /\ loop' = "pausing"
     \/ \E c \in {"stop", "complete"} : Read(c) /\ loop' = "stopping"
  /\ sessions' = [sessions EXCEPT ![Current].cancelled = TRUE]
  /\ UNCHANGED <<myState, services, routers, selectVars>>

\* (Mutants: nobody waits; the session calls Done only after the announcement.)
WaitNot(i)       == TRUE
WaitAnnounced(i) ==
  ~Running(i) /\ (sessions[i].completed => sessions[i].phase = "announced")

\* downloadRoutineWait.Wait() returns after mainRoutinesWg.Done().
WaitReturns(i) == ~Running(i)

\* The rest of InProgress.pause.
PauseDone ==
  /\ loop = "pausing"
  /\ WaitReturns(Current)
  /\ loop' = "select"
  /\ myState' = "Paused"
  /\ UNCHANGED <<services, handling, routers, stateChan, downloadVars>>

\* The rest of InProgress.stop. The contexts of the announcer and of the router are
\* cancelled, which neither looks at.
StopDone ==
  /\ loop = "stopping"
  /\ WaitReturns(Current)
  /\ services
  /\ loop' = "select"
  /\ myState' = "Stopped"
  /\ services' = FALSE
  /\ UNCHANGED <<handling, routers, stateChan, downloadVars>>

\* The rest of InProgress.stop after a Paused.start: scrapperCancelFunc is nil.
StopPanics ==
  /\ loop = "stopping"
  /\ WaitReturns(Current)
  /\ ~services
  /\ loop' = "panicked"
  /\ UNCHANGED <<myState, services, handling, routers, stateChan, downloadVars>>

\* Paused.stop: log.Panicf("cannot stop").
PausedStop ==
  /\ myState = "Paused"
  /\ \E c \in {"stop", "complete"} : Read(c)
  /\ loop' = "panicked"
  /\ UNCHANGED <<myState, services, routers, downloadVars>>

-----------------------------------------------------------------------------
(* Sessions.                                                                *)

\* Goroutines of session i may run: until it is over, and if it was cancelled, after it.
Works(i) == Running(i) \/ sessions[i].cancelled

\* Session i goes to the next statement of selectPiece, with the number it has read.
Goto(i, station, number) ==
  sessions' = [sessions EXCEPT ![i].at = station, ![i].saw = number]

\* A worker has signalled: selectPiece finds that pieces are left,
SelectTest(i) ==
  /\ Works(i)
  /\ sessions[i].at = "idle"
  /\ total < NPiece
  /\ Goto(i, "take", 0)
  /\ raced' = (raced \/ \E j \in DOMAIN sessions : sessions[j].at # "idle")
  /\ UNCHANGED <<managerVars, stateChan, index, total, selected, handed>>

\* or none: the first time the scheduler starts the goroutine that ends the session.
SelectNone(i) ==
  /\ sessions[i].phase = "running"
  /\ sessions[i].at = "idle"
  /\ total >= NPiece
  /\ sessions' = [sessions EXCEPT ![i].phase = "winding", ![i].completed = TRUE]
  /\ UNCHANGED <<managerVars, stateChan, selectVars>>

\* selectedPiece = Pieces[lastSelectedPieceIndex],
SelectTake(i) ==
  /\ sessions[i].at = "take"
  /\ index < NPiece
  /\ selected' = index
  /\ Goto(i, "load", 0)
  /\ UNCHANGED <<managerVars, stateChan, index, total, handed, raced>>

\* or the index is out of range.
SelectPanics(i) ==
  /\ sessions[i].at = "take"
  /\ index >= NPiece
  /\ loop' = "panicked"
  /\ UNCHANGED <<myState, services, handling, routers, stateChan, downloadVars>>

\* lastSelectedPieceIndex++ reads it again.
SelectLoad(i) ==
  /\ sessions[i].at = "load"
  /\ Goto(i, "count", index)
  /\ UNCHANGED <<managerVars, stateChan, selectVars>>

\* It is stored, totalSelectedPiece++ begins.
SelectCount(i) ==
  /\ sessions[i].at = "count"
  /\ index' = sessions[i].saw + 1
  /\ Goto(i, "return", total)
  /\ UNCHANGED <<managerVars, stateChan, total, selected, handed, raced>>

\* That is stored too, and the piece goes to the workers. A scheduler that has seen the
\* cancellation starts the goroutine that ends the session.
SelectReturn(i) ==
  /\ sessions[i].at = "return"
  /\ total' = sessions[i].saw + 1
  /\ handed' = [handed EXCEPT ![selected] = @ + 1]
  /\ \E phase \in {sessions[i].phase, "winding"} :
       /\ phase # sessions[i].phase => sessions[i].cancelled /\ sessions[i].phase = "running"
       /\ sessions' = [sessions EXCEPT ![i].at = "idle", ![i].saw = 0, ![i].phase = phase,
                                       ![i].hand = @ \cup {selected}]
  /\ UNCHANGED <<managerVars, stateChan, index, selected, raced>>

\* A worker hands a piece to a writer.
Deliver(i, p) ==
  /\ Works(i)
  /\ p \in sessions[i].hand
  /\ sessions' = [sessions EXCEPT ![i].hand = @ \ {p}, ![i].delivered = @ \cup {p}]
  /\ UNCHANGED <<managerVars, stateChan, selectVars>>

\* (Mutant: the shut-down goroutine does not wait for the workers.)
FinishEarly(i) ==
  /\ sessions[i].phase = "winding"
  /\ sessions' = [sessions EXCEPT ![i].phase = "over"]
  /\ UNCHANGED <<managerVars, stateChan, selectVars>>

\* workerWaitGroup.Wait() has returned: mainRoutinesWg.Done(). What is left in hand lies
\* in a downloadJobChan that no later session reads, or is with a late worker.
Finish(i) ==
  /\ sessions[i].phase = "winding"
  /\ sessions[i].cancelled \/ sessions[i].hand = {}
  /\ sessions' = [sessions EXCEPT ![i].phase = "over"]
  /\ UNCHANGED <<managerVars, stateChan, selectVars>>

\* (Mutants: stateChan has room for it; a send that does not block.)
AnnounceCrowds(i) ==
  /\ sessions[i].phase = "over"
  /\ sessions[i].completed
  /\ stateChan' = Append(stateChan, "complete")
  /\ sessions' = [sessions EXCEPT ![i].phase = "announced"]
  /\ UNCHANGED <<managerVars, selectVars>>

AnnounceDropped(i) ==
  /\ sessions[i].phase = "over"
  /\ sessions[i].completed
  /\ stateChan' = IF stateChan = <<>> THEN <<"complete">> ELSE stateChan
  /\ sessions' = [sessions EXCEPT ![i].phase = "announced"]
  /\ UNCHANGED <<managerVars, selectVars>>

\* `downloader.stateChan <- interfaces.CompleteTorrent', if isCompleted.
Announce(i) ==
  /\ sessions[i].phase = "over"
  /\ sessions[i].completed
  /\ stateChan = <<>>
  /\ stateChan' = <<"complete">>
  /\ sessions' = [sessions EXCEPT ![i].phase = "announced"]
  /\ UNCHANGED <<managerVars, selectVars>>

-----------------------------------------------------------------------------
LoopStep ==
  \/ StoppedStart \/ PausedStart \/ Ignore     \/ CancelDownload
  \/ PauseDone    \/ StopDone    \/ StopPanics \/ PausedStop

SessionStep(i) ==
  \/ SelectTest(i) \/ SelectNone(i)  \/ SelectTake(i) \/ SelectPanics(i)
  \/ SelectLoad(i) \/ SelectCount(i) \/ SelectReturn(i)
  \/ \E p \in Piece : Deliver(i, p)
  \/ Finish(i) \/ Announce(i)

Next ==
  /\ loop # "panicked"
  /\ \/ \E c \in UserCommand : SetState(c)
     \/ LoopStep
     \/ \E i \in DOMAIN sessions : SessionStep(i)

Spec == Init /\ [][Next]_vars

\* The event loop runs when it can. Commands and sessions owe nothing here.
FairSpec == Spec /\ WF_vars(loop # "panicked" /\ LoopStep)

-----------------------------------------------------------------------------
(* Properties.                                                              *)

\* The types; a scheduler that has taken a piece has one; and what the state of the
\* manager says of its session: only a torrent in progress waits for a session, and
\* only after it cancelled it.
TypeOK ==
  /\ myState \in State
  /\ services \in BOOLEAN
  /\ stateChan \in {<<>>} \cup {<<c>> : c \in Command}
  /\ loop \in LoopState
  /\ handling \in Command \cup {Nil}
  /\ sessions \in Seq(Session)
  /\ index \in Nat
  /\ total \in Nat
  /\ selected \in Piece \cup {Nil}
  /\ handed \in [Piece -> Nat]
  /\ raced \in BOOLEAN
  /\ routers \in Nat
  /\ \A i \in DOMAIN sessions :
       sessions[i].at \in {"load", "count", "return"} => selected \in Piece
  /\ myState = "InProgress" => sessions # <<>>
  /\ loop \in {"pausing", "stopping"} => myState = "InProgress" /\ sessions[Current].cancelled

\* Sessions share the pieces, writerChan and peerChan: no session starts before
\* mainRoutinesWg.Done() of the one before, whatever commands come in which order.
OneSession == \A i, j \in DOMAIN sessions : Running(i) /\ Running(j) => i = j

\* No piece is handed to a worker twice, in one session or in two, although the late
\* scheduler of a cancelled session may still select, unless it was once in selectPiece
\* together with the scheduler of another session: only this interleaving can break it,
\* and nothing in the code prevents it.
HandedOnce == raced \/ \A p \in Piece : handed[p] <= 1

\* A torrent is never left InProgress with nothing going on: its session runs or
\* its completion is on its way to the event loop.
InProgressIsAlive ==
  myState = "InProgress" /\ loop = "select" =>
    \/ Running(Current)
    \/ sessions[Current].phase = "over" /\ sessions[Current].completed
    \/ stateChan = <<"complete">>

\* Every command is read, if only sessions that are cancelled wind down: the
\* announcement of a session never blocks the loop that waits for the session.
CommandsServed ==
  (\A i \in 1..MaxSession : (Running(i) /\ sessions[i].cancelled) ~> ~Running(i))
    => (stateChan # <<>> ~> (stateChan = <<>> \/ loop = "panicked"))

\* A session that is not cancelled sends CompleteTorrent when every piece has reached
\* the writer. (Not so in a session that follows another one: the pieces that a pause
\* or stop left in downloadJobChan are never downloaded.)
CompleteMeansDelivered ==
  \A i \in DOMAIN sessions :
    sessions[i].phase = "announced" /\ ~sessions[i].cancelled
      => UNION {sessions[j].delivered : j \in DOMAIN sessions} = Piece


-----------------------------------------------------------------------------
(* The sessions keep SessionContract.                                       *)

\* What the contract calls running is all that comes before mainRoutinesWg.Done().
PhaseOf(i) == IF Running(i) THEN "running" ELSE sessions[i].phase

Contract(i) == INSTANCE SessionContract WITH
  FirstPiece <- 0, cancelled <- sessions[i].cancelled, next <- total,
  inHand <- sessions[i].hand, delivered <- sessions[i].delivered,
  phase <- PhaseOf(i), dead <- loop = "panicked"

\* Whatever the manager and the other sessions do, each session of the torrent, the last
\* one and those before it, whose late workers and schedulers go on, takes a step of the
\* contract; a new one starts as the contract does, at the piece where the others are.
\* So it is as long as no two schedulers have met in selectPiece.
SessionsKeepContract ==
  [][~raced' =>
       /\ \A i \in DOMAIN sessions : [Contract(i)!Next]_(Contract(i)!vars)
       /\ \A i \in DOMAIN sessions' \ DOMAIN sessions :
            /\ sessions'[i].hand = {} /\ sessions'[i].delivered = {}
            /\ sessions'[i].phase = "running" /\ ~sessions'[i].cancelled
            /\ total' = total]_vars

-----------------------------------------------------------------------------
(* The inductive invariant behind the properties.                           *)

\* Only the last session runs, and only while the manager is InProgress.
CurrentOnly == \A i \in DOMAIN sessions : Running(i) => i = Current /\ myState = "InProgress"

\* The manager cancels its session only to wait for it.
CancelledIsAwaited ==
  myState = "InProgress" /\ loop = "select" => ~sessions[Current].cancelled

\* A session ends because it was cancelled or has seen the last piece taken.
EndsForAReason ==
  \A i \in DOMAIN sessions :
    sessions[i].phase = "winding" => sessions[i].cancelled \/ sessions[i].completed

\* As long as no two schedulers have met, at most one is in selectPiece; wherever it is
\* there, index and total say which pieces have been handed out.
Inside(i) == sessions[i].at # "idle"
Alone     == \A i, j \in DOMAIN sessions : Inside(i) /\ Inside(j) => i = j

Expected(i) ==
  /\ Inside(i) => total < NPiece /\ Works(i)
  /\ sessions[i].at \in {"take", "load", "count"} => index = total
  /\ sessions[i].at = "return" => index = total + 1
  /\ sessions[i].at \in {"load", "count", "return"} => selected = total
  /\ sessions[i].at \in {"count", "return"} => sessions[i].saw = total

Selection ==
  /\ Alone
  /\ total <= NPiece
  /\ \A i \in DOMAIN sessions : Expected(i)
  /\ (\A i \in DOMAIN sessions : ~Inside(i)) => index = total
  /\ \A p \in Piece : handed[p] = IF p < total THEN 1 ELSE 0

\* A completed session has seen the last piece taken.
CompletedIsLast == \A i \in DOMAIN sessions : sessions[i].completed => total >= NPiece

IInv ==
  /\ TypeOK
  /\ CurrentOnly
  /\ CancelledIsAwaited
  /\ InProgressIsAlive
  /\ EndsForAReason
  /\ ~raced => Selection /\ CompletedIsLast
=============================================================================
