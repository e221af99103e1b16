----------------------------- MODULE Announcer -----------------------------
(***************************************************************************)
(* The announcer of one torrent (core/tracker/scrapper.go) and the UDP and *)
(* HTTP exchanges it makes (core/tracker/scrape_strategy.go).              *)
(*                                                                         *)
(* Every start of a stopped torrent calls StartScrapper in a goroutine of  *)
(* its own. That call, and the timer callbacks that follow from it, are a  *)
(* chain: it makes one request at a time and arms the timer for the next.  *)
(* stop() only cancels a context nobody reads, so after a stop and a start *)
(* two chains run on the same Announcer: they share the request state, the *)
(* timer field and the current tracker without synchronisation.            *)
(*                                                                         *)
(* Time is counted in units of five seconds and only inside an exchange;   *)
(* an armed timer fires at any moment. The interval is left out.           *)
(***************************************************************************)
EXTENDS Naturals, Sequences

CONSTANTS
  Chain,         \* the calls of StartScrapper
  MainTracker,   \* the tracker NewAnnouncer begins with
  TrackerUrls,   \* the announce list
  Http,          \* the trackers with an http or https address
  Responsive,    \* the trackers that answer every datagram in time
  TryOut,        \* udpTryOutDeadline
  ReadWait,      \* read deadline of a "connect" and of an "announce" request
  None

Tracker == {MainTracker} \cup {TrackerUrls[i] : i \in DOMAIN TrackerUrls}

ASSUME TrackersAssumption ==
  /\ TrackerUrls \in Seq(Tracker)
  /\ MainTracker \notin Http
  /\ Responsive \subseteq Tracker
  /\ None \notin Chain

ASSUME WaitAssumption ==
  /\ TryOut \in Nat \ {0}
  /\ ReadWait \in [{"connect", "announce"} -> Nat \ {0}]

VARIABLES
  running,      \* the manager is not in Stopped
  station,      \* where a chain is
  round,        \* the request state whose handle() the chain executes
  at,           \* its place in loopThroughList, 0 before the list
  talksTo,      \* the tracker its connection leads to
  elapsed,      \* time since the deadline of its request was set
  mainTracker,  \* mainTrackerUrl, and with it strategy
  state,        \* state: "blank" is an initialRequest without an announcer
  timer,        \* the chain whose timer the field timer holds
  crash,        \* how the process has ended
  lost          \* history: a read of a timer's callback has timed out

vars == <<running, station, round, at, talksTo, elapsed, mainTracker, state,
          timer, crash, lost>>

(***************************************************************************)
(* run: before state.handle(). dial: before handleRequest. connect and     *)
(* announce: in the loops of sendConnectRequest and sendAnnounceRequest.   *)
(* armed: the timer is set. silent: nothing will ever run for this chain.  *)
(***************************************************************************)
Station == {"unborn", "run", "dial", "connect", "announce", "armed", "silent"}
Exchanging == {"connect", "announce"}

TypeOK ==
  /\ running \in BOOLEAN
  /\ station \in [Chain -> Station]
  /\ round \in [Chain -> {"initial", "recurring"}]
  /\ at \in [Chain -> 0 .. Len(TrackerUrls)]
  /\ talksTo \in [Chain -> Tracker]
  /\ elapsed \in [Chain -> Nat]
  /\ mainTracker \in Tracker
  /\ state \in {"initial", "recurring", "blank"}
  /\ timer \in Chain \cup {None}
  /\ crash \in {"none", "network", "http", "exhausted", "blank"}
  /\ lost \in BOOLEAN

Init ==
  /\ running = FALSE
  /\ station = [c \in Chain |-> "unborn"]
  /\ round = [c \in Chain |-> "initial"]
  /\ at = [c \in Chain |-> 0]
  /\ talksTo = [c \in Chain |-> MainTracker]
  /\ elapsed = [c \in Chain |-> 0]
  /\ mainTracker = MainTracker
  /\ state = "initial"
  /\ timer = None
  /\ crash = "none"
  /\ lost = FALSE

-----------------------------------------------------------------------------
\* The manager. StartScrapper sets the state first and then calls handle().
Start(c) ==
  /\ ~running
  /\ station[c] = "unborn"
  /\ running' = TRUE
  /\ state' = "initial"
  /\ station' = [station EXCEPT ![c] = "run"]
  /\ UNCHANGED <<round, at, talksTo, elapsed, mainTracker, timer, crash, lost>>

Stop ==
  /\ running
  /\ running' = FALSE
  /\ UNCHANGED <<station, round, at, talksTo, elapsed, mainTracker, state,
                 timer, crash, lost>>

-----------------------------------------------------------------------------
\* The effect of recurringRequest.handle: a timer of the chain's own, which
\* the field timer forgets as soon as another chain sets its own.
Arm(c) ==
  /\ station' = [station EXCEPT ![c] = "armed"]
  /\ timer' = c

\* state.handle() after StartScrapper or after the first answer, whatever
\* the state is by now.
HandleInitial(c) ==
  /\ station[c] = "run"
  /\ state = "initial"
  /\ station' = [station EXCEPT ![c] = "dial"]
  /\ round' = [round EXCEPT ![c] = "initial"]
  /\ at' = [at EXCEPT ![c] = 0]
  /\ UNCHANGED <<running, talksTo, elapsed, mainTracker, state, timer, crash,
                 lost>>

HandleRecurring(c) ==
  /\ station[c] = "run"
  /\ state = "recurring"
  /\ Arm(c)
  /\ UNCHANGED <<running, round, at, talksTo, elapsed, mainTracker, state,
                 crash, lost>>

HandleBlank(c) ==
  /\ station[c] = "run"
  /\ state = "blank"
  /\ crash' = "blank"
  /\ UNCHANGED <<running, station, round, at, talksTo, elapsed, mainTracker,
                 state, timer, lost>>

\* The callback of the timer.
Fire(c) ==
  /\ station[c] = "armed"
  /\ station' = [station EXCEPT ![c] = "dial"]
  /\ round' = [round EXCEPT ![c] = "recurring"]
  /\ at' = [at EXCEPT ![c] = 0]
  /\ UNCHANGED <<running, talksTo, elapsed, mainTracker, state, timer, crash,
                 lost>>

-----------------------------------------------------------------------------
\* strategy.handleRequest() up to the first datagram. Every HTTP request ends
\* the process: execRequest fails, or returns a nil answer that is used.
DialHttp(c) ==
  /\ station[c] = "dial"
  /\ mainTracker \in Http
  /\ crash' = "http"
  /\ UNCHANGED <<running, station, round, at, talksTo, elapsed, mainTracker,
                 state, timer, lost>>

DialUdp(c) ==
  /\ station[c] = "dial"
  /\ mainTracker \notin Http
  /\ station' = [station EXCEPT ![c] = "connect"]
  /\ talksTo' = [talksTo EXCEPT ![c] = mainTracker]
  /\ elapsed' = [elapsed EXCEPT ![c] = 0]
  /\ UNCHANGED <<running, round, at, mainTracker, state, timer, crash, lost>>

\* Any error of the network but a passed deadline is log.Fatal.
NetworkError(c) ==
  /\ station[c] \in Exchanging
  /\ crash' = "network"
  /\ UNCHANGED <<running, station, round, at, talksTo, elapsed, mainTracker,
                 state, timer, lost>>

\* The guard of the two loops: now < deadline.
InTime(c) == elapsed[c] < TryOut

\* (Mutant: the time that passed is taken off instead of added.)
TimeLeft(c) == elapsed[c] - ReadWait[station[c]]

TimePassed(c) == elapsed[c] + ReadWait[station[c]]

ReadTimesOut(c) ==
  /\ station[c] \in Exchanging
  /\ InTime(c)
  /\ talksTo[c] \notin Responsive
  /\ elapsed' = [elapsed EXCEPT ![c] = TimePassed(c)]
  /\ lost' = (lost \/ round[c] = "recurring")
  /\ UNCHANGED <<running, station, round, at, talksTo, mainTracker, state,
                 timer, crash>>

ConnectAnswered(c) ==
  /\ station[c] = "connect"
  /\ InTime(c)
  /\ station' = [station EXCEPT ![c] = "announce"]
  /\ elapsed' = [elapsed EXCEPT ![c] = 0]
  /\ UNCHANGED <<running, round, at, talksTo, mainTracker, state, timer,
                 crash, lost>>

-----------------------------------------------------------------------------
\* An announce answer in the initial request, from wherever in the list: the
\* state becomes recurring and handle() is called on it a moment later.
InitialAnswered(c) ==
  /\ station[c] = "announce"
  /\ InTime(c)
  /\ round[c] = "initial"
  /\ state' = "recurring"
  /\ station' = [station EXCEPT ![c] = "run"]
  /\ UNCHANGED <<running, round, at, talksTo, elapsed, mainTracker, timer,
                 crash, lost>>

\* (Mutant: the callback arms the timer after a fail-over only.)
FromTheList(c) == at[c] > 0

InUse(c) == at[c] = 0

\* (Mutant: the callback calls handle() on the state after a fail-over.)
AfterFailoverHandled == "run"

AfterFailover == "silent"

\* In a callback the timer is armed again for the tracker in use only ...
RecurringAnswered(c) ==
  /\ station[c] = "announce"
  /\ InTime(c)
  /\ round[c] = "recurring"
  /\ InUse(c)
  /\ state' = "recurring"
  /\ Arm(c)
  /\ UNCHANGED <<running, round, at, talksTo, elapsed, mainTracker, crash,
                 lost>>

\* ... after a fail-over the callback returns, with or without an answer.
FailoverAnswered(c) ==
  /\ station[c] = "announce"
  /\ InTime(c)
  /\ round[c] = "recurring"
  /\ ~InUse(c)
  /\ station' = [station EXCEPT ![c] = AfterFailover]
  /\ UNCHANGED <<running, round, at, talksTo, elapsed, mainTracker, state,
                 timer, crash, lost>>

\* state.cancel(): a recurring request stops the timer in the field.
Cancelled ==
  IF state = "recurring" /\ timer # None /\ station[timer] = "armed"
  THEN [station EXCEPT ![timer] = "silent"]
  ELSE station

CancelledState == IF state = "recurring" THEN "blank" ELSE state

\* (Mutant: the loop does not replace mainTrackerUrl.)
AddressKept(c) == mainTracker

\* The next tracker of the list after a deadline that has passed.
Address(c) == TrackerUrls[at[c] + 1]

TryNext(c) ==
  /\ station[c] \in Exchanging
  /\ ~InTime(c)
  /\ at[c] < Len(TrackerUrls)
  /\ at' = [at EXCEPT ![c] = @ + 1]
  /\ mainTracker' = Address(c)
  /\ station' = [Cancelled EXCEPT ![c] = "dial"]
  /\ state' = CancelledState
  /\ UNCHANGED <<running, round, talksTo, elapsed, timer, crash, lost>>

\* The list is exhausted: log.Fatalf in the initial request, a return in a
\* callback.
GiveUpInitial(c) ==
  /\ station[c] \in Exchanging
  /\ ~InTime(c)
  /\ at[c] = Len(TrackerUrls)
  /\ round[c] = "initial"
  /\ crash' = "exhausted"
  /\ UNCHANGED <<running, station, round, at, talksTo, elapsed, mainTracker,
                 state, timer, lost>>

GiveUpRecurring(c) ==
  /\ station[c] \in Exchanging
  /\ ~InTime(c)
  /\ at[c] = Len(TrackerUrls)
  /\ round[c] = "recurring"
  /\ station' = [station EXCEPT ![c] = "silent"]
  /\ UNCHANGED <<running, round, at, talksTo, elapsed, mainTracker, state,
                 timer, crash, lost>>

-----------------------------------------------------------------------------
\* What the runtime, a timer or an answer is bound to do for a chain.
ChainStep(c) ==
  /\ crash = "none"
  /\ \/ HandleInitial(c) \/ HandleRecurring(c) \/ HandleBlank(c)
     \/ Fire(c)
     \/ DialHttp(c) \/ DialUdp(c)
     \/ ReadTimesOut(c) \/ ConnectAnswered(c)
     \/ InitialAnswered(c) \/ RecurringAnswered(c) \/ FailoverAnswered(c)
     \/ TryNext(c) \/ GiveUpInitial(c) \/ GiveUpRecurring(c)

Outside ==
  /\ crash = "none"
  /\ \/ Stop
     \/ \E c \in Chain : Start(c) \/ NetworkError(c)

Next == Outside \/ \E c \in Chain : ChainStep(c)

Spec == Init /\ [][Next]_vars

FairSpec == Spec /\ \A c \in Chain : WF_vars(ChainStep(c))
-----------------------------------------------------------------------------
\* The torrent has been started at most once.
Alone == \A c, d \in Chain :
  station[c] # "unborn" /\ station[d] # "unborn" => c = d

(***************************************************************************)
(* While a torrent has been started once, an armed timer is the one in the *)
(* field timer and the state is recurring, so that cancel(), which looks   *)
(* at both, reaches it. After a second start the field holds the timer of  *)
(* the chain that came last. cancel() leaves an initialRequest without an  *)
(* announcer in the state, whose handle() would use a nil pointer; as long *)
(* as there is one chain nobody calls it.                                  *)
(***************************************************************************)
TimerReachable ==
  Alone =>
    /\ crash # "blank"
    /\ \A c \in Chain :
         station[c] = "armed" => timer = c /\ state = "recurring"

(***************************************************************************)
(* loopThroughList finds the responsive tracker of the list: the first     *)
(* request of a torrent started once does not end with "failed to find a   *)
(* tracker", nor does it go on to a tracker behind the responsive one. Two *)
(* chains may take each other's tracker away between the choice of an      *)
(* address and its use.                                                    *)
(***************************************************************************)
ListFindsResponsive ==
  Alone /\ (\E i \in DOMAIN TrackerUrls : TrackerUrls[i] \in Responsive \ Http)
    => /\ crash # "exhausted"
       /\ \A c \in Chain, i \in DOMAIN TrackerUrls :
            i < at[c] => TrackerUrls[i] \notin Responsive

(***************************************************************************)
(* As long as no callback has met a time-out, a torrent that was started   *)
(* has a chain that goes on, however often it was stopped and started      *)
(* again: a first request that fails over may silence the chain in the     *)
(* field timer, which need not be its own, but never the last one. (A      *)
(* callback that fails over is silent, whatever the next tracker answers.) *)
(***************************************************************************)
Lives(c) == station[c] \notin {"unborn", "silent"}

SomeChainLives ==
  (\E c \in Chain : station[c] # "unborn") /\ ~lost => \E c \in Chain : Lives(c)

(***************************************************************************)
(* A torrent that stays in progress announces itself again and again,      *)
(* however many chains share the timer and however many trackers time out  *)
(* in the first request of each: every timer that is not stopped fires and *)
(* every answer arms the next one. Once a callback has met a time-out this *)
(* is no longer so, whether or not another tracker answers.                *)
(***************************************************************************)
KeepsAnnouncing ==
  <>[]running /\ [](~lost /\ crash = "none")
    => []<>(\E c \in Chain : station[c] = "announce")

\* The main tracker or one of the list always answers, and no tracker before it in the
\* list is an HTTP one.
ResponsiveFirst ==
  \/ MainTracker \in Responsive
  \/ \E i \in DOMAIN TrackerUrls :
       /\ TrackerUrls[i] \in Responsive
       /\ \A j \in 1..i : TrackerUrls[j] \notin Http

(***************************************************************************)
(* With such a tracker, a torrent started once gets its first announcement *)
(* through and arms the timer, however many trackers before that one time  *)
(* out (or the network ends the process). It bounds no time.               *)
(***************************************************************************)
FirstAnnouncementGetsThrough ==
  ResponsiveFirst =>
    \A c \in Chain :
      station[c] = "run" /\ Alone
        ~> station[c] = "armed" \/ ~Alone \/ crash = "network"
=============================================================================
