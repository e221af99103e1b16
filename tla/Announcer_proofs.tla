-------------------------- MODULE Announcer_proofs --------------------------
(***************************************************************************)
(* Theorems about Announcer, for any list of trackers, any number of starts*)
(* and any deadlines.                                                      *)
(***************************************************************************)
EXTENDS Announcer, SequenceTheorems, TLAPS

-----------------------------------------------------------------------------
(* The invariant.                                                           *)

\* What cancel() relies on: an armed timer is in the field, and handle() is not
\* about to run on a blank state.
TimerInv ==
  /\ crash # "blank"
  /\ \A c \in Chain :
       /\ station[c] = "armed" => timer = c /\ state = "recurring"
       /\ station[c] = "run" => state # "blank"

\* In the list, the chain talks or is about to talk to the tracker of its place.
\* Time passes only while it waits for a tracker that does not answer.
PlaceInv ==
  \A c \in Chain :
    /\ station[c] = "dial" /\ at[c] > 0 => mainTracker = TrackerUrls[at[c]]
    /\ station[c] \in Exchanging =>
         /\ at[c] > 0 => talksTo[c] = TrackerUrls[at[c]]
         /\ talksTo[c] \in Responsive => elapsed[c] = 0

\* The trackers a chain has left behind do not answer.
BehindInv ==
  \A c \in Chain, i \in DOMAIN TrackerUrls : i < at[c] => TrackerUrls[i] \notin Responsive

\* The list is given up only when no tracker in it answers.
ExhaustedInv ==
  crash = "exhausted" => \A i \in DOMAIN TrackerUrls : TrackerUrls[i] \notin Responsive

IInv ==
  /\ TypeOK
  /\ Alone => TimerInv /\ PlaceInv /\ BehindInv /\ ExhaustedInv

-----------------------------------------------------------------------------
(* Type correctness.                                                        *)

\* The places of the list.
LEMMA ListPlaces ==
  /\ Len(TrackerUrls) \in Nat
  /\ DOMAIN TrackerUrls = 1..Len(TrackerUrls)
  /\ \A i \in 1..Len(TrackerUrls) : TrackerUrls[i] \in Tracker
  BY TrackersAssumption, LenProperties, ElementOfSeq

\* The initial values have their types.
LEMMA InitType == Init => TypeOK
<1> SUFFICES ASSUME Init
             PROVE  TypeOK
  OBVIOUS
<1>1. MainTracker \in Tracker
  BY DEF Tracker
<1>2. running \in BOOLEAN /\ lost \in BOOLEAN
  BY Zenon DEF Init
<1> QED
  BY <1>1, <1>2, ListPlaces DEF Init, TypeOK, Station

\* cancel() keeps the types.
LEMMA CancelledType ==
  ASSUME TypeOK
  PROVE  Cancelled \in [Chain -> Station] /\ CancelledState \in {"initial", "recurring", "blank"}
  BY DEF TypeOK, Cancelled, CancelledState, Station

\* A step of a chain keeps the types.
LEMMA ChainType ==
  ASSUME TypeOK, NEW c \in Chain, ChainStep(c)
  PROVE  TypeOK'
<1> USE DEF TypeOK, Station
<1>1. CASE HandleInitial(c)
  BY <1>1, ListPlaces DEF HandleInitial
<1>2. CASE HandleRecurring(c)
  BY <1>2 DEF HandleRecurring, Arm
<1>3. CASE HandleBlank(c)
  BY <1>3 DEF HandleBlank
<1>4. CASE Fire(c)
  BY <1>4, ListPlaces DEF Fire
<1>5. CASE DialHttp(c)
  BY <1>5 DEF DialHttp
<1>6. CASE DialUdp(c)
  BY <1>6 DEF DialUdp
<1>7. CASE ReadTimesOut(c)
  BY <1>7, WaitAssumption DEF ReadTimesOut, TimePassed, Exchanging
<1>8. CASE ConnectAnswered(c)
  BY <1>8 DEF ConnectAnswered
<1>9. CASE InitialAnswered(c)
  BY <1>9 DEF InitialAnswered
<1>10. CASE RecurringAnswered(c)
  BY <1>10 DEF RecurringAnswered, Arm
<1>11. CASE FailoverAnswered(c)
  BY <1>11 DEF FailoverAnswered, AfterFailover
<1>12. CASE TryNext(c)
  <2>1. at[c] + 1 \in 1..Len(TrackerUrls)
    BY <1>12, ListPlaces DEF TryNext
  <2>2. at' \in [Chain -> 0 .. Len(TrackerUrls)] /\ mainTracker' \in Tracker
    BY <1>12, <2>1, ListPlaces DEF TryNext, Address
  <2>3. station' \in [Chain -> Station] /\ state' \in {"initial", "recurring", "blank"}
    BY <1>12, CancelledType DEF TryNext
  <2> QED
    BY <1>12, <2>2, <2>3 DEF TryNext
<1>13. CASE GiveUpInitial(c)
  BY <1>13 DEF GiveUpInitial
<1>14. CASE GiveUpRecurring(c)
  BY <1>14 DEF GiveUpRecurring
<1> QED
  BY <1>1, <1>2, <1>3, <1>4, <1>5, <1>6, <1>7, <1>8, <1>9, <1>10, <1>11, <1>12,
     <1>13, <1>14 DEF ChainStep

\* Every step keeps the types.
LEMMA NextType == TypeOK /\ [Next]_vars => TypeOK'
<1> SUFFICES ASSUME TypeOK, [Next]_vars
             PROVE  TypeOK'
  OBVIOUS
<1>1. CASE Stop
  BY <1>1 DEF Stop, TypeOK
<1>2. ASSUME NEW c \in Chain, Start(c)
      PROVE  TypeOK'
  BY <1>2 DEF Start, TypeOK, Station
<1>3. ASSUME NEW c \in Chain, NetworkError(c)
      PROVE  TypeOK'
  BY <1>3 DEF NetworkError, TypeOK
<1>4. CASE UNCHANGED vars
  BY <1>4 DEF vars, TypeOK
<1> QED
  BY <1>1, <1>2, <1>3, <1>4, ChainType DEF Next, Outside

-----------------------------------------------------------------------------
(* The invariant is inductive.                                              *)

\* The initial states.
LEMMA InitInv == Init => IInv
<1> SUFFICES ASSUME Init
             PROVE  IInv
  OBVIOUS
<1>1. TypeOK
  BY InitType
<1>2. TimerInv /\ PlaceInv /\ ExhaustedInv
  BY DEF Init, TimerInv, PlaceInv, ExhaustedInv, Exchanging
<1>3. BehindInv
  BY ListPlaces DEF Init, BehindInv
<1> QED
  BY <1>1, <1>2, <1>3 DEF IInv

\* A chain that has been started stays so, and a step of one leaves the unborn alone.
LEMMA BornStays ==
  ASSUME TypeOK, NEW c \in Chain, ChainStep(c)
  PROVE  /\ station[c] # "unborn" /\ station'[c] # "unborn"
         /\ \A d \in Chain : station[d] # "unborn" => station'[d] # "unborn"
         /\ \A d \in Chain \ {c} : station[d] = "unborn" => station'[d] = "unborn"
<1> USE DEF TypeOK, Station, Exchanging
<1>1. CASE TryNext(c)
  BY <1>1 DEF TryNext, Cancelled
<1> QED
  BY <1>1 DEF ChainStep, HandleInitial, HandleRecurring, HandleBlank, Fire, DialHttp, DialUdp,
     ReadTimesOut, ConnectAnswered, InitialAnswered, RecurringAnswered, FailoverAnswered,
     AfterFailover, GiveUpInitial, GiveUpRecurring, Arm

\* A torrent that has been started once was not started more often before.
LEMMA AloneBefore ==
  ASSUME TypeOK, [Next]_vars, Alone'
  PROVE  Alone
<1>1. \A d \in Chain : station[d] # "unborn" => station'[d] # "unborn"
  <2>1. ASSUME NEW c \in Chain, Start(c)
        PROVE  \A d \in Chain : station[d] # "unborn" => station'[d] # "unborn"
    BY <2>1 DEF Start, TypeOK
  <2>2. CASE UNCHANGED station
    BY <2>2
  <2> QED
    BY <2>1, <2>2, BornStays DEF Next, Outside, Stop, NetworkError, vars
<1> QED
  BY <1>1 DEF Alone

\* What the first start leaves.
LEMMA StartInv ==
  ASSUME IInv, Alone, Alone', NEW c \in Chain, Start(c)
  PROVE  TimerInv' /\ PlaceInv' /\ BehindInv' /\ ExhaustedInv'
<1> USE DEF IInv, Start, TypeOK
<1>1. \A d \in Chain \ {c} : station'[d] = "unborn"
  BY DEF Alone
<1>2. station'[c] = "run" /\ state' = "initial"
  OBVIOUS
<1>3. TimerInv'
  BY <1>1, <1>2 DEF TimerInv
<1>4. PlaceInv'
  BY <1>1, <1>2 DEF PlaceInv, Exchanging
<1> QED
  BY <1>3, <1>4 DEF BehindInv, ExhaustedInv

\* A chain that is alone keeps its timer in reach.
LEMMA ChainTimer ==
  ASSUME IInv, Alone, NEW c \in Chain, ChainStep(c)
  PROVE  TimerInv'
<1> USE DEF IInv, TypeOK
<1>1. \A d \in Chain \ {c} : station[d] = "unborn" /\ station'[d] = "unborn"
  BY BornStays DEF Alone
<1>2. CASE TryNext(c)
  <2>1. station'[c] = "dial" /\ crash' = crash
    BY <1>2, CancelledType DEF TryNext
  <2> QED
    BY <1>1, <2>1 DEF TimerInv
<1>3. CASE HandleInitial(c) \/ HandleRecurring(c) \/ HandleBlank(c) \/ Fire(c)
  BY <1>1, <1>3 DEF TimerInv, HandleInitial, HandleRecurring, HandleBlank, Fire, Arm
<1>4. CASE DialHttp(c) \/ DialUdp(c) \/ ReadTimesOut(c) \/ ConnectAnswered(c)
  BY <1>1, <1>4 DEF TimerInv, DialHttp, DialUdp, ReadTimesOut, ConnectAnswered, Exchanging
<1>5. CASE InitialAnswered(c) \/ RecurringAnswered(c)
  BY <1>1, <1>5 DEF TimerInv, InitialAnswered, RecurringAnswered, Arm
<1>6. CASE FailoverAnswered(c) \/ GiveUpInitial(c) \/ GiveUpRecurring(c)
  BY <1>1, <1>6 DEF TimerInv, FailoverAnswered, AfterFailover, GiveUpInitial, GiveUpRecurring,
                    Exchanging
<1> QED
  BY <1>2, <1>3, <1>4, <1>5, <1>6 DEF ChainStep

\* The trackers left behind do not answer.
LEMMA ChainPlace ==
  ASSUME IInv, Alone, NEW c \in Chain, ChainStep(c)
  PROVE  PlaceInv' /\ BehindInv' /\ ExhaustedInv'
<1> USE DEF IInv, TypeOK
<1>1. \A d \in Chain \ {c} : station[d] = "unborn" /\ station'[d] = "unborn"
  BY BornStays DEF Alone
<1>2. ASSUME station[c] \in Exchanging, ~InTime(c), at[c] > 0
      PROVE  TrackerUrls[at[c]] \notin Responsive
  <2>1. talksTo[c] = TrackerUrls[at[c]] /\ (talksTo[c] \in Responsive => elapsed[c] = 0)
    BY <1>2 DEF PlaceInv
  <2> QED
    BY <1>2, <2>1, WaitAssumption DEF InTime
<1>3. CASE TryNext(c)
  <2>1. /\ at' = [at EXCEPT ![c] = at[c] + 1]
        /\ at[c] \in Nat /\ at[c] + 1 \in DOMAIN TrackerUrls
        /\ station'[c] = "dial" /\ mainTracker' = TrackerUrls[at[c] + 1]
        /\ talksTo' = talksTo /\ crash' = crash
    BY <1>3, ListPlaces, CancelledType DEF TryNext, Address
  <2>2. PlaceInv'
    BY <1>1, <2>1 DEF PlaceInv, Exchanging
  <2>3. ASSUME NEW d \in Chain, NEW i \in DOMAIN TrackerUrls, i < at'[d]
        PROVE  TrackerUrls[i] \notin Responsive
    <3>1. CASE i < at[d]
      BY <3>1 DEF BehindInv
    <3>2. CASE ~(i < at[d])
      <4>1. d = c /\ i = at[c] /\ at[c] > 0
        BY <2>1, <2>3, <3>2, ListPlaces
      <4> QED
        BY <1>2, <1>3, <4>1 DEF TryNext
    <3> QED
      BY <3>1, <3>2
  <2>4. BehindInv'
    BY <2>3 DEF BehindInv
  <2>5. ExhaustedInv'
    BY <2>1 DEF ExhaustedInv
  <2> QED
    BY <2>2, <2>4, <2>5
<1>4. CASE GiveUpInitial(c)
  <2>1. PlaceInv' /\ BehindInv'
    BY <1>4 DEF GiveUpInitial, PlaceInv, BehindInv
  <2>2. ASSUME NEW i \in DOMAIN TrackerUrls
        PROVE  TrackerUrls[i] \notin Responsive
    <3>1. at[c] = Len(TrackerUrls) /\ station[c] \in Exchanging /\ ~InTime(c)
      BY <1>4 DEF GiveUpInitial
    <3>2. CASE i < at[c]
      BY <3>2 DEF BehindInv
    <3>3. CASE i = at[c]
      BY <1>2, <3>1, <3>3, ListPlaces
    <3> QED
      BY <3>1, <3>2, <3>3, ListPlaces
  <2> QED
    BY <2>1, <2>2 DEF ExhaustedInv
<1>5. CASE HandleInitial(c) \/ Fire(c)
  <2>1. at' = [at EXCEPT ![c] = 0] /\ station'[c] = "dial" /\ crash' = crash
    BY <1>5 DEF HandleInitial, Fire
  <2>2. PlaceInv'
    BY <1>1, <2>1 DEF PlaceInv, Exchanging
  <2>3. BehindInv'
    BY <2>1, ListPlaces DEF BehindInv
  <2> QED
    BY <2>1, <2>2, <2>3 DEF ExhaustedInv
<1>6. CASE HandleRecurring(c) \/ HandleBlank(c) \/ DialHttp(c)
  BY <1>1, <1>6 DEF HandleRecurring, HandleBlank, DialHttp, Arm, PlaceInv, BehindInv,
                    ExhaustedInv, Exchanging
<1>7. CASE DialUdp(c) \/ ReadTimesOut(c) \/ ConnectAnswered(c)
  <2>1. at' = at /\ crash' = crash
    BY <1>7 DEF DialUdp, ReadTimesOut, ConnectAnswered
  <2>2. PlaceInv'
    BY <1>1, <1>7 DEF DialUdp, ReadTimesOut, ConnectAnswered, PlaceInv, Exchanging
  <2> QED
    BY <2>1, <2>2 DEF BehindInv, ExhaustedInv
<1>8. CASE InitialAnswered(c) \/ RecurringAnswered(c) \/ FailoverAnswered(c) \/ GiveUpRecurring(c)
  <2>1. at' = at /\ crash' = crash /\ station'[c] \in {"run", "armed", "silent"}
    BY <1>8 DEF InitialAnswered, RecurringAnswered, FailoverAnswered, GiveUpRecurring, Arm,
                AfterFailover
  <2>2. PlaceInv'
    BY <1>1, <2>1 DEF PlaceInv, Exchanging
  <2> QED
    BY <2>1, <2>2 DEF BehindInv, ExhaustedInv
<1> QED
  BY <1>3, <1>4, <1>5, <1>6, <1>7, <1>8 DEF ChainStep

\* A step keeps the invariant.
LEMMA NextInv == IInv /\ [Next]_vars => IInv'
<1> SUFFICES ASSUME IInv, [Next]_vars
             PROVE  IInv'
  OBVIOUS
<1>1. TypeOK'
  BY NextType DEF IInv
<1> SUFFICES ASSUME Alone'
             PROVE  TimerInv' /\ PlaceInv' /\ BehindInv' /\ ExhaustedInv'
  BY <1>1 DEF IInv
<1>2. Alone
  BY AloneBefore DEF IInv
<1>3. CASE Stop
  BY <1>2, <1>3 DEF IInv, Stop, TimerInv, PlaceInv, BehindInv, ExhaustedInv
<1>4. ASSUME NEW c \in Chain, NetworkError(c)
      PROVE  TimerInv' /\ PlaceInv' /\ BehindInv' /\ ExhaustedInv'
  BY <1>2, <1>4 DEF IInv, NetworkError, TimerInv, PlaceInv, BehindInv, ExhaustedInv
<1>5. CASE UNCHANGED vars
  BY <1>2, <1>5 DEF IInv, vars, TimerInv, PlaceInv, BehindInv, ExhaustedInv
<1> QED
  BY <1>2, <1>3, <1>4, <1>5, StartInv, ChainTimer, ChainPlace DEF Next, Outside

-----------------------------------------------------------------------------
(* The theorems.                                                            *)

\* The invariant holds for every list of trackers and any number of starts.
THEOREM IInvHolds == Spec => []IInv
  BY InitInv, NextInv, PTL DEF Spec

\* The types of the announcer, its chains and the exchanges are right.
THEOREM TypeCorrect == Spec => []TypeOK
<1>1. IInv => TypeOK
  BY DEF IInv
<1> QED
  BY <1>1, IInvHolds, PTL

\* cancel() reaches the armed timer of a torrent that was started once, and handle()
\* never runs on the state that cancel() leaves.
THEOREM TimerIsReachable == Spec => []TimerReachable
<1>1. IInv => TimerReachable
  BY DEF IInv, TimerInv, TimerReachable
<1> QED
  BY <1>1, IInvHolds, PTL

\* loopThroughList does not give up, or go past, a tracker that answers.
THEOREM ListFindsTheResponsive == Spec => []ListFindsResponsive
<1>1. IInv => ListFindsResponsive
  BY DEF IInv, BehindInv, ExhaustedInv, ListFindsResponsive
<1> QED
  BY <1>1, IInvHolds, PTL

-----------------------------------------------------------------------------
(* Several chains on the same timer.                                        *)

\* A callback that has met no time-out is at the tracker in use, with all its time left.
PunctualInv ==
  ~lost => \A c \in Chain :
    round[c] = "recurring" =>
      /\ station[c] \in {"dial", "connect", "announce"} => at[c] = 0
      /\ station[c] \in Exchanging => elapsed[c] = 0

\* Both facts after a step that leaves a chain alive.
LEMMA LivesOn ==
  ASSUME PunctualInv', NEW c \in Chain, Lives(c)'
  PROVE  PunctualInv' /\ SomeChainLives'
  BY DEF SomeChainLives

\* The chain that steps is punctual afterwards, and so are those that do not step.
LEMMA PunctualStep ==
  ASSUME TypeOK, PunctualInv, NEW c \in Chain, ChainStep(c)
  PROVE  PunctualInv'
<1> USE DEF TypeOK, PunctualInv, Exchanging
<1>1. CASE HandleInitial(c)
  BY <1>1 DEF HandleInitial
<1>2. CASE HandleRecurring(c)
  BY <1>2 DEF HandleRecurring, Arm
<1>3. CASE Fire(c)
  BY <1>3 DEF Fire
<1>4. CASE HandleBlank(c) \/ DialHttp(c) \/ GiveUpInitial(c)
  BY <1>4 DEF HandleBlank, DialHttp, GiveUpInitial
<1>5. CASE DialUdp(c)
  BY <1>5 DEF DialUdp
<1>6. CASE ReadTimesOut(c)
  <2>1. ASSUME ~lost'
        PROVE  ~lost /\ round[c] # "recurring"
    BY <1>6, <2>1 DEF ReadTimesOut
  <2> QED
    BY <1>6, <2>1 DEF ReadTimesOut
<1>7. CASE ConnectAnswered(c)
  BY <1>7 DEF ConnectAnswered
<1>8. CASE InitialAnswered(c) \/ RecurringAnswered(c)
  BY <1>8 DEF InitialAnswered, RecurringAnswered, Arm
<1>9. CASE FailoverAnswered(c) \/ GiveUpRecurring(c)
  BY <1>9 DEF FailoverAnswered, GiveUpRecurring, AfterFailover
<1>10. CASE TryNext(c)
  <2>1. ASSUME ~lost
        PROVE  round[c] # "recurring"
    BY <1>10, <2>1, WaitAssumption DEF TryNext, InTime
  <2>2. \A d \in Chain \ {c} : at'[d] = at[d] /\ station'[d] \in {station[d], "silent"}
    BY <1>10 DEF TryNext, Cancelled
  <2>3. UNCHANGED <<lost, round, elapsed>>
    BY <1>10 DEF TryNext
  <2> QED
    BY <2>1, <2>2, <2>3
<1> QED
  BY <1>1, <1>2, <1>3, <1>4, <1>5, <1>6, <1>7, <1>8, <1>9, <1>10 DEF ChainStep

\* The chain that steps goes on, unless it met a time-out in a callback.
LEMMA StepperLives ==
  ASSUME TypeOK, PunctualInv, ~lost, NEW c \in Chain, ChainStep(c)
  PROVE  Lives(c)'
<1> USE DEF TypeOK, Lives, Exchanging
<1>1. CASE FailoverAnswered(c) \/ GiveUpRecurring(c)
  <2>1. CASE FailoverAnswered(c)
    BY <2>1 DEF FailoverAnswered, InUse, PunctualInv
  <2>2. CASE GiveUpRecurring(c)
    BY <2>2, WaitAssumption DEF GiveUpRecurring, InTime, PunctualInv
  <2> QED
    BY <1>1, <2>1, <2>2
<1>2. CASE TryNext(c)
  <2>1. station'[c] = "dial"
    BY <1>2, CancelledType DEF TryNext
  <2> QED
    BY <2>1
<1>3. CASE HandleInitial(c) \/ HandleRecurring(c) \/ HandleBlank(c) \/ Fire(c)
  BY <1>3 DEF HandleInitial, HandleRecurring, HandleBlank, Fire, Arm
<1>4. CASE DialHttp(c) \/ DialUdp(c) \/ ReadTimesOut(c) \/ ConnectAnswered(c)
  BY <1>4 DEF DialHttp, DialUdp, ReadTimesOut, ConnectAnswered
<1>5. CASE InitialAnswered(c) \/ RecurringAnswered(c) \/ GiveUpInitial(c)
  BY <1>5 DEF InitialAnswered, RecurringAnswered, GiveUpInitial, Arm
<1> QED
  BY <1>1, <1>2, <1>3, <1>4, <1>5 DEF ChainStep

\* Whatever chains take each other's timer and trackers, until a callback meets a
\* time-out one of them goes on: for any number of starts.
THEOREM SomeChainLivesHolds == Spec => []SomeChainLives
<1>1. Init => PunctualInv /\ SomeChainLives
  BY DEF Init, PunctualInv, SomeChainLives
<1>2. TypeOK /\ PunctualInv /\ SomeChainLives /\ [Next]_vars => (PunctualInv /\ SomeChainLives)'
  <2> SUFFICES ASSUME TypeOK, PunctualInv, SomeChainLives, [Next]_vars
               PROVE  (PunctualInv /\ SomeChainLives)'
    OBVIOUS
  <2>1. ASSUME NEW c \in Chain, ChainStep(c)
        PROVE  (PunctualInv /\ SomeChainLives)'
    <3>1. PunctualInv'
      BY <2>1, PunctualStep
    <3>2. CASE lost
      <4>1. lost'
        BY <2>1, <3>2 DEF ChainStep, HandleInitial, HandleRecurring, HandleBlank, Fire, DialHttp,
           DialUdp, ReadTimesOut, ConnectAnswered, InitialAnswered, RecurringAnswered,
           FailoverAnswered, TryNext, GiveUpInitial, GiveUpRecurring
      <4> QED
        BY <3>1, <4>1 DEF SomeChainLives
    <3>3. CASE ~lost
      BY <2>1, <3>1, <3>3, StepperLives, LivesOn
    <3> QED
      BY <3>2, <3>3
  <2>2. ASSUME NEW c \in Chain, Start(c)
        PROVE  (PunctualInv /\ SomeChainLives)'
    <3>1. PunctualInv' /\ Lives(c)'
      BY <2>2 DEF Start, TypeOK, PunctualInv, Exchanging, Lives
    <3> QED
      BY <3>1, LivesOn
  <2>3. CASE UNCHANGED <<station, round, at, elapsed, lost>>
    BY <2>3 DEF PunctualInv, SomeChainLives, Lives
  <2> QED
    BY <2>1, <2>2, <2>3 DEF Next, Outside, Stop, NetworkError, vars
<1> QED
  BY <1>1, <1>2, TypeCorrect, PTL DEF Spec
=============================================================================
