------------------------ MODULE TorrentManager_proofs ------------------------
(***************************************************************************)
(* Proofs about TorrentManager, for any number of pieces and sessions.     *)
(***************************************************************************)
EXTENDS TorrentManager, TLAPS

USE DEF Piece, Current, Running

-----------------------------------------------------------------------------
(* What the steps do to the sessions.                                       *)

\* Session i is s afterwards, and no other session has changed.
Becomes(i, s) ==
  /\ sessions' \in Seq(Session)
  /\ Len(sessions') = Len(sessions)
  /\ DOMAIN sessions' = DOMAIN sessions
  /\ sessions'[i] = s
  /\ \A j \in DOMAIN sessions : j # i => sessions'[j] = sessions[j]

LEMMA SessionUpdate ==
  ASSUME sessions \in Seq(Session), NEW i \in DOMAIN sessions, NEW s \in Session,
         sessions' = [sessions EXCEPT ![i] = s]
  PROVE  Becomes(i, s)
  BY DEF Becomes

\* Starting a session appends it.
LEMMA SessionLaunch ==
  ASSUME sessions \in Seq(Session), sessions' = Append(sessions, NewSession)
  PROVE  /\ sessions' \in Seq(Session)
         /\ Len(sessions') = Len(sessions) + 1
         /\ DOMAIN sessions' = 1..(Len(sessions) + 1)
         /\ sessions'[Len(sessions) + 1] = NewSession
         /\ \A j \in DOMAIN sessions : sessions'[j] = sessions[j]
  <1>1. NewSession \in Session
    BY DEF NewSession, Session, SelectState
  <1> QED
    BY <1>1

\* What each statement of selectPiece does to the record of its session.
LEMMA TestFields ==
  ASSUME TypeOK, NEW i \in DOMAIN sessions, SelectTest(i)
  PROVE  \E s \in Session :
           /\ Becomes(i, s)
           /\ s.cancelled = sessions[i].cancelled
           /\ s.phase = sessions[i].phase
           /\ s.completed = sessions[i].completed
           /\ s.at = "take"
           /\ s.saw = 0
           /\ s.hand = sessions[i].hand
           /\ s.delivered = sessions[i].delivered
<1> DEFINE old == sessions[i]
           s   == [old EXCEPT !.at = "take", !.saw = 0]
<1>1. old \in Session /\ sessions \in Seq(Session)
  BY DEF TypeOK
<1>3. s \in Session
  BY <1>1 DEF Session, SelectState
<1>4. /\ s.cancelled = old.cancelled
      /\ s.phase = old.phase
      /\ s.completed = old.completed
      /\ s.at = "take"
      /\ s.saw = 0
      /\ s.hand = old.hand
      /\ s.delivered = old.delivered
  BY <1>1 DEF Session
<1>5. sessions' = [sessions EXCEPT ![i] = s]
  BY DEF SelectTest, Goto
<1>6. Becomes(i, s)
  BY <1>1, <1>3, <1>5, SessionUpdate
<1> QED
  BY <1>3, <1>4, <1>6

\* It finds no piece left.
LEMMA NoneFields ==
  ASSUME TypeOK, NEW i \in DOMAIN sessions, SelectNone(i)
  PROVE  \E s \in Session :
           /\ Becomes(i, s)
           /\ s.cancelled = sessions[i].cancelled
           /\ s.phase = "winding"
           /\ s.completed = TRUE
           /\ s.at = sessions[i].at
           /\ s.saw = sessions[i].saw
           /\ s.hand = sessions[i].hand
           /\ s.delivered = sessions[i].delivered
<1> DEFINE old == sessions[i]
           s   == [old EXCEPT !.phase = "winding", !.completed = TRUE]
<1>1. old \in Session /\ sessions \in Seq(Session)
  BY DEF TypeOK
<1>3. s \in Session
  BY <1>1 DEF Session, SelectState
<1>4. /\ s.cancelled = old.cancelled
      /\ s.phase = "winding"
      /\ s.completed = TRUE
      /\ s.at = old.at
      /\ s.saw = old.saw
      /\ s.hand = old.hand
      /\ s.delivered = old.delivered
  BY <1>1 DEF Session
<1>5. sessions' = [sessions EXCEPT ![i] = s]
  BY DEF SelectNone
<1>6. Becomes(i, s)
  BY <1>1, <1>3, <1>5, SessionUpdate
<1> QED
  BY <1>3, <1>4, <1>6

\* It takes a piece.
LEMMA TakeFields ==
  ASSUME TypeOK, NEW i \in DOMAIN sessions, SelectTake(i)
  PROVE  \E s \in Session :
           /\ Becomes(i, s)
           /\ s.cancelled = sessions[i].cancelled
           /\ s.phase = sessions[i].phase
           /\ s.completed = sessions[i].completed
           /\ s.at = "load"
           /\ s.saw = 0
           /\ s.hand = sessions[i].hand
           /\ s.delivered = sessions[i].delivered
<1> DEFINE old == sessions[i]
           s   == [old EXCEPT !.at = "load", !.saw = 0]
<1>1. old \in Session /\ sessions \in Seq(Session)
  BY DEF TypeOK
<1>3. s \in Session
  BY <1>1 DEF Session, SelectState
<1>4. /\ s.cancelled = old.cancelled
      /\ s.phase = old.phase
      /\ s.completed = old.completed
      /\ s.at = "load"
      /\ s.saw = 0
      /\ s.hand = old.hand
      /\ s.delivered = old.delivered
  BY <1>1 DEF Session
<1>5. sessions' = [sessions EXCEPT ![i] = s]
  BY DEF SelectTake, Goto
<1>6. Becomes(i, s)
  BY <1>1, <1>3, <1>5, SessionUpdate
<1> QED
  BY <1>3, <1>4, <1>6

\* It reads the index.
LEMMA LoadFields ==
  ASSUME TypeOK, NEW i \in DOMAIN sessions, SelectLoad(i)
  PROVE  \E s \in Session :
           /\ Becomes(i, s)
           /\ s.cancelled = sessions[i].cancelled
           /\ s.phase = sessions[i].phase
           /\ s.completed = sessions[i].completed
           /\ s.at = "count"
           /\ s.saw = index
           /\ s.hand = sessions[i].hand
           /\ s.delivered = sessions[i].delivered
<1> DEFINE old == sessions[i]
           s   == [old EXCEPT !.at = "count", !.saw = index]
<1>1. old \in Session /\ sessions \in Seq(Session)
  BY DEF TypeOK
<1>2. index \in Nat
  BY DEF TypeOK
<1>3. s \in Session
  BY <1>1, <1>2 DEF Session, SelectState
<1>4. /\ s.cancelled = old.cancelled
      /\ s.phase = old.phase
      /\ s.completed = old.completed
      /\ s.at = "count"
      /\ s.saw = index
      /\ s.hand = old.hand
      /\ s.delivered = old.delivered
  BY <1>1 DEF Session
<1>5. sessions' = [sessions EXCEPT ![i] = s]
  BY DEF SelectLoad, Goto
<1>6. Becomes(i, s)
  BY <1>1, <1>3, <1>5, SessionUpdate
<1> QED
  BY <1>3, <1>4, <1>6

\* It advances the index.
LEMMA CountFields ==
  ASSUME TypeOK, NEW i \in DOMAIN sessions, SelectCount(i)
  PROVE  \E s \in Session :
           /\ Becomes(i, s)
           /\ s.cancelled = sessions[i].cancelled
           /\ s.phase = sessions[i].phase
           /\ s.completed = sessions[i].completed
           /\ s.at = "return"
           /\ s.saw = total
           /\ s.hand = sessions[i].hand
           /\ s.delivered = sessions[i].delivered
<1> DEFINE old == sessions[i]
           s   == [old EXCEPT !.at = "return", !.saw = total]
<1>1. old \in Session /\ sessions \in Seq(Session)
  BY DEF TypeOK
<1>2. total \in Nat
  BY DEF TypeOK
<1>3. s \in Session
  BY <1>1, <1>2 DEF Session, SelectState
<1>4. /\ s.cancelled = old.cancelled
      /\ s.phase = old.phase
      /\ s.completed = old.completed
      /\ s.at = "return"
      /\ s.saw = total
      /\ s.hand = old.hand
      /\ s.delivered = old.delivered
  BY <1>1 DEF Session
<1>5. sessions' = [sessions EXCEPT ![i] = s]
  BY DEF SelectCount, Goto
<1>6. Becomes(i, s)
  BY <1>1, <1>3, <1>5, SessionUpdate
<1> QED
  BY <1>3, <1>4, <1>6

\* It returns the piece.
LEMMA ReturnFields ==
  ASSUME TypeOK, NEW i \in DOMAIN sessions, SelectReturn(i)
  PROVE  \E s \in Session :
           /\ Becomes(i, s)
           /\ s.cancelled = sessions[i].cancelled
           /\ \/ s.phase = sessions[i].phase
              \/ s.phase = "winding" /\ sessions[i].phase = "running" /\ sessions[i].cancelled
           /\ s.completed = sessions[i].completed
           /\ s.at = "idle"
           /\ s.saw = 0
           /\ s.hand = sessions[i].hand \cup {selected}
           /\ s.delivered = sessions[i].delivered
<1>1. PICK phase \in {sessions[i].phase, "winding"} :
        /\ phase # sessions[i].phase => sessions[i].cancelled /\ sessions[i].phase = "running"
        /\ sessions' = [sessions EXCEPT ![i].at = "idle", ![i].saw = 0, ![i].phase = phase,
                                        ![i].hand = @ \cup {selected}]
  BY DEF SelectReturn
<1> DEFINE old == sessions[i]
           s   == [old EXCEPT !.at = "idle", !.saw = 0, !.phase = phase,
                              !.hand = @ \cup {selected}]
<1>2. old \in Session /\ sessions \in Seq(Session) /\ selected \in Piece
  BY DEF TypeOK, SelectReturn
<1>3. s \in Session
  BY <1>2 DEF Session, SelectState
<1>4. /\ s.cancelled = old.cancelled
      /\ s.phase = phase
      /\ s.completed = old.completed
      /\ s.at = "idle"
      /\ s.saw = 0
      /\ s.hand = old.hand \cup {selected}
      /\ s.delivered = old.delivered
  BY <1>2 DEF Session
<1>5. sessions' = [sessions EXCEPT ![i] = s]
  BY <1>1
<1>6. Becomes(i, s)
  BY <1>2, <1>3, <1>5, SessionUpdate
<1> QED
  BY <1>1, <1>3, <1>4, <1>6

\* What a delivery does.
LEMMA DeliverFields ==
  ASSUME TypeOK, NEW i \in DOMAIN sessions, NEW p \in Piece, Deliver(i, p)
  PROVE  \E s \in Session :
           /\ Becomes(i, s)
           /\ s.cancelled = sessions[i].cancelled
           /\ s.phase = sessions[i].phase
           /\ s.completed = sessions[i].completed
           /\ s.at = sessions[i].at
           /\ s.saw = sessions[i].saw
           /\ s.hand = sessions[i].hand \ {p}
           /\ s.delivered = sessions[i].delivered \cup {p}
<1> DEFINE old == sessions[i]
           s   == [old EXCEPT !.hand = @ \ {p}, !.delivered = @ \cup {p}]
<1>1. old \in Session /\ sessions \in Seq(Session)
  BY DEF TypeOK
<1>3. s \in Session
  BY <1>1 DEF Session, SelectState
<1>4. /\ s.cancelled = old.cancelled
      /\ s.phase = old.phase
      /\ s.completed = old.completed
      /\ s.at = old.at
      /\ s.saw = old.saw
      /\ s.hand = old.hand \ {p}
      /\ s.delivered = old.delivered \cup {p}
  BY <1>1 DEF Session
<1>5. sessions' = [sessions EXCEPT ![i] = s]
  BY DEF Deliver
<1>6. Becomes(i, s)
  BY <1>1, <1>3, <1>5, SessionUpdate
<1> QED
  BY <1>3, <1>4, <1>6

\* What mainRoutinesWg.Done() does.
LEMMA FinishFields ==
  ASSUME TypeOK, NEW i \in DOMAIN sessions, Finish(i)
  PROVE  \E s \in Session :
           /\ Becomes(i, s)
           /\ s.cancelled = sessions[i].cancelled
           /\ s.phase = "over"
           /\ s.completed = sessions[i].completed
           /\ s.at = sessions[i].at
           /\ s.saw = sessions[i].saw
           /\ s.hand = sessions[i].hand
           /\ s.delivered = sessions[i].delivered
<1> DEFINE old == sessions[i]
           s   == [old EXCEPT !.phase = "over"]
<1>1. old \in Session /\ sessions \in Seq(Session)
  BY DEF TypeOK
<1>3. s \in Session
  BY <1>1 DEF Session, SelectState
<1>4. /\ s.cancelled = old.cancelled
      /\ s.phase = "over"
      /\ s.completed = old.completed
      /\ s.at = old.at
      /\ s.saw = old.saw
      /\ s.hand = old.hand
      /\ s.delivered = old.delivered
  BY <1>1 DEF Session
<1>5. sessions' = [sessions EXCEPT ![i] = s]
  BY DEF Finish
<1>6. Becomes(i, s)
  BY <1>1, <1>3, <1>5, SessionUpdate
<1> QED
  BY <1>3, <1>4, <1>6

\* What the announcement does.
LEMMA AnnounceFields ==
  ASSUME TypeOK, NEW i \in DOMAIN sessions, Announce(i)
  PROVE  \E s \in Session :
           /\ Becomes(i, s)
           /\ s.cancelled = sessions[i].cancelled
           /\ s.phase = "announced"
           /\ s.completed = sessions[i].completed
           /\ s.at = sessions[i].at
           /\ s.saw = sessions[i].saw
           /\ s.hand = sessions[i].hand
           /\ s.delivered = sessions[i].delivered
<1> DEFINE old == sessions[i]
           s   == [old EXCEPT !.phase = "announced"]
<1>1. old \in Session /\ sessions \in Seq(Session)
  BY DEF TypeOK
<1>3. s \in Session
  BY <1>1 DEF Session, SelectState
<1>4. /\ s.cancelled = old.cancelled
      /\ s.phase = "announced"
      /\ s.completed = old.completed
      /\ s.at = old.at
      /\ s.saw = old.saw
      /\ s.hand = old.hand
      /\ s.delivered = old.delivered
  BY <1>1 DEF Session
<1>5. sessions' = [sessions EXCEPT ![i] = s]
  BY DEF Announce
<1>6. Becomes(i, s)
  BY <1>1, <1>3, <1>5, SessionUpdate
<1> QED
  BY <1>3, <1>4, <1>6

\* The steps of a session change the record of that session only, and do not undo
\* its cancellation, its completion or its Done.
Advances(i) ==
  /\ sessions' \in Seq(Session)
  /\ Len(sessions') = Len(sessions)
  /\ DOMAIN sessions' = DOMAIN sessions
  /\ sessions'[i].cancelled = sessions[i].cancelled
  /\ Running(i)' => Running(i)
  /\ \A j \in DOMAIN sessions : j # i => sessions'[j] = sessions[j]

LEMMA SessionAdvances ==
  ASSUME TypeOK, NEW i \in DOMAIN sessions, SessionStep(i)
  PROVE  Advances(i)
<1>1. CASE SelectTest(i)
  BY <1>1, TestFields DEF Becomes, Advances
<1>2. CASE SelectNone(i)
  BY <1>2, NoneFields DEF Becomes, Advances, SelectNone
<1>3. CASE SelectTake(i)
  BY <1>3, TakeFields DEF Becomes, Advances
<1>3a. CASE SelectLoad(i)
  BY <1>3a, LoadFields DEF Becomes, Advances
<1>4. CASE SelectPanics(i)
  BY <1>4 DEF SelectPanics, downloadVars, Advances, TypeOK
<1>5. CASE SelectCount(i)
  BY <1>5, CountFields DEF Becomes, Advances
<1>6. CASE SelectReturn(i)
  <2>1. PICK s \in Session :
          /\ Becomes(i, s) /\ s.cancelled = sessions[i].cancelled
          /\ \/ s.phase = sessions[i].phase
             \/ s.phase = "winding" /\ sessions[i].phase = "running" /\ sessions[i].cancelled
    BY <1>6, ReturnFields
  <2> QED
    BY <2>1 DEF Becomes, Advances
<1>7. ASSUME NEW p \in Piece, Deliver(i, p)
      PROVE  Advances(i)
  BY <1>7, DeliverFields DEF Becomes, Advances
<1>8. CASE Finish(i)
  BY <1>8, FinishFields DEF Becomes, Advances
<1>9. CASE Announce(i)
  BY <1>9, AnnounceFields DEF Becomes, Advances
<1> QED
  BY <1>1, <1>2, <1>3, <1>3a, <1>4, <1>5, <1>6, <1>7, <1>8, <1>9 DEF SessionStep

-----------------------------------------------------------------------------
(* Types.                                                                   *)

\* The parts of TypeOK that are not about sessions, and those that are.
ManagerOK ==
  /\ myState \in State
  /\ services \in BOOLEAN
  /\ stateChan \in {<<>>} \cup {<<c>> : c \in Command}
  /\ loop \in LoopState
  /\ handling \in Command \cup {Nil}
  /\ routers \in Nat

DownloadOK ==
  /\ index \in Nat
  /\ total \in Nat
  /\ selected \in Piece \cup {Nil}
  /\ handed \in [Piece -> Nat]
  /\ raced \in BOOLEAN

TakenOK ==
  \A i \in DOMAIN sessions :
    sessions[i].at \in {"load", "count", "return"} => selected \in Piece

AwaitedOK ==
  /\ myState = "InProgress" => sessions # <<>>
  /\ loop \in {"pausing", "stopping"} => myState = "InProgress" /\ sessions[Current].cancelled

LEMMA TypeParts ==
  /\ TypeOK <=> ManagerOK /\ sessions \in Seq(Session) /\ DownloadOK /\ TakenOK /\ AwaitedOK
  /\ TypeOK' <=> ManagerOK' /\ sessions' \in Seq(Session) /\ DownloadOK' /\ TakenOK' /\ AwaitedOK'
  BY DEF TypeOK, ManagerOK, DownloadOK, TakenOK, AwaitedOK

LEMMA ReadCommand ==
  ASSUME NEW c, Read(c), TypeOK
  PROVE  /\ loop = "select"
         /\ stateChan = <<c>>
         /\ stateChan' = <<>>
         /\ c \in Command /\ handling' = c
<1>1. PICK d \in Command : stateChan = <<d>>
  BY DEF Read, TypeOK
<1>2. c = d
  BY <1>1 DEF Read
<1> QED
  BY <1>1, <1>2 DEF Read

LEMMA SetStateOK ==
  ASSUME TypeOK, NEW c \in UserCommand, SetState(c)
  PROVE  TypeOK'
<1>1. c \in Command
  BY DEF Command
<1> QED
  BY <1>1 DEF TypeOK, SetState, managerVars, downloadVars, selectVars

LEMMA LaunchOK ==
  ASSUME TypeOK, Read("start"), Launch, services' \in BOOLEAN, routers' \in Nat
  PROVE  TypeOK'
<1>1. /\ sessions' \in Seq(Session)
      /\ Len(sessions') = Len(sessions) + 1
      /\ DOMAIN sessions' = 1..(Len(sessions) + 1)
      /\ sessions'[Len(sessions) + 1] = NewSession
      /\ \A j \in DOMAIN sessions : sessions'[j] = sessions[j]
  BY SessionLaunch DEF TypeOK, Launch
<1>2. stateChan' = <<>> /\ handling' \in Command /\ loop' = "select"
  BY ReadCommand DEF Launch
<1>3. ManagerOK'
  BY <1>2 DEF ManagerOK, Launch, State, LoopState
<1>4. DownloadOK'
  BY DEF DownloadOK, Launch, IndexAtStart, TypeOK
<1>5. TakenOK'
  <2>1. DOMAIN sessions = 1..Len(sessions) /\ Len(sessions) \in Nat
    BY DEF TypeOK
  <2>2. \A j \in DOMAIN sessions' : j \in DOMAIN sessions \/ sessions'[j].at = "idle"
    BY <1>1, <2>1 DEF NewSession
  <2>3. selected' = selected
    BY DEF Launch
  <2> QED
    BY <1>1, <2>2, <2>3 DEF TakenOK, TypeOK
<1>6. AwaitedOK'
  <2>1. sessions' # <<>>
    BY <1>1 DEF TypeOK
  <2> QED
    BY <1>2, <2>1 DEF AwaitedOK
<1> QED
  BY <1>1, <1>3, <1>4, <1>5, <1>6, TypeParts

LEMMA CancelOK ==
  ASSUME TypeOK, CancelDownload
  PROVE  /\ TypeOK'
         /\ loop = "select"
         /\ \E s \in Session :
              /\ Becomes(Current, s)
              /\ s.cancelled = TRUE
              /\ s.phase = sessions[Current].phase
              /\ s.completed = sessions[Current].completed
              /\ s.at = sessions[Current].at
              /\ s.saw = sessions[Current].saw
              /\ s.hand = sessions[Current].hand
              /\ s.delivered = sessions[Current].delivered
<1> DEFINE old == sessions[Current]
           s == [old EXCEPT !.cancelled = TRUE]
<1>1. PICK c \in {"pause", "stop", "complete"} :
        Read(c) /\ loop' \in {"pausing", "stopping"}
  BY DEF CancelDownload
<1>2. loop = "select" /\ stateChan' = <<>> /\ handling' \in Command
  BY <1>1, ReadCommand
<1>3. sessions \in Seq(Session) /\ Current \in DOMAIN sessions
  BY DEF TypeOK, CancelDownload
<1>4. old \in Session
  BY <1>3
<1>5. /\ s \in Session
      /\ s.cancelled = TRUE /\ s.phase = old.phase /\ s.completed = old.completed
      /\ s.at = old.at /\ s.saw = old.saw /\ s.hand = old.hand /\ s.delivered = old.delivered
  BY <1>4 DEF Session
<1>6. sessions' = [sessions EXCEPT ![Current] = s]
  BY DEF CancelDownload
<1>7. Becomes(Current, s)
  BY <1>3, <1>5, <1>6, SessionUpdate
<1>8. ManagerOK'
  BY <1>1, <1>2 DEF ManagerOK, CancelDownload, TypeOK, LoopState
<1>9. DownloadOK'
  BY DEF CancelDownload, DownloadOK, TypeOK, selectVars
<1>10. TakenOK'
  <2>1. \A j \in DOMAIN sessions :
          sessions'[j].at = sessions[j].at /\ sessions'[j].saw = sessions[j].saw
    BY <1>5, <1>7 DEF Becomes
  <2>2. selected' = selected /\ DOMAIN sessions' = DOMAIN sessions
    BY <1>7 DEF CancelDownload, Becomes, selectVars
  <2> QED
    BY <2>1, <2>2 DEF TakenOK, TypeOK
<1>11. AwaitedOK'
  <2>1. sessions' # <<>> /\ sessions'[Len(sessions')].cancelled
    BY <1>3, <1>5, <1>7 DEF Becomes
  <2> QED
    BY <2>1 DEF AwaitedOK, CancelDownload
<1>12. TypeOK'
  BY <1>7, <1>8, <1>9, <1>10, <1>11, TypeParts DEF Becomes
<1> QED
  BY <1>2, <1>5, <1>7, <1>12

\* The fields of selectPiece after a step of a session.
LEMMA SessionStepDownloads ==
  ASSUME TypeOK, NEW i \in DOMAIN sessions, SessionStep(i)
  PROVE  DownloadOK' /\ TakenOK'
<1>1. /\ index \in Nat /\ total \in Nat /\ handed \in [Piece -> Nat]
      /\ raced \in BOOLEAN /\ selected \in Piece \cup {Nil} /\ NPiece \in Nat
      /\ TakenOK /\ sessions[i] \in Session
  BY BoundAssumption DEF TypeOK, TakenOK
<1>2. CASE SelectTest(i)
  <2>1. PICK s \in Session : Becomes(i, s) /\ s.at = "take"
    BY <1>2, TestFields
  <2>2. raced' \in BOOLEAN
    BY <1>2 DEF SelectTest
  <2> QED
    BY <1>1, <1>2, <2>1, <2>2 DEF SelectTest, DownloadOK, TakenOK, Becomes
<1>3. CASE SelectNone(i)
  <2>1. PICK s \in Session : Becomes(i, s) /\ s.at = sessions[i].at /\ s.saw = sessions[i].saw
    BY <1>3, NoneFields
  <2> QED
    BY <1>1, <1>3, <2>1 DEF SelectNone, DownloadOK, TakenOK, Becomes, selectVars
<1>4. CASE SelectTake(i)
  <2>1. PICK s \in Session : Becomes(i, s) /\ s.at = "load"
    BY <1>4, TakeFields
  <2>2. index \in Piece /\ selected' = index
    BY <1>1, <1>4 DEF SelectTake
  <2> QED
    BY <1>1, <1>4, <2>1, <2>2 DEF SelectTake, DownloadOK, TakenOK, Becomes
<1>4a. CASE SelectLoad(i)
  <2>1. PICK s \in Session : Becomes(i, s) /\ s.at = "count"
    BY <1>4a, LoadFields
  <2>2. selected \in Piece
    BY <1>1, <1>4a DEF SelectLoad, TakenOK
  <2> QED
    BY <1>1, <1>4a, <2>1, <2>2 DEF SelectLoad, DownloadOK, TakenOK, Becomes, selectVars
<1>5. CASE SelectPanics(i)
  BY <1>1, <1>5 DEF SelectPanics, DownloadOK, TakenOK, downloadVars, selectVars
<1>6. CASE SelectCount(i)
  <2>1. PICK s \in Session : Becomes(i, s) /\ s.at = "return"
    BY <1>6, CountFields
  <2>2. sessions[i].saw \in Nat /\ index' = sessions[i].saw + 1 /\ selected \in Piece
    BY <1>1, <1>6 DEF SelectCount, TakenOK, Session
  <2>3. index' \in Nat
    BY <1>1, <2>2
  <2> QED
    BY <1>1, <1>6, <2>1, <2>2, <2>3 DEF SelectCount, DownloadOK, TakenOK, Becomes
<1>7. CASE SelectReturn(i)
  <2>1. PICK s \in Session : Becomes(i, s) /\ s.at = "idle"
    BY <1>7, ReturnFields
  <2>2. selected \in Piece /\ sessions[i].saw \in Nat /\ total' = sessions[i].saw + 1
    BY <1>1, <1>7 DEF SelectReturn, TakenOK, Session
  <2>3. handed' = [handed EXCEPT ![selected] = @ + 1]
    BY <1>7 DEF SelectReturn
  <2>4. handed' \in [Piece -> Nat] /\ total' \in Nat
    BY <1>1, <2>2, <2>3
  <2> QED
    BY <1>1, <1>7, <2>1, <2>4 DEF SelectReturn, DownloadOK, TakenOK, Becomes
<1>8. ASSUME NEW p \in Piece, Deliver(i, p)
      PROVE  DownloadOK' /\ TakenOK'
  <2>1. PICK s \in Session : Becomes(i, s) /\ s.at = sessions[i].at /\ s.saw = sessions[i].saw
    BY <1>8, DeliverFields
  <2> QED
    BY <1>1, <1>8, <2>1 DEF Deliver, DownloadOK, TakenOK, Becomes, selectVars
<1>9. CASE Finish(i)
  <2>1. PICK s \in Session : Becomes(i, s) /\ s.at = sessions[i].at /\ s.saw = sessions[i].saw
    BY <1>9, FinishFields
  <2> QED
    BY <1>1, <1>9, <2>1 DEF Finish, DownloadOK, TakenOK, Becomes, selectVars
<1>10. CASE Announce(i)
  <2>1. PICK s \in Session : Becomes(i, s) /\ s.at = sessions[i].at /\ s.saw = sessions[i].saw
    BY <1>10, AnnounceFields
  <2> QED
    BY <1>1, <1>10, <2>1 DEF Announce, DownloadOK, TakenOK, Becomes, selectVars
<1> QED
  BY <1>2, <1>3, <1>4, <1>4a, <1>5, <1>6, <1>7, <1>8, <1>9, <1>10 DEF SessionStep

\* A step of a session leaves the manager alone, but for the panic of its scheduler.
LEMMA SessionStepManager ==
  ASSUME NEW i \in DOMAIN sessions, SessionStep(i)
  PROVE  /\ UNCHANGED <<myState, services, handling, routers>>
         /\ loop' \in {loop, "panicked"}
         /\ stateChan' \in {stateChan, <<"complete">>}
  BY DEF SessionStep, SelectTest, SelectNone, SelectTake, SelectLoad, SelectPanics,
         SelectCount, SelectReturn, Deliver, Finish, Announce, managerVars

LEMMA SessionStepOK ==
  ASSUME TypeOK, NEW i \in DOMAIN sessions, SessionStep(i)
  PROVE  TypeOK'
<1>1. Advances(i)
  BY SessionAdvances
<1>2. ManagerOK'
  BY SessionStepManager DEF ManagerOK, TypeOK, Command, LoopState
<1>3. AwaitedOK'
  <2>1. Len(sessions) \in Nat /\ sessions # <<>>
    BY DEF TypeOK
  <2>2. sessions'[Len(sessions')].cancelled = sessions[Len(sessions)].cancelled
    BY <1>1, <2>1 DEF Advances, TypeOK
  <2>3. sessions' # <<>>
    BY <1>1 DEF Advances
  <2> QED
    BY <2>2, <2>3, SessionStepManager DEF AwaitedOK, TypeOK
<1> QED
  BY <1>1, <1>2, <1>3, SessionStepDownloads, TypeParts DEF Advances

\* The types hold in every state the manager and its sessions reach.
THEOREM TypeCorrect == Spec => []TypeOK
<1>1. Init => TypeOK
  <2> SUFFICES ASSUME Init PROVE TypeOK
    OBVIOUS
  <2>1. sessions \in Seq(Session)
    BY DEF Init
  <2>2. index \in Nat /\ total \in Nat /\ handed \in [Piece -> Nat]
    BY BoundAssumption DEF Init
  <2>3. DOMAIN sessions = {}
    BY DEF Init
  <2> QED
    BY <2>1, <2>2, <2>3 DEF Init, TypeOK, State, LoopState
<1>2. TypeOK /\ [Next]_vars => TypeOK'
  <2> SUFFICES ASSUME TypeOK, [Next]_vars
               PROVE  TypeOK'
    OBVIOUS
  <2>1. ASSUME NEW c \in UserCommand, SetState(c)
        PROVE  TypeOK'
    BY <2>1, SetStateOK
  <2>2. CASE StoppedStart
    <3>1. routers' \in Nat /\ services' \in BOOLEAN
      BY <2>2 DEF StoppedStart, TypeOK
    <3> QED
      BY <2>2, <3>1, LaunchOK DEF StoppedStart
  <2>3. CASE PausedStart
    <3>1. routers' \in Nat /\ services' \in BOOLEAN
      BY <2>3 DEF PausedStart, TypeOK
    <3> QED
      BY <2>3, <3>1, LaunchOK DEF PausedStart
  <2>4. CASE Ignore
    <3>1. PICK c : Read(c)
      BY <2>4 DEF Ignore
    <3>2. stateChan' = <<>> /\ handling' \in Command
      BY <3>1, ReadCommand
    <3> QED
      BY <2>4, <3>2 DEF Ignore, TypeOK, downloadVars, selectVars
  <2>5. CASE CancelDownload
    BY <2>5, CancelOK
  <2>6. CASE PauseDone
    BY <2>6 DEF PauseDone, TypeOK, State, LoopState, downloadVars, selectVars
  <2>7. CASE StopDone
    BY <2>7 DEF StopDone, TypeOK, State, LoopState, downloadVars, selectVars
  <2>8. CASE StopPanics
    BY <2>8 DEF StopPanics, TypeOK, State, LoopState, downloadVars, selectVars
  <2>9. CASE PausedStop
    <3>1. PICK c : Read(c)
      BY <2>9 DEF PausedStop
    <3>2. stateChan' = <<>> /\ handling' \in Command
      BY <3>1, ReadCommand
    <3> QED
      BY <2>9, <3>2 DEF PausedStop, TypeOK, LoopState, downloadVars, selectVars
  <2>10. ASSUME NEW i \in DOMAIN sessions, SessionStep(i)
         PROVE  TypeOK'
    BY <2>10, SessionStepOK
  <2>11. CASE UNCHANGED vars
    BY <2>11 DEF vars, managerVars, downloadVars, selectVars, TypeOK
  <2> QED
    BY <2>1, <2>2, <2>3, <2>4, <2>5, <2>6, <2>7, <2>8, <2>9, <2>10, <2>11
       DEF Next, LoopStep
<1> QED
  BY <1>1, <1>2, PTL DEF Spec

-----------------------------------------------------------------------------
(* One session at a time, and a session for every torrent in progress.      *)

Exclusive == CurrentOnly /\ CancelledIsAwaited /\ InProgressIsAlive /\ EndsForAReason

LEMMA LaunchExclusive ==
  ASSUME TypeOK, Exclusive, Launch, myState # "InProgress"
  PROVE  Exclusive'
<1>1. /\ Len(sessions') = Len(sessions) + 1
      /\ DOMAIN sessions' = 1..(Len(sessions) + 1)
      /\ sessions'[Len(sessions) + 1] = NewSession
      /\ \A j \in DOMAIN sessions : sessions'[j] = sessions[j]
  BY SessionLaunch DEF TypeOK, Launch
<1>2. Len(sessions) \in Nat /\ DOMAIN sessions = 1..Len(sessions)
  BY DEF TypeOK
<1>3. \A j \in DOMAIN sessions : sessions[j].phase \notin {"running", "winding"}
  BY DEF Exclusive, CurrentOnly
<1>4. NewSession.phase = "running" /\ ~NewSession.cancelled
  BY DEF NewSession
<1>5. CurrentOnly'
  BY <1>1, <1>2, <1>3 DEF CurrentOnly, Launch
<1>6. CancelledIsAwaited'
  BY <1>1, <1>4 DEF CancelledIsAwaited
<1>7. Running(Current)'
  BY <1>1, <1>2, <1>4
<1>8. EndsForAReason'
  BY <1>1, <1>2, <1>3, <1>4 DEF EndsForAReason
<1> QED
  BY <1>5, <1>6, <1>7, <1>8 DEF Exclusive, InProgressIsAlive

LEMMA CancelExclusive ==
  ASSUME TypeOK, Exclusive, CancelDownload
  PROVE  Exclusive'
<1>1. loop' # "select"
  BY DEF CancelDownload
<1>2. PICK s \in Session :
        /\ Becomes(Current, s) /\ s.cancelled = TRUE
        /\ s.phase = sessions[Current].phase /\ s.completed = sessions[Current].completed
  BY CancelOK
<1>3. CurrentOnly'
  BY <1>2 DEF Becomes, Exclusive, CurrentOnly, CancelDownload
<1>4. EndsForAReason'
  BY <1>2 DEF Becomes, Exclusive, EndsForAReason
<1> QED
  BY <1>1, <1>3, <1>4 DEF Exclusive, CancelledIsAwaited, InProgressIsAlive

\* What each step of a session does to what the manager waits for.
LEMMA SessionStepEnds ==
  ASSUME TypeOK, Exclusive, NEW i \in DOMAIN sessions, SessionStep(i)
  PROVE  /\ sessions'[i].phase = "winding" => sessions'[i].cancelled \/ sessions'[i].completed
         /\ \/ Announce(i)
            \/ /\ Finish(i) /\ stateChan' = stateChan
               /\ sessions'[i].phase = "over" /\ sessions'[i].completed = sessions[i].completed
            \/ /\ Running(i) /\ stateChan' = stateChan
               /\ sessions'[i].phase \in {"running", "winding"}
            \/ /\ sessions'[i].phase = sessions[i].phase /\ stateChan' = stateChan
               /\ sessions'[i].completed = sessions[i].completed
<1>1. sessions[i].phase = "winding" => sessions[i].cancelled \/ sessions[i].completed
  BY DEF Exclusive, EndsForAReason
<1>2. CASE SelectTest(i)
  <2>1. PICK s \in Session :
          /\ Becomes(i, s) /\ s.cancelled = sessions[i].cancelled
          /\ s.phase = sessions[i].phase /\ s.completed = sessions[i].completed
    BY <1>2, TestFields
  <2> QED
    BY <1>1, <1>2, <2>1 DEF Becomes, SelectTest
<1>3. CASE SelectNone(i)
  <2>1. PICK s \in Session : Becomes(i, s) /\ s.phase = "winding" /\ s.completed = TRUE
    BY <1>3, NoneFields
  <2> QED
    BY <1>3, <2>1 DEF Becomes, SelectNone
<1>4. CASE SelectTake(i)
  <2>1. PICK s \in Session :
          /\ Becomes(i, s) /\ s.cancelled = sessions[i].cancelled
          /\ s.phase = sessions[i].phase /\ s.completed = sessions[i].completed
    BY <1>4, TakeFields
  <2> QED
    BY <1>1, <1>4, <2>1 DEF Becomes, SelectTake
<1>4a. CASE SelectLoad(i)
  <2>1. PICK s \in Session :
          /\ Becomes(i, s) /\ s.cancelled = sessions[i].cancelled
          /\ s.phase = sessions[i].phase /\ s.completed = sessions[i].completed
    BY <1>4a, LoadFields
  <2> QED
    BY <1>1, <1>4a, <2>1 DEF Becomes, SelectLoad
<1>5. CASE SelectPanics(i)
  BY <1>1, <1>5 DEF SelectPanics, downloadVars
<1>6. CASE SelectCount(i)
  <2>1. PICK s \in Session :
          /\ Becomes(i, s) /\ s.cancelled = sessions[i].cancelled
          /\ s.phase = sessions[i].phase /\ s.completed = sessions[i].completed
    BY <1>6, CountFields
  <2> QED
    BY <1>1, <1>6, <2>1 DEF Becomes, SelectCount
<1>7. CASE SelectReturn(i)
  <2>1. PICK s \in Session :
          /\ Becomes(i, s) /\ s.cancelled = sessions[i].cancelled
          /\ \/ s.phase = sessions[i].phase
             \/ s.phase = "winding" /\ sessions[i].phase = "running" /\ sessions[i].cancelled
          /\ s.completed = sessions[i].completed
    BY <1>7, ReturnFields
  <2> QED
    BY <1>1, <1>7, <2>1 DEF Becomes, SelectReturn
<1>8. ASSUME NEW p \in Piece, Deliver(i, p)
      PROVE  /\ sessions'[i].phase = "winding" => sessions'[i].cancelled \/ sessions'[i].completed
             /\ sessions'[i].phase = sessions[i].phase /\ stateChan' = stateChan
             /\ sessions'[i].completed = sessions[i].completed
  <2>1. PICK s \in Session :
          /\ Becomes(i, s) /\ s.cancelled = sessions[i].cancelled
          /\ s.phase = sessions[i].phase /\ s.completed = sessions[i].completed
    BY <1>8, DeliverFields
  <2> QED
    BY <1>1, <1>8, <2>1 DEF Becomes, Deliver
<1>9. CASE Finish(i)
  <2>1. PICK s \in Session :
          Becomes(i, s) /\ s.phase = "over" /\ s.completed = sessions[i].completed
    BY <1>9, FinishFields
  <2> QED
    BY <1>9, <2>1 DEF Becomes, Finish
<1>10. CASE Announce(i)
  <2>1. PICK s \in Session : Becomes(i, s) /\ s.phase = "announced"
    BY <1>10, AnnounceFields
  <2> QED
    BY <1>10, <2>1 DEF Becomes
<1> QED
  BY <1>2, <1>3, <1>4, <1>4a, <1>5, <1>6, <1>7, <1>8, <1>9, <1>10 DEF SessionStep

LEMMA SessionStepExclusive ==
  ASSUME TypeOK, Exclusive, NEW i \in DOMAIN sessions, SessionStep(i)
  PROVE  Exclusive'
<1>1. Advances(i)
  BY SessionAdvances
<1>2. myState' = myState /\ loop' \in {loop, "panicked"}
  BY SessionStepManager
<1>3. \A j \in DOMAIN sessions :
        sessions'[j].cancelled = sessions[j].cancelled /\ (Running(j)' => Running(j))
  BY <1>1 DEF Advances
<1>4. CurrentOnly'
  BY <1>1, <1>2, <1>3 DEF Advances, Exclusive, CurrentOnly
<1>5. CancelledIsAwaited'
  <2>1. myState = "InProgress" => Len(sessions) \in DOMAIN sessions
    BY DEF TypeOK
  <2> QED
    BY <1>1, <1>2, <1>3, <2>1 DEF Advances, Exclusive, CancelledIsAwaited
<1>6. EndsForAReason'
  BY <1>1, SessionStepEnds DEF Advances, Exclusive, EndsForAReason
<1>7. InProgressIsAlive'
  <2> SUFFICES ASSUME myState = "InProgress", loop = "select"
               PROVE  InProgressIsAlive'
    BY <1>2 DEF InProgressIsAlive
  <2>1. Len(sessions) \in DOMAIN sessions /\ ~sessions[Len(sessions)].cancelled
    BY DEF TypeOK, Exclusive, CancelledIsAwaited
  <2>2. CASE Announce(i)
    BY <2>2 DEF Announce, InProgressIsAlive
  <2>3. CASE /\ Finish(i)
             /\ sessions'[i].phase = "over" /\ sessions'[i].completed = sessions[i].completed
    <3>1. i = Len(sessions) /\ sessions[i].completed
      BY <2>1, <2>3 DEF Finish, Exclusive, CurrentOnly, EndsForAReason
    <3> QED
      BY <1>1, <2>1, <2>3, <3>1 DEF Advances, InProgressIsAlive
  <2>4. CASE Running(i) /\ sessions'[i].phase \in {"running", "winding"}
    <3>1. i = Len(sessions)
      BY <2>4 DEF Exclusive, CurrentOnly
    <3> QED
      BY <1>1, <2>1, <2>4, <3>1 DEF Advances, InProgressIsAlive
  <2>5. CASE /\ sessions'[i].phase = sessions[i].phase /\ stateChan' = stateChan
             /\ sessions'[i].completed = sessions[i].completed
    <3>1. /\ sessions'[Len(sessions)].phase = sessions[Len(sessions)].phase
          /\ sessions'[Len(sessions)].completed = sessions[Len(sessions)].completed
      BY <1>1, <2>1, <2>5 DEF Advances
    <3> QED
      BY <1>1, <2>1, <2>5, <3>1 DEF Advances, InProgressIsAlive, Exclusive
  <2> QED
    BY <2>2, <2>3, <2>4, <2>5, SessionStepEnds
<1> QED
  BY <1>4, <1>5, <1>6, <1>7 DEF Exclusive

\* What the manager's own steps leave alone decides of all four.
LEMMA ExclusiveUnchanged ==
  ASSUME Exclusive, UNCHANGED <<myState, loop, sessions>>,
         myState = "InProgress" /\ stateChan = <<"complete">> => stateChan' = stateChan
  PROVE  Exclusive'
  BY DEF Exclusive, CurrentOnly, CancelledIsAwaited, InProgressIsAlive, EndsForAReason

\* The inductive step: one case per action.
LEMMA ExclusiveStep ==
  ASSUME TypeOK, Exclusive, [Next]_vars
  PROVE  Exclusive'
<1>1. ASSUME NEW c \in UserCommand, SetState(c)
      PROVE  Exclusive'
  BY <1>1, ExclusiveUnchanged DEF SetState, managerVars, downloadVars
<1>2. CASE StoppedStart
  BY <1>2, LaunchExclusive DEF StoppedStart
<1>3. CASE PausedStart
  BY <1>3, LaunchExclusive DEF PausedStart
<1>4. CASE Ignore
  <2>1. myState = "InProgress" => stateChan # <<"complete">>
    BY <1>4 DEF Ignore, Read
  <2> QED
    BY <1>4, <2>1, ExclusiveUnchanged DEF Ignore, downloadVars
<1>5. CASE CancelDownload
  BY <1>5, CancelExclusive
<1>6. CASE PauseDone \/ StopDone
  <2>1. ~Running(Current) /\ myState' # "InProgress" /\ sessions' = sessions
    BY <1>6 DEF PauseDone, StopDone, WaitReturns, downloadVars
  <2>2. \A i \in DOMAIN sessions : ~Running(i)
    BY <2>1 DEF Exclusive, CurrentOnly
  <2> QED
    BY <2>1, <2>2 DEF Exclusive, CurrentOnly, CancelledIsAwaited, InProgressIsAlive, EndsForAReason
<1>7. CASE StopPanics \/ PausedStop
  <2>1. loop' = "panicked" /\ UNCHANGED <<myState, sessions>>
    BY <1>7 DEF StopPanics, PausedStop, downloadVars
  <2> QED
    BY <2>1 DEF Exclusive, CurrentOnly, CancelledIsAwaited, InProgressIsAlive, EndsForAReason
<1>8. ASSUME NEW i \in DOMAIN sessions, SessionStep(i)
      PROVE  Exclusive'
  BY <1>8, SessionStepExclusive
<1>9. CASE UNCHANGED vars
  BY <1>9, ExclusiveUnchanged DEF vars, managerVars, downloadVars
<1> QED
  BY <1>1, <1>2, <1>3, <1>4, <1>5, <1>6, <1>7, <1>8, <1>9 DEF Next, LoopStep

\* Only the last session runs, only while the torrent is in progress; it is cancelled
\* only to be waited for; a torrent in progress is alive.
THEOREM ExclusiveHolds == Spec => []Exclusive
<1>1. Init => Exclusive
  BY DEF Init, Exclusive, CurrentOnly, CancelledIsAwaited, InProgressIsAlive, EndsForAReason
<1> QED
  BY <1>1, TypeCorrect, ExclusiveStep, PTL DEF Spec

\* start, pause, stop and completion in any order never have two sessions use the
\* pieces and the channels of the Downloader at a time.
THEOREM OneSessionHolds == Spec => []OneSession
<1>1. Exclusive => OneSession
  BY DEF Exclusive, CurrentOnly, OneSession
<1> QED
  BY <1>1, ExclusiveHolds, PTL

\* A torrent in progress has a session, or a completion the event loop will read.
THEOREM InProgressIsAliveHolds == Spec => []InProgressIsAlive
<1>1. Exclusive => InProgressIsAlive
  BY DEF Exclusive
<1> QED
  BY <1>1, ExclusiveHolds, PTL

-----------------------------------------------------------------------------
(* No piece twice, as long as no two schedulers have met in selectPiece.    *)

Selected == Selection /\ CompletedIsLast

\* What Selected says of one session.
LEMMA SelectedFacts ==
  ASSUME TypeOK, Exclusive, Selected, NEW i \in DOMAIN sessions
  PROVE  /\ total \in Nat /\ index \in Nat /\ NPiece \in Nat /\ total <= NPiece
         /\ Inside(i) => total < NPiece /\ Works(i)
         /\ sessions[i].at \in {"take", "load", "count"} => index = total
         /\ sessions[i].at = "return" => index = total + 1
         /\ sessions[i].at \in {"load", "count", "return"} => selected = total
         /\ sessions[i].at \in {"count", "return"} => sessions[i].saw = total
         /\ sessions[i].completed => total = NPiece
<1>1. total \in Nat /\ index \in Nat /\ NPiece \in Nat
  BY BoundAssumption DEF TypeOK
<1> QED
  BY <1>1 DEF Selected, Selection, Expected, CompletedIsLast

\* A step that moves no scheduler and none of the fields, completes no session but for
\* good, and ends none whose scheduler is in selectPiece.
LEMMA SelectedKept ==
  ASSUME TypeOK, Selected, UNCHANGED <<index, total, selected, handed>>,
         DOMAIN sessions' = DOMAIN sessions,
         \A j \in DOMAIN sessions :
           /\ sessions'[j].at = sessions[j].at
           /\ sessions'[j].saw = sessions[j].saw
           /\ sessions'[j].completed => sessions[j].completed \/ total >= NPiece
           /\ Inside(j) => Works(j)'
  PROVE  Selected'
<1>1. \A j \in DOMAIN sessions : Inside(j)' <=> Inside(j)
  BY DEF Inside
<1>2. Alone'
  BY <1>1 DEF Selected, Selection, Alone
<1>3. \A j \in DOMAIN sessions : Expected(j)'
  BY <1>1 DEF Selected, Selection, Expected
<1>4. Selection'
  BY <1>1, <1>2, <1>3 DEF Selected, Selection
<1>5. CompletedIsLast'
  BY DEF Selected, CompletedIsLast
<1> QED
  BY <1>4, <1>5 DEF Selected

LEMMA LaunchSelected ==
  ASSUME TypeOK, Selected, Launch
  PROVE  Selected'
<1>1. /\ DOMAIN sessions' = 1..(Len(sessions) + 1)
      /\ sessions'[Len(sessions) + 1] = NewSession
      /\ \A j \in DOMAIN sessions : sessions'[j] = sessions[j]
  BY SessionLaunch DEF TypeOK, Launch
<1>2. DOMAIN sessions = 1..Len(sessions) /\ Len(sessions) \in Nat
  BY DEF TypeOK
<1>3. /\ DOMAIN sessions \subseteq DOMAIN sessions'
      /\ \A j \in DOMAIN sessions' : j \in DOMAIN sessions \/ sessions'[j] = NewSession
  BY <1>1, <1>2
<1>4. UNCHANGED <<index, total, selected, handed>>
  BY DEF Launch, IndexAtStart
<1>5. NewSession.at = "idle" /\ ~NewSession.completed
  BY DEF NewSession
<1>6. \A j \in DOMAIN sessions' : j \in DOMAIN sessions \/ ~Inside(j)'
  BY <1>3, <1>5 DEF Inside
<1>7. \A j \in DOMAIN sessions : (Inside(j)' <=> Inside(j)) /\ (Works(j)' <=> Works(j))
  BY <1>1, <1>3 DEF Inside, Works
<1>8. Alone'
  BY <1>6, <1>7 DEF Selected, Selection, Alone
<1>9. \A j \in DOMAIN sessions' : Expected(j)'
  <2>1. ASSUME NEW j \in DOMAIN sessions
        PROVE  Expected(j)'
    BY <1>1, <1>4, <1>7 DEF Selected, Selection, Expected
  <2>2. ASSUME NEW j \in DOMAIN sessions', sessions'[j] = NewSession
        PROVE  Expected(j)'
    BY <2>2, <1>5 DEF Expected, Inside
  <2> QED
    BY <1>3, <2>1, <2>2
<1>10. (\A j \in DOMAIN sessions' : ~Inside(j)') => index' = total'
  BY <1>3, <1>4, <1>7 DEF Selected, Selection
<1>11. Selection'
  BY <1>4, <1>8, <1>9, <1>10 DEF Selected, Selection
<1>12. CompletedIsLast'
  BY <1>1, <1>3, <1>4, <1>5 DEF Selected, CompletedIsLast
<1> QED
  BY <1>11, <1>12 DEF Selected

\* A step of the one scheduler inside: the others stay outside, and it is still inside.
LEMMA InsideStep ==
  ASSUME TypeOK, Selected, NEW i \in DOMAIN sessions, NEW s \in Session, Becomes(i, s),
         \A j \in DOMAIN sessions : j # i => ~Inside(j),
         s.at # "idle", s.completed => sessions[i].completed,
         UNCHANGED <<total, handed>>,
         Expected(i)'
  PROVE  Selected'
<1>1. /\ DOMAIN sessions' = DOMAIN sessions /\ sessions'[i] = s
      /\ \A j \in DOMAIN sessions : j # i => sessions'[j] = sessions[j]
  BY DEF Becomes
<1>2. \A j \in DOMAIN sessions : j # i => ~Inside(j)'
  BY <1>1 DEF Inside
<1>3. Inside(i)'
  BY <1>1 DEF Inside
<1>4. Alone'
  BY <1>1, <1>2 DEF Alone
<1>5. \A j \in DOMAIN sessions : j # i => Expected(j)'
  BY <1>2 DEF Expected, Inside
<1>6. Selection'
  BY <1>1, <1>3, <1>4, <1>5 DEF Selected, Selection
<1>7. CompletedIsLast'
  BY <1>1 DEF Selected, CompletedIsLast
<1> QED
  BY <1>6, <1>7 DEF Selected

LEMMA TestSelected ==
  ASSUME TypeOK, Exclusive, Selected, ~raced', NEW i \in DOMAIN sessions, SelectTest(i)
  PROVE  Selected'
<1>1. \A j \in DOMAIN sessions : ~Inside(j)
  BY DEF SelectTest, Inside
<1>2. PICK s \in Session :
        /\ Becomes(i, s)
        /\ s.cancelled = sessions[i].cancelled /\ s.phase = sessions[i].phase
        /\ s.completed = sessions[i].completed /\ s.at = "take"
  BY TestFields
<1>3. total < NPiece /\ index = total /\ Works(i) /\ UNCHANGED <<index, total, handed>>
  BY <1>1 DEF SelectTest, Selected, Selection
<1>4. Works(i)'
  BY <1>2, <1>3 DEF Works, Becomes
<1>5. Expected(i)'
  BY <1>2, <1>3, <1>4 DEF Expected, Becomes
<1> QED
  BY <1>1, <1>2, <1>3, <1>5, InsideStep

LEMMA TakeSelected ==
  ASSUME TypeOK, Exclusive, Selected, NEW i \in DOMAIN sessions, SelectTake(i)
  PROVE  Selected'
<1>1. Inside(i) /\ \A j \in DOMAIN sessions : j # i => ~Inside(j)
  BY DEF SelectTake, Inside, Selected, Selection, Alone
<1>2. PICK s \in Session :
        /\ Becomes(i, s)
        /\ s.cancelled = sessions[i].cancelled /\ s.phase = sessions[i].phase
        /\ s.completed = sessions[i].completed /\ s.at = "load"
  BY TakeFields
<1>3. total < NPiece /\ index = total /\ Works(i)
  BY <1>1, SelectedFacts DEF SelectTake
<1>4. UNCHANGED <<index, total, handed>> /\ selected' = index
  BY DEF SelectTake
<1>5. Works(i)'
  BY <1>2, <1>3 DEF Works, Becomes
<1>6. Expected(i)'
  BY <1>2, <1>3, <1>4, <1>5 DEF Expected, Becomes
<1> QED
  BY <1>1, <1>2, <1>4, <1>6, InsideStep

LEMMA LoadSelected ==
  ASSUME TypeOK, Exclusive, Selected, NEW i \in DOMAIN sessions, SelectLoad(i)
  PROVE  Selected'
<1>1. Inside(i) /\ \A j \in DOMAIN sessions : j # i => ~Inside(j)
  BY DEF SelectLoad, Inside, Selected, Selection, Alone
<1>2. PICK s \in Session :
        /\ Becomes(i, s)
        /\ s.cancelled = sessions[i].cancelled /\ s.phase = sessions[i].phase
        /\ s.completed = sessions[i].completed /\ s.at = "count" /\ s.saw = index
  BY LoadFields
<1>3. total < NPiece /\ index = total /\ selected = total /\ Works(i)
  BY <1>1, SelectedFacts DEF SelectLoad
<1>4. UNCHANGED <<index, total, selected, handed>>
  BY DEF SelectLoad, selectVars
<1>5. Works(i)'
  BY <1>2, <1>3 DEF Works, Becomes
<1>6. Expected(i)'
  BY <1>2, <1>3, <1>4, <1>5 DEF Expected, Becomes
<1> QED
  BY <1>1, <1>2, <1>4, <1>6, InsideStep

LEMMA CountSelected ==
  ASSUME TypeOK, Exclusive, Selected, NEW i \in DOMAIN sessions, SelectCount(i)
  PROVE  Selected'
<1>1. Inside(i) /\ \A j \in DOMAIN sessions : j # i => ~Inside(j)
  BY DEF SelectCount, Inside, Selected, Selection, Alone
<1>2. PICK s \in Session :
        /\ Becomes(i, s)
        /\ s.cancelled = sessions[i].cancelled /\ s.phase = sessions[i].phase
        /\ s.completed = sessions[i].completed /\ s.at = "return" /\ s.saw = total
  BY CountFields
<1>3. total < NPiece /\ selected = total /\ sessions[i].saw = total /\ Works(i)
  BY <1>1, SelectedFacts DEF SelectCount
<1>4. UNCHANGED <<total, selected, handed>> /\ index' = total + 1
  BY <1>3 DEF SelectCount
<1>5. Works(i)'
  BY <1>2, <1>3 DEF Works, Becomes
<1>6. Expected(i)'
  BY <1>2, <1>3, <1>4, <1>5 DEF Expected, Becomes
<1> QED
  BY <1>1, <1>2, <1>4, <1>6, InsideStep

\* The piece is handed out and the total catches up with the index.
LEMMA ReturnSelected ==
  ASSUME TypeOK, Exclusive, Selected, NEW i \in DOMAIN sessions, SelectReturn(i)
  PROVE  Selected'
<1>1. Inside(i) /\ \A j \in DOMAIN sessions : j # i => ~Inside(j)
  BY DEF SelectReturn, Inside, Selected, Selection, Alone
<1>2. PICK s \in Session :
        Becomes(i, s) /\ s.completed = sessions[i].completed /\ s.at = "idle"
  BY ReturnFields
<1>3. /\ total \in Nat /\ NPiece \in Nat /\ total < NPiece
      /\ selected = total /\ sessions[i].saw = total /\ index = total + 1
  BY <1>1, SelectedFacts DEF SelectReturn
<1>4. total' = total + 1 /\ index' = total + 1 /\ handed' = [handed EXCEPT ![total] = @ + 1]
  BY <1>3 DEF SelectReturn
<1>5. /\ DOMAIN sessions' = DOMAIN sessions /\ sessions'[i] = s
      /\ \A j \in DOMAIN sessions : j # i => sessions'[j] = sessions[j]
  BY <1>2 DEF Becomes
<1>6. \A j \in DOMAIN sessions : ~Inside(j)'
  BY <1>1, <1>2, <1>5 DEF Inside
<1>7. ASSUME NEW p \in Piece
      PROVE  handed'[p] = IF p < total + 1 THEN 1 ELSE 0
  <2>1. handed[p] = IF p < total THEN 1 ELSE 0
    BY DEF Selected, Selection
  <2>2. handed'[p] = IF p = total THEN handed[p] + 1 ELSE handed[p]
    BY <1>4 DEF TypeOK
  <2>3. p \in Int /\ total \in Int
    BY <1>3
  <2> QED
    BY <2>1, <2>2, <2>3
<1>8. \A j \in DOMAIN sessions : Expected(j)'
  BY <1>6 DEF Expected, Inside
<1>9. Alone'
  BY <1>5, <1>6 DEF Alone
<1>10. total' <= NPiece
  BY <1>3, <1>4
<1>11. \A p \in Piece : handed'[p] = IF p < total' THEN 1 ELSE 0
  BY <1>4, <1>7
<1>12. Selection'
  BY <1>4, <1>5, <1>8, <1>9, <1>10, <1>11 DEF Selection
<1>13. CompletedIsLast'
  <2>1. \A j \in DOMAIN sessions : ~sessions[j].completed
    BY <1>3, SelectedFacts
  <2> QED
    BY <1>2, <1>5, <2>1 DEF CompletedIsLast
<1> QED
  BY <1>12, <1>13 DEF Selected

\* The steps outside selectPiece: a session ends only when its scheduler is out of it.
LEMMA OutsideSelected ==
  ASSUME TypeOK, Exclusive, Selected, NEW i \in DOMAIN sessions,
         \/ SelectNone(i) \/ SelectPanics(i) \/ (\E p \in Piece : Deliver(i, p))
         \/ Finish(i) \/ Announce(i)
  PROVE  Selected'
<1>1. UNCHANGED <<index, total, selected, handed>>
  BY DEF SelectNone, SelectPanics, Deliver, Finish, Announce, downloadVars, selectVars
<1>2. Inside(i) => total < NPiece /\ Works(i)
  BY SelectedFacts
<1>3. CASE SelectPanics(i)
  <2>1. sessions' = sessions
    BY <1>3 DEF SelectPanics, downloadVars
  <2>2. \A j \in DOMAIN sessions : Inside(j) => Works(j)'
    BY <2>1, SelectedFacts DEF Works
  <2> QED
    BY <1>1, <2>1, <2>2, SelectedKept
<1>4. CASE ~SelectPanics(i)
  <2>1. PICK s \in Session :
          /\ Becomes(i, s)
          /\ s.cancelled = sessions[i].cancelled
          /\ s.at = sessions[i].at /\ s.saw = sessions[i].saw
          /\ s.completed => sessions[i].completed \/ total >= NPiece
          /\ Inside(i) => s.cancelled \/ s.phase \in {"running", "winding"}
    <3>1. CASE SelectNone(i)
      <4>1. PICK s \in Session :
              /\ Becomes(i, s) /\ s.cancelled = sessions[i].cancelled /\ s.phase = "winding"
              /\ s.at = sessions[i].at /\ s.saw = sessions[i].saw
        BY <3>1, NoneFields
      <4> QED
        BY <3>1, <4>1 DEF SelectNone
    <3>2. ASSUME NEW p \in Piece, Deliver(i, p)
          PROVE  \E s \in Session :
                   /\ Becomes(i, s)
                   /\ s.cancelled = sessions[i].cancelled
                   /\ s.at = sessions[i].at /\ s.saw = sessions[i].saw
                   /\ s.completed => sessions[i].completed \/ total >= NPiece
                   /\ Inside(i) => s.cancelled \/ s.phase \in {"running", "winding"}
      <4>1. PICK s \in Session :
              /\ Becomes(i, s) /\ s.cancelled = sessions[i].cancelled
              /\ s.phase = sessions[i].phase /\ s.completed = sessions[i].completed
              /\ s.at = sessions[i].at /\ s.saw = sessions[i].saw
        BY <3>2, DeliverFields
      <4> QED
        BY <1>2, <4>1 DEF Works
    <3>3. CASE Finish(i)
      <4>1. PICK s \in Session :
              /\ Becomes(i, s) /\ s.cancelled = sessions[i].cancelled
              /\ s.completed = sessions[i].completed
              /\ s.at = sessions[i].at /\ s.saw = sessions[i].saw
        BY <3>3, FinishFields
      <4>2. sessions[i].cancelled \/ sessions[i].completed
        BY <3>3 DEF Finish, Exclusive, EndsForAReason
      <4>3. sessions[i].completed => ~Inside(i)
        <5>1. total \in Nat /\ (sessions[i].completed => total = NPiece)
          BY SelectedFacts
        <5> QED
          BY <1>2, <5>1
      <4> QED
        BY <4>1, <4>2, <4>3
    <3>4. CASE Announce(i)
      <4>1. PICK s \in Session :
              /\ Becomes(i, s) /\ s.cancelled = sessions[i].cancelled
              /\ s.completed = sessions[i].completed
              /\ s.at = sessions[i].at /\ s.saw = sessions[i].saw
        BY <3>4, AnnounceFields
      <4>2. Inside(i) => sessions[i].cancelled
        BY <1>2, <3>4 DEF Announce, Works
      <4> QED
        BY <4>1, <4>2
    <3> QED
      BY <1>4, <3>1, <3>2, <3>3, <3>4
  <2>2. /\ DOMAIN sessions' = DOMAIN sessions /\ sessions'[i] = s
        /\ \A j \in DOMAIN sessions : j # i => sessions'[j] = sessions[j]
    BY <2>1 DEF Becomes
  <2>3. ASSUME NEW j \in DOMAIN sessions
        PROVE  /\ sessions'[j].at = sessions[j].at
               /\ sessions'[j].saw = sessions[j].saw
               /\ sessions'[j].completed => sessions[j].completed \/ total >= NPiece
               /\ Inside(j) => Works(j)'
    <3>1. CASE j = i
      BY <2>1, <2>2, <3>1 DEF Works
    <3>2. CASE j # i
      <4>1. sessions'[j] = sessions[j]
        BY <2>2, <3>2
      <4>2. Inside(j) => Works(j)
        BY SelectedFacts
      <4> QED
        BY <2>2, <4>1, <4>2 DEF Works
    <3> QED
      BY <3>1, <3>2
  <2> QED
    BY <1>1, <2>2, <2>3, SelectedKept
<1> QED
  BY <1>3, <1>4

LEMMA SelectedStep ==
  ASSUME TypeOK, Exclusive, ~raced => Selected, [Next]_vars, ~raced'
  PROVE  Selected'
<1>1. CASE StoppedStart \/ PausedStart
  <2>1. Launch /\ ~raced
    BY <1>1 DEF StoppedStart, PausedStart, Launch
  <2> QED
    BY <2>1, LaunchSelected
<1>2. CASE CancelDownload
  <2>1. PICK s \in Session :
          /\ Becomes(Current, s) /\ s.cancelled = TRUE
          /\ s.completed = sessions[Current].completed
          /\ s.at = sessions[Current].at /\ s.saw = sessions[Current].saw
    BY <1>2, CancelOK
  <2>2. UNCHANGED <<index, total, selected, handed>> /\ ~raced
    BY <1>2 DEF CancelDownload, selectVars
  <2>3. Selected
    BY <2>2
  <2>4. \A j \in DOMAIN sessions : Inside(j) => Works(j)
    BY <2>3, SelectedFacts
  <2>5. \A j \in DOMAIN sessions :
          /\ sessions'[j].at = sessions[j].at
          /\ sessions'[j].saw = sessions[j].saw
          /\ sessions'[j].completed => sessions[j].completed \/ total >= NPiece
          /\ Inside(j) => Works(j)'
    BY <2>1, <2>4 DEF Becomes, Works
  <2>6. DOMAIN sessions' = DOMAIN sessions
    BY <2>1 DEF Becomes
  <2> QED
    BY <2>2, <2>3, <2>5, <2>6, SelectedKept
<1>3. CASE UNCHANGED downloadVars
  <2>1. UNCHANGED <<sessions, index, total, selected, handed>> /\ ~raced
    BY <1>3 DEF downloadVars, selectVars
  <2>2. \A j \in DOMAIN sessions : Inside(j) => Works(j)'
    BY <2>1, SelectedFacts DEF Works
  <2> QED
    BY <2>1, <2>2, SelectedKept
<1>4. ASSUME NEW i \in DOMAIN sessions, SessionStep(i)
      PROVE  Selected'
  <2>1. Selected
    BY <1>4 DEF SessionStep, SelectTest, SelectNone, SelectTake, SelectLoad, SelectPanics,
                SelectCount, SelectReturn, Deliver, Finish, Announce, downloadVars,
                selectVars
  <2> QED
    BY <1>4, <2>1, TestSelected, TakeSelected, LoadSelected, CountSelected, ReturnSelected,
       OutsideSelected DEF SessionStep
<1> QED
  BY <1>1, <1>2, <1>3, <1>4
     DEF Next, LoopStep, SetState, Ignore, PauseDone, StopDone, StopPanics, PausedStop, vars

\* As long as no two schedulers have met, index and total say exactly which pieces have
\* been handed out, and after a completion none is left for anybody.
THEOREM SelectionHolds == Spec => [](~raced => Selected)
<1>1. Init => Selected
  <2> SUFFICES ASSUME Init PROVE Selected
    OBVIOUS
  <2>1. DOMAIN sessions = {}
    BY DEF Init
  <2> QED
    BY <2>1, BoundAssumption
       DEF Init, Selected, Selection, Alone, Inside, Expected, CompletedIsLast
<1>2. TypeOK /\ Exclusive /\ (~raced => Selected) /\ [Next]_vars => (~raced => Selected)'
  BY SelectedStep
<1> QED
  BY <1>1, <1>2, TypeCorrect, ExclusiveHolds, PTL DEF Spec

\* No piece is handed to a worker twice, over all the sessions of a torrent, whatever
\* the late schedulers of cancelled sessions do, unless two have met in selectPiece.
THEOREM HandedOnceHolds == Spec => []HandedOnce
<1>1. TypeOK /\ (~raced => Selected) => HandedOnce
  BY DEF Selected, Selection, HandedOnce
<1> QED
  BY <1>1, SelectionHolds, TypeCorrect, PTL

\* The whole inductive invariant.
THEOREM InvariantHolds == Spec => []IInv
<1>1. TypeOK /\ Exclusive /\ (~raced => Selected) => IInv
  BY DEF Exclusive, Selected, IInv
<1> QED
  BY <1>1, TypeCorrect, ExclusiveHolds, SelectionHolds, PTL

-----------------------------------------------------------------------------
(* The sessions keep SessionContract.                                       *)

\* A session whose record stays as it is notices only that the total moves.
LEMMA Unnoticed ==
  ASSUME NEW i \in DOMAIN sessions, i \in DOMAIN sessions', sessions'[i] = sessions[i],
         total' = total, loop # "panicked", loop' # "panicked"
  PROVE  UNCHANGED Contract(i)!vars
<1>1. PhaseOf(i)' = PhaseOf(i)
  BY DEF PhaseOf
<1>2. (loop = "panicked")' = (loop = "panicked")
  BY Zenon
<1> QED
  BY <1>1, <1>2 DEF Contract!vars

\* The end of the process, for every session.
LEMMA AllDie ==
  ASSUME NEW i \in DOMAIN sessions, UNCHANGED <<sessions, total>>,
         loop # "panicked", loop' = "panicked"
  PROVE  Contract(i)!Next
<1>1. PhaseOf(i)' = PhaseOf(i)
  BY DEF PhaseOf
<1> QED
  BY <1>1 DEF Contract!Next, Contract!Die

\* The steps of a session in selectPiece: only the last one hands out a piece.
LEMMA SelectingKeeps ==
  ASSUME TypeOK, Exclusive, Selected, NEW i \in DOMAIN sessions,
         loop # "panicked", loop' = loop,
         SelectTest(i) \/ SelectNone(i) \/ SelectTake(i) \/ SelectLoad(i) \/ SelectCount(i)
  PROVE  UNCHANGED Contract(i)!vars
<1>1. PICK s \in Session :
        /\ Becomes(i, s)
        /\ s.cancelled = sessions[i].cancelled
        /\ s.phase = sessions[i].phase \/ (SelectNone(i) /\ s.phase = "winding")
        /\ s.hand = sessions[i].hand /\ s.delivered = sessions[i].delivered
  BY TestFields, NoneFields, TakeFields, LoadFields, CountFields
<1>2. PhaseOf(i)' = PhaseOf(i)
  BY <1>1 DEF PhaseOf, Becomes, SelectNone
<1>3. total' = total
  BY DEF SelectTest, SelectNone, SelectTake, SelectLoad, SelectCount, selectVars
<1>4. (loop = "panicked")' = (loop = "panicked")
  BY Zenon
<1> QED
  BY <1>1, <1>2, <1>3, <1>4 DEF Contract!vars, Becomes

LEMMA ReturnKeeps ==
  ASSUME TypeOK, Exclusive, Selected, NEW i \in DOMAIN sessions,
         loop # "panicked", loop' = loop, SelectReturn(i)
  PROVE  Contract(i)!Next
<1>1. PICK s \in Session :
        /\ Becomes(i, s)
        /\ s.cancelled = sessions[i].cancelled
        /\ \/ s.phase = sessions[i].phase
           \/ s.phase = "winding" /\ sessions[i].phase = "running" /\ sessions[i].cancelled
        /\ s.hand = sessions[i].hand \cup {selected}
        /\ s.delivered = sessions[i].delivered
  BY ReturnFields
<1>2. Inside(i)
  BY DEF SelectReturn, Inside
<1>3. total < NPiece /\ selected = total /\ total' = total + 1 /\ Works(i)
  BY <1>2, SelectedFacts DEF SelectReturn
<1>4. PhaseOf(i)' = PhaseOf(i)
  BY <1>1 DEF PhaseOf, Becomes
<1>5. PhaseOf(i) = "running" \/ sessions[i].cancelled
  BY <1>3 DEF PhaseOf, Works
<1> QED
  BY <1>1, <1>3, <1>4, <1>5 DEF Contract!Next, Contract!HandOut, Becomes

LEMMA DeliverKeeps ==
  ASSUME TypeOK, NEW i \in DOMAIN sessions, NEW p \in Piece,
         loop # "panicked", loop' = loop, Deliver(i, p)
  PROVE  Contract(i)!Next
<1>1. PICK s \in Session :
        /\ Becomes(i, s)
        /\ s.cancelled = sessions[i].cancelled
        /\ s.phase = sessions[i].phase
        /\ s.hand = sessions[i].hand \ {p}
        /\ s.delivered = sessions[i].delivered \cup {p}
  BY DeliverFields
<1>2. total' = total /\ p \in sessions[i].hand
  BY DEF Deliver, selectVars
<1>3. PhaseOf(i)' = PhaseOf(i)
  BY <1>1 DEF PhaseOf, Becomes
<1> QED
  BY <1>1, <1>2, <1>3 DEF Contract!Next, Contract!Deliver, Becomes

LEMMA FinishKeeps ==
  ASSUME TypeOK, Exclusive, Selected, NEW i \in DOMAIN sessions,
         loop # "panicked", loop' = loop, Finish(i)
  PROVE  Contract(i)!Next
<1>1. PICK s \in Session :
        /\ Becomes(i, s)
        /\ s.cancelled = sessions[i].cancelled
        /\ s.phase = "over"
        /\ s.hand = sessions[i].hand
        /\ s.delivered = sessions[i].delivered
  BY FinishFields
<1>2. total' = total /\ (sessions[i].cancelled \/ sessions[i].hand = {})
  BY DEF Finish, selectVars
<1>3. sessions[i].cancelled \/ total = NPiece
  BY SelectedFacts DEF Finish, Exclusive, EndsForAReason
<1>4. PhaseOf(i) = "running" /\ PhaseOf(i)' = "over"
  BY <1>1 DEF Finish, PhaseOf, Becomes
<1> QED
  BY <1>1, <1>2, <1>3, <1>4 DEF Contract!Next, Contract!Finish, Becomes

LEMMA AnnounceKeeps ==
  ASSUME TypeOK, Exclusive, Selected, NEW i \in DOMAIN sessions,
         loop # "panicked", loop' = loop, Announce(i)
  PROVE  Contract(i)!Next
<1>1. PICK s \in Session :
        /\ Becomes(i, s)
        /\ s.cancelled = sessions[i].cancelled
        /\ s.phase = "announced"
        /\ s.hand = sessions[i].hand
        /\ s.delivered = sessions[i].delivered
  BY AnnounceFields
<1>2. total' = total /\ total = NPiece
  BY SelectedFacts DEF Announce, selectVars
<1>3. PhaseOf(i) = "over" /\ PhaseOf(i)' = "announced"
  BY <1>1 DEF Announce, PhaseOf, Becomes
<1> QED
  BY <1>1, <1>2, <1>3 DEF Contract!Next, Contract!Announce, Becomes

\* No index is out of range, and no other step of a session ends the process.
LEMMA SessionStepLives ==
  ASSUME TypeOK, Exclusive, Selected, NEW i \in DOMAIN sessions, SessionStep(i)
  PROVE  loop' = loop /\ ~SelectPanics(i)
<1>1. ~SelectPanics(i)
  <2> SUFFICES ASSUME SelectPanics(i)
               PROVE  FALSE
    OBVIOUS
  <2>1. Inside(i) /\ index = total /\ total < NPiece
    BY SelectedFacts DEF SelectPanics, Inside
  <2> QED
    BY <2>1, SelectedFacts DEF SelectPanics
<1> QED
  BY <1>1 DEF SessionStep, SelectTest, SelectNone, SelectTake, SelectLoad, SelectCount,
              SelectReturn, Deliver, Finish, Announce, managerVars

\* Its own steps are steps of a session's contract,
LEMMA SelfKeeps ==
  ASSUME TypeOK, Exclusive, Selected, NEW i \in DOMAIN sessions,
         loop # "panicked", SessionStep(i)
  PROVE  [Contract(i)!Next]_(Contract(i)!vars)
  BY SessionStepLives, SelectingKeeps, ReturnKeeps, DeliverKeeps, FinishKeeps, AnnounceKeeps
     DEF SessionStep

\* and of those of another session it sees only that the next piece is gone.
LEMMA OtherKeeps ==
  ASSUME TypeOK, Exclusive, Selected, loop # "panicked",
         NEW i \in DOMAIN sessions, NEW k \in DOMAIN sessions, k # i, SessionStep(k)
  PROVE  [Contract(i)!Next]_(Contract(i)!vars)
<1>1. loop' = loop
  BY SessionStepLives
<1>2. i \in DOMAIN sessions' /\ sessions'[i] = sessions[i]
  BY SessionAdvances DEF Advances
<1>3. CASE SelectReturn(k)
  <2>1. Inside(k)
    BY <1>3 DEF SelectReturn, Inside
  <2>2. total < NPiece /\ total' = total + 1
    BY <1>3, <2>1, SelectedFacts DEF SelectReturn
  <2>3. PhaseOf(i)' = PhaseOf(i)
    BY <1>2 DEF PhaseOf
  <2> QED
    BY <1>1, <1>2, <2>2, <2>3 DEF Contract!Next, Contract!Elsewhere
<1>4. CASE ~SelectReturn(k)
  <2>1. total' = total
    BY <1>4 DEF SessionStep, SelectTest, SelectNone, SelectTake, SelectLoad, SelectPanics,
                SelectCount, Deliver, Finish, Announce, selectVars, downloadVars
  <2> QED
    BY <1>1, <1>2, <2>1, Unnoticed
<1> QED
  BY <1>3, <1>4

\* The manager cancels the current session, or does what no session notices, or dies.
LEMMA ManagerKeeps ==
  ASSUME TypeOK, NEW i \in DOMAIN sessions, loop # "panicked",
         LoopStep \/ \E c \in UserCommand : SetState(c)
  PROVE  [Contract(i)!Next]_(Contract(i)!vars)
<1>1. CASE StoppedStart \/ PausedStart
  <2>1. Launch
    BY <1>1 DEF StoppedStart, PausedStart
  <2>2. i \in DOMAIN sessions' /\ sessions'[i] = sessions[i]
    BY <2>1, SessionLaunch DEF TypeOK, Launch
  <2>3. UNCHANGED <<total, loop>>
    BY <2>1 DEF Launch
  <2> QED
    BY <2>2, <2>3, Unnoticed
<1>2. CASE CancelDownload
  <2>1. PICK s \in Session :
          /\ Becomes(Current, s) /\ s.cancelled = TRUE
          /\ s.phase = sessions[Current].phase
          /\ s.hand = sessions[Current].hand
          /\ s.delivered = sessions[Current].delivered
    BY <1>2, CancelOK
  <2>2. total' = total /\ loop' # "panicked"
    BY <1>2 DEF CancelDownload, selectVars
  <2>3. CASE i # Current
    BY <2>1, <2>2, <2>3, Unnoticed DEF Becomes
  <2>4. CASE i = Current
    <3>1. PhaseOf(i)' = PhaseOf(i)
      BY <2>1, <2>4 DEF PhaseOf, Becomes
    <3> QED
      BY <2>1, <2>2, <2>4, <3>1 DEF Contract!Next, Contract!Cancel, Becomes
  <2> QED
    BY <2>3, <2>4
<1>3. CASE Ignore \/ PauseDone \/ StopDone \/ \E c \in UserCommand : SetState(c)
  <2>1. UNCHANGED <<sessions, total>> /\ loop' # "panicked"
    BY <1>3 DEF Ignore, PauseDone, StopDone, SetState, managerVars, downloadVars, selectVars
  <2> QED
    BY <2>1, Unnoticed
<1>4. CASE StopPanics \/ PausedStop
  <2>1. UNCHANGED <<sessions, total>> /\ loop' = "panicked"
    BY <1>4 DEF StopPanics, PausedStop, downloadVars, selectVars
  <2> QED
    BY <2>1, AllDie
<1> QED
  BY <1>1, <1>2, <1>3, <1>4 DEF LoopStep

\* A new session is as the contract starts, at the piece where the others are.
LEMMA NewIsFresh ==
  ASSUME TypeOK, Next
  PROVE  \A i \in DOMAIN sessions' \ DOMAIN sessions :
           /\ sessions'[i].hand = {} /\ sessions'[i].delivered = {}
           /\ sessions'[i].phase = "running" /\ ~sessions'[i].cancelled
           /\ total' = total
<1>1. CASE StoppedStart \/ PausedStart
  <2>1. Launch
    BY <1>1 DEF StoppedStart, PausedStart
  <2>2. /\ Len(sessions) \in Nat /\ DOMAIN sessions = 1..Len(sessions)
        /\ DOMAIN sessions' = 1..(Len(sessions) + 1)
        /\ sessions'[Len(sessions) + 1] = NewSession
        /\ total' = total
    BY <2>1, SessionLaunch DEF TypeOK, Launch
  <2>3. /\ NewSession.hand = {} /\ NewSession.delivered = {}
        /\ NewSession.phase = "running" /\ ~NewSession.cancelled
    BY DEF NewSession
  <2>4. \A i \in DOMAIN sessions' \ DOMAIN sessions : sessions'[i] = NewSession
    BY <2>2
  <2> QED
    BY <2>2, <2>3, <2>4
<1>2. CASE CancelDownload
  BY <1>2, CancelOK DEF Becomes
<1>3. CASE UNCHANGED sessions
  BY <1>3
<1>4. ASSUME NEW k \in DOMAIN sessions, SessionStep(k)
      PROVE  DOMAIN sessions' = DOMAIN sessions
  BY <1>4, SessionAdvances DEF Advances
<1> QED
  BY <1>1, <1>2, <1>3, <1>4
     DEF Next, LoopStep, SetState, Ignore, PauseDone, StopDone, StopPanics, PausedStop,
         downloadVars

\* However commands and sessions interleave, and whatever the late workers and schedulers
\* of cancelled sessions do, every session of a torrent keeps SessionContract on the
\* index and the pieces that all of them share, for any number of sessions and pieces,
\* until two schedulers meet in selectPiece.
THEOREM SessionsKeepContractHolds == Spec => SessionsKeepContract
<1> DEFINE Step ==
      ~raced' =>
        /\ \A i \in DOMAIN sessions : [Contract(i)!Next]_(Contract(i)!vars)
        /\ \A i \in DOMAIN sessions' \ DOMAIN sessions :
             /\ sessions'[i].hand = {} /\ sessions'[i].delivered = {}
             /\ sessions'[i].phase = "running" /\ ~sessions'[i].cancelled
             /\ total' = total
<1>1. TypeOK /\ Exclusive /\ (~raced => Selected) /\ [Next]_vars => [Step]_vars
  <2> SUFFICES ASSUME TypeOK, Exclusive, ~raced => Selected, ~raced', Next
               PROVE  Step
    OBVIOUS
  <2>1. loop # "panicked"
    BY DEF Next
  <2>2. ASSUME NEW i \in DOMAIN sessions
        PROVE  [Contract(i)!Next]_(Contract(i)!vars)
    <3>1. CASE LoopStep \/ \E c \in UserCommand : SetState(c)
      BY <2>1, <3>1, ManagerKeeps
    <3>2. ASSUME NEW k \in DOMAIN sessions, SessionStep(k)
          PROVE  [Contract(i)!Next]_(Contract(i)!vars)
      <4>1. Selected
        BY <3>2 DEF SessionStep, SelectTest, SelectNone, SelectTake, SelectLoad, SelectPanics,
                    SelectCount, SelectReturn, Deliver, Finish, Announce, downloadVars,
                    selectVars
      <4>2. CASE k = i
        BY <2>1, <3>2, <4>1, <4>2, SelfKeeps
      <4>3. CASE k # i
        BY <2>1, <3>2, <4>1, <4>3, OtherKeeps
      <4> QED
        BY <4>2, <4>3
    <3> QED
      BY <3>1, <3>2 DEF Next
  <2> QED
    BY <2>2, NewIsFresh
<1> QED
  BY <1>1, TypeCorrect, ExclusiveHolds, SelectionHolds, PTL
     DEF Spec, SessionsKeepContract
=============================================================================
