---------------------------- MODULE Speaker_proofs ----------------------------
(***************************************************************************)
(* Theorems about module Speaker, for every queue bound, every error limit *)
(* and every set of web calls: types and the boot gate, the amplifier and  *)
(* the stream (AudioInv), the end of the process (LifeInv), PLAYING        *)
(* (PlayInv) and the discovery worker (SearchInv).                         *)
(***************************************************************************)
EXTENDS Speaker, TLAPS

\* What the threads of this process publish.  IdentityCorrupt, UpdateFailed and
\* StreamerDisconnected have a case in handleEvent and no publisher.
RaisedTypes == EventTypes \ {"IdentityCorrupt", "UpdateFailed", "StreamerDisconnected"}

\* The type invariant, strengthened until it is inductive: outside safe mode
\* the streak is below the limit, so the next fault can only reach it.
TypeInv ==
  /\ TypeOK
  /\ queue \in Seq(RaisedTypes)
  /\ todo \in Seq([handler : HandlerNames, event : RaisedTypes])
  /\ ~safeMode => errorStreak < ErrorLimit

USE SpeakerConstants

----------------------------------------------------------------------------
(***************************************************************************)
(* Helpers.                                                                *)
(***************************************************************************)
\* transitionTo answers with a state of the table.
LEMMA AfterType ==
  ASSUME NEW s \in SystemStates, NEW to \in SystemStates
  PROVE  After(s, to) \in {s, to}
BY DEF After

\* Every destination handleEvent asks for is a state of the table.
LEMMA RouteType ==
  ASSUME NEW s \in SystemStates, NEW t \in EventTypes
  PROVE  Detour(s, t) \in SystemStates /\ Destination(s, t) \in SystemStates
BY DEF Detour, Destination, SystemStates, EventTypes, Searching

\* A state change queues events of the raised types only.
LEMMA MovedType ==
  ASSUME NEW s, NEW t
  PROVE  Moved(s, t) \in Seq(RaisedTypes)
<1>1. "SearchEntered" \in RaisedTypes /\ "SearchLeft" \in RaisedTypes
  BY DEF RaisedTypes, EventTypes, Searching
<1>2. /\ <<>> \in Seq(RaisedTypes)
      /\ <<"SearchEntered">> \in Seq(RaisedTypes)
      /\ <<"SearchLeft">> \in Seq(RaisedTypes)
  BY <1>1
<1> QED
  BY <1>2, Zenon DEF Moved

\* publish() appends, or drops: the queue keeps its type.
LEMMA PublishedType ==
  ASSUME queue \in Seq(RaisedTypes), NEW es \in Seq(RaisedTypes)
  PROVE  Published(es) \in Seq(RaisedTypes)
BY DEF Published

\* The handlers copied for an event carry that event.
LEMMA CallsType ==
  ASSUME NEW t \in RaisedTypes
  PROVE  Calls(t) \in Seq([handler : HandlerNames, event : RaisedTypes])
<1>1. Subscribers(t) \in Seq(HandlerNames)
  <2> DEFINE own == CASE t \in {"AudioStarted", "AudioStopped"} -> <<"ampGate">>
                      [] t \in Searching -> <<"discovery">>
                      [] t = "RunAudioTest" -> <<"identify">>
                      [] OTHER -> <<>>
             sys == IF subscribed /\ t \notin RoutedElsewhere THEN <<"system">> ELSE <<>>
  <2>1. /\ <<>> \in Seq(HandlerNames) /\ <<"system">> \in Seq(HandlerNames)
        /\ <<"ampGate">> \in Seq(HandlerNames) /\ <<"discovery">> \in Seq(HandlerNames)
        /\ <<"identify">> \in Seq(HandlerNames)
    BY DEF HandlerNames
  <2>2. own \in {<<>>, <<"ampGate">>, <<"discovery">>, <<"identify">>}
    BY DEF Searching
  <2>3. sys \in {<<>>, <<"system">>}
    BY Zenon
  <2>4. own \in Seq(HandlerNames) /\ sys \in Seq(HandlerNames)
    BY <2>1, <2>2, <2>3, Zenon
  <2>5. Subscribers(t) = own \o sys
    BY Zenon DEF Subscribers
  <2> HIDE DEF own, sys
  <2> QED
    BY <2>4, <2>5
<1>2. DOMAIN Subscribers(t) = 1..Len(Subscribers(t)) /\ Len(Subscribers(t)) \in Nat
  BY <1>1
<1>3. \A i \in DOMAIN Subscribers(t) : Subscribers(t)[i] \in HandlerNames
  BY <1>1
<1> QED
  BY <1>2, <1>3 DEF Calls

\* The amplifier's part of the type invariant, and what preserves it.
AmpTypeOK ==
  /\ ampState \in Amp!AmpStates /\ noHardware \in BOOLEAN /\ warned \in BOOLEAN
  /\ line \in {"muted", "open"} /\ powered \in BOOLEAN

LEMMA AmpType ==
  ASSUME AmpTypeOK,
         \/ Amp!Mute(TRUE) \/ Amp!Unmute(TRUE) \/ Amp!AmpStop
         \/ \E found \in AmpBoards : Amp!AmpStart(found, TRUE)
         \/ UNCHANGED ampVars
  PROVE  AmpTypeOK'
<1>1. CASE Amp!Mute(TRUE)
  BY <1>1 DEF AmpTypeOK, Amp!Mute, Amp!AmpStates
<1>2. CASE Amp!Unmute(TRUE)
  BY <1>2 DEF AmpTypeOK, Amp!Unmute, Amp!AmpStates
<1>3. CASE Amp!AmpStop
  BY <1>3 DEF AmpTypeOK, Amp!AmpStop, Amp!AmpStates
<1>4. CASE \E found \in AmpBoards : Amp!AmpStart(found, TRUE)
  <2>1. PICK found \in AmpBoards : Amp!AmpStart(found, TRUE)
    BY <1>4
  <2>2. found \in BOOLEAN
    OBVIOUS
  <2> QED
    BY <2>1, <2>2 DEF AmpTypeOK, Amp!AmpStart, Amp!HalMute, Amp!AmpStates
<1>5. CASE UNCHANGED ampVars
  BY <1>5 DEF AmpTypeOK, ampVars
<1> QED
  BY <1>1, <1>2, <1>3, <1>4, <1>5

\* A single event, or none, is something a thread may publish.
LEMMA RaisedSeqs ==
  /\ <<>> \in Seq(RaisedTypes)
  /\ \A t \in RaisedTypes : <<t>> \in Seq(RaisedTypes)
  /\ \A t, u \in RaisedTypes : <<t>> \o <<u>> \in Seq(RaisedTypes)
OBVIOUS

----------------------------------------------------------------------------
(***************************************************************************)
(* The type invariant is inductive.                                        *)
(***************************************************************************)
\* The two variables whose type is not that of a flag or an enumeration.
BusTypeOK ==
  /\ queue \in Seq(RaisedTypes)
  /\ todo \in Seq([handler : HandlerNames, event : RaisedTypes])

\* Everything else.
PlainTypeOK ==
  /\ main \in Phases /\ quit \in BOOLEAN
  /\ state \in SystemStates /\ safeMode \in BOOLEAN
  /\ errorStreak \in 0..ErrorLimit /\ subscribed \in BOOLEAN
  /\ busRunning \in BOOLEAN
  /\ source \in BOOLEAN /\ streaming \in BOOLEAN /\ browsing \in BOOLEAN
  /\ setupMode \in BOOLEAN /\ paired \in BOOLEAN /\ peer \in BOOLEAN
  /\ cal \in BOOLEAN /\ others \in BOOLEAN
  /\ ~safeMode => errorStreak < ErrorLimit

LEMMA TypeInvParts == TypeInv <=> PlainTypeOK /\ AmpTypeOK /\ BusTypeOK
<1>1. RaisedTypes \subseteq EventTypes
  BY DEF RaisedTypes
<1>2. BusTypeOK => /\ queue \in Seq(EventTypes)
                   /\ todo \in Seq([handler : HandlerNames, event : EventTypes])
  <2> DEFINE S == [handler : HandlerNames, event : RaisedTypes]
             T == [handler : HandlerNames, event : EventTypes]
  <2>1. S \subseteq T
    BY <1>1
  <2>2. \A q \in Seq(S) : q \in Seq(T)
    <3> HIDE DEF S, T
    <3> QED  BY <2>1
  <2>3. \A q \in Seq(RaisedTypes) : q \in Seq(EventTypes)
    BY <1>1
  <2> QED
    BY <2>2, <2>3, Zenon DEF BusTypeOK
<1> QED
  BY <1>2, Zenon DEF TypeInv, TypeOK, PlainTypeOK, AmpTypeOK, BusTypeOK

\* The handler at the head of the list, and the event it was copied for.
LEMMA HeadType ==
  ASSUME BusTypeOK, todo # <<>>
  PROVE  /\ Head(todo).event \in RaisedTypes
         /\ Tail(todo) \in Seq([handler : HandlerNames, event : RaisedTypes])
<1> DEFINE S == [handler : HandlerNames, event : RaisedTypes]
<1>1. todo \in Seq(S)
  BY DEF BusTypeOK
<1>2. Head(todo) \in S /\ Tail(todo) \in Seq(S)
  <2> HIDE DEF S
  <2> QED  BY <1>1
<1> QED
  BY <1>2

LEMMA TypeInit == Init => TypeInv
<1> SUFFICES ASSUME Init PROVE TypeInv
  OBVIOUS
<1>1. PlainTypeOK
  <2>1. /\ main \in Phases /\ state \in SystemStates
        /\ errorStreak \in 0..ErrorLimit /\ errorStreak < ErrorLimit
    BY DEF Init, Phases, SystemStates
  <2> QED
    BY <2>1, Zenon DEF Init, PlainTypeOK
<1>2. AmpTypeOK
  BY DEF Init, AmpTypeOK, Amp!AmpInit, Amp!AmpStates
<1>3. BusTypeOK
  BY DEF Init, BusTypeOK
<1> QED
  BY <1>1, <1>2, <1>3, TypeInvParts

LEMMA TypeBusWorker == TypeInv /\ BusWorker => TypeInv'
<1> SUFFICES ASSUME PlainTypeOK, AmpTypeOK, BusTypeOK, BusWorker
             PROVE  PlainTypeOK' /\ AmpTypeOK' /\ BusTypeOK'
  BY TypeInvParts, PTL
<1> USE DEF sysVars, busVars, ampVars, audioVars, cfgVars, calVars
<1>1. CASE DispatchNext
  <2>1. Head(queue) \in RaisedTypes /\ Tail(queue) \in Seq(RaisedTypes)
    BY <1>1 DEF DispatchNext, BusTypeOK
  <2>2. BusTypeOK'
    BY <1>1, <2>1, CallsType DEF DispatchNext, BusTypeOK
  <2> QED
    BY <1>1, <2>2 DEF DispatchNext, PlainTypeOK, AmpTypeOK
<1>2. CASE handleEvent
  <2> DEFINE t == handling
             s1 == IF Ignored(state, t) THEN state ELSE After(state, Detour(state, t))
             s2 == IF Ignored(state, t) THEN state ELSE After(s1, Destination(s1, t))
             ended == IF streaming THEN <<"AudioStopped">> ELSE <<>>
             s3 == After(s2, "Degraded")
  <2>1. t \in RaisedTypes /\ t \in EventTypes /\ BusTypeOK
    BY <1>2, HeadType DEF handleEvent, Runs, handling, RaisedTypes
  <2>2. s1 \in SystemStates
    BY <2>1, RouteType, AfterType DEF PlainTypeOK
  <2>3. s2 \in SystemStates
    BY <2>1, <2>2, RouteType, AfterType DEF PlainTypeOK
  <2>4. s3 \in SystemStates
    BY <2>3, AfterType DEF SystemStates
  <2>5. "AudioStopped" \in RaisedTypes
    BY DEF RaisedTypes, EventTypes, Searching
  <2>6. ended \in Seq(RaisedTypes)
    BY <2>5, RaisedSeqs, Zenon
  <2>7. /\ Moved(state, s1) \o Moved(s1, s2) \in Seq(RaisedTypes)
        /\ Moved(state, s1) \o Moved(s1, s2) \o ended \o Moved(s2, s3) \in Seq(RaisedTypes)
    <3> HIDE DEF s1, s2, s3, ended
    <3> QED  BY <2>6, MovedType
  <2>8. queue' \in Seq(RaisedTypes)
    <3> HIDE DEF t
    <3>1. \/ Publish(Moved(state, s1) \o Moved(s1, s2))
          \/ Publish(Moved(state, s1) \o Moved(s1, s2) \o ended \o Moved(s2, s3))
      BY <1>2, Zenon DEF handleEvent, t
    <3> HIDE DEF s1, s2, s3, ended
    <3> QED  BY <3>1, <2>7, PublishedType, <2>1 DEF Publish, BusTypeOK
  <2>9. BusTypeOK'
    BY <1>2, <2>8, HeadType DEF handleEvent, Runs, BusTypeOK
  <2>10. AmpTypeOK'
    BY <1>2, AmpType DEF handleEvent, Disable
  <2>11. state' \in SystemStates
    <3>1. state' = s2 \/ state' = s3
      BY <1>2, Zenon DEF handleEvent
    <3> QED  BY <3>1, <2>3, <2>4
  <2>12. /\ errorStreak' \in 0..ErrorLimit
         /\ safeMode' \in BOOLEAN
         /\ ~safeMode' => errorStreak' < ErrorLimit
    <3>1. errorStreak' = Streak(t)
      BY <1>2, Zenon DEF handleEvent
    <3>2. CASE safeMode
      <4>1. errorStreak' = errorStreak /\ safeMode'
        BY <1>2, <3>1, <3>2, Zenon DEF handleEvent, Streak
      <4> QED  BY <1>2, <3>2, <4>1, Zenon DEF handleEvent, PlainTypeOK
    <3>3. CASE ~safeMode
      <4>1. errorStreak \in Nat /\ errorStreak < ErrorLimit
        BY <3>3 DEF PlainTypeOK
      <4>2. Streak(t) \in 0..errorStreak + 1
        BY <3>3, <4>1 DEF Streak
      <4>3. errorStreak' \in 0..ErrorLimit
        BY <3>1, <4>1, <4>2
      <4>4. CASE Escalates(t)
        <5>1. safeMode' = TRUE
          BY <1>2, <3>3, <4>4, Zenon DEF handleEvent
        <5> QED  BY <4>3, <5>1, Zenon
      <4>5. CASE ~Escalates(t)
        <5>1. safeMode' = FALSE
          BY <1>2, <3>3, <4>5, Zenon DEF handleEvent, PlainTypeOK
        <5>2. Streak(t) < ErrorLimit
          BY <3>3, <4>1, <4>5 DEF Escalates, Streak
        <5> QED  BY <3>1, <4>3, <5>1, <5>2, Zenon
      <4> QED  BY <4>4, <4>5
    <3> QED  BY <3>2, <3>3
  <2>13. source' \in BOOLEAN /\ streaming' \in BOOLEAN
    BY <1>2 DEF handleEvent, Disable, PlainTypeOK
  <2> QED
    BY <1>2, <2>9, <2>10, <2>11, <2>12, <2>13 DEF handleEvent, PlainTypeOK
<1>3. CASE ampGate
  <2>1. BusTypeOK'
    BY <1>3, HeadType DEF ampGate, Runs, BusTypeOK
  <2>2. AmpTypeOK'
    BY <1>3, AmpType DEF ampGate
  <2> QED
    BY <1>3, <2>1, <2>2 DEF ampGate, PlainTypeOK
<1>4. CASE discoveryGate
  <2>1. BusTypeOK'
    BY <1>4, HeadType DEF discoveryGate, Runs, BusTypeOK
  <2>2. browsing' \in BOOLEAN
    BY <1>4, Zenon DEF discoveryGate
  <2> QED
    BY <1>4, <2>1, <2>2 DEF discoveryGate, PlainTypeOK, AmpTypeOK
<1>5. CASE identifyGate
  <2>1. "AudioStarted" \in RaisedTypes
    BY DEF RaisedTypes, EventTypes, Searching
  <2>2. queue' \in Seq(RaisedTypes)
    BY <1>5, <2>1, RaisedSeqs, PublishedType DEF identifyGate, ToneStarts, Publish, BusTypeOK
  <2>3. BusTypeOK'
    BY <1>5, <2>2, HeadType DEF identifyGate, Runs, BusTypeOK
  <2>4. others' \in BOOLEAN
    BY <1>5, Zenon DEF identifyGate, ToneStarts, PlainTypeOK
  <2> QED
    BY <1>5, <2>3, <2>4 DEF identifyGate, PlainTypeOK, AmpTypeOK
<1> QED
  BY <1>1, <1>2, <1>3, <1>4, <1>5 DEF BusWorker

\* Publishing one raised event, or the report of a state change, keeps the bus typed.
LEMMA PublishStep ==
  ASSUME BusTypeOK, UNCHANGED todo,
         \/ UNCHANGED queue
         \/ Publish(<<>>)
         \/ \E t \in RaisedTypes : Publish(<<t>>)
         \/ \E s, t : Publish(Moved(s, t))
  PROVE  BusTypeOK'
<1>1. CASE UNCHANGED queue
  BY <1>1 DEF BusTypeOK
<1>2. CASE Publish(<<>>)
  BY <1>2, RaisedSeqs, PublishedType DEF BusTypeOK, Publish
<1>3. CASE \E t \in RaisedTypes : Publish(<<t>>)
  BY <1>3, RaisedSeqs, PublishedType DEF BusTypeOK, Publish
<1>4. CASE \E s, t : Publish(Moved(s, t))
  BY <1>4, MovedType, PublishedType DEF BusTypeOK, Publish
<1> QED
  BY <1>1, <1>2, <1>3, <1>4

LEMMA RaisedMembers ==
  /\ "ConfigInvalid" \in RaisedTypes /\ "ShutdownRequested" \in RaisedTypes
  /\ "AudioStarted" \in RaisedTypes /\ "AudioStopped" \in RaisedTypes
  /\ "StreamerFound" \in RaisedTypes /\ "NetworkConnected" \in RaisedTypes
  /\ "NetworkDisconnected" \in RaisedTypes /\ "WatchdogTimeout" \in RaisedTypes
  /\ "PairingCompleted" \in RaisedTypes /\ "RunAudioTest" \in RaisedTypes
BY DEF RaisedTypes, EventTypes, Searching

LEMMA TypeMainThread == TypeInv /\ MainThread => TypeInv'
<1> SUFFICES ASSUME PlainTypeOK, AmpTypeOK, BusTypeOK, MainThread
             PROVE  PlainTypeOK' /\ AmpTypeOK' /\ BusTypeOK'
  BY TypeInvParts, PTL
<1> USE DEF sysVars, busVars, ampVars, audioVars, cfgVars, calVars
<1>1. CASE StartConfig
  <2>1. BusTypeOK'
    BY <1>1, PublishStep, RaisedMembers DEF StartConfig
  <2> QED
    BY <1>1, <2>1 DEF StartConfig, PlainTypeOK, AmpTypeOK, Phases
<1>2. CASE StartIdentity
  BY <1>2 DEF StartIdentity, PlainTypeOK, AmpTypeOK, BusTypeOK, Phases
<1>3. CASE StartSystem
  BY <1>3 DEF StartSystem, PlainTypeOK, AmpTypeOK, BusTypeOK, Phases
<1>4. CASE StartAmplifier
  <2>1. AmpTypeOK'
    BY <1>4, AmpType DEF StartAmplifier
  <2> QED
    BY <1>4, <2>1 DEF StartAmplifier, PlainTypeOK, BusTypeOK, Phases
<1>5. CASE StartAudio
  BY <1>5 DEF StartAudio, PlainTypeOK, AmpTypeOK, BusTypeOK, Phases
<1>6. CASE enterInitialState
  <2>1. BusTypeOK'
    BY <1>6, PublishStep DEF enterInitialState, MainMovesTo
  <2>2. state' \in SystemStates
    BY <1>6, AfterType DEF enterInitialState, MainMovesTo, PlainTypeOK, SystemStates
  <2> QED
    BY <1>6, <2>1, <2>2 DEF enterInitialState, PlainTypeOK, AmpTypeOK, Phases
<1>7. CASE beginSetupMode
  <2>1. BusTypeOK'
    BY <1>7, PublishStep DEF beginSetupMode, MainMovesTo
  <2>2. state' \in SystemStates
    BY <1>7, AfterType DEF beginSetupMode, MainMovesTo, PlainTypeOK, SystemStates
  <2> QED
    BY <1>7, <2>1, <2>2 DEF beginSetupMode, PlainTypeOK, AmpTypeOK, Phases
<1>8. CASE Run
  BY <1>8 DEF Run, PlainTypeOK, AmpTypeOK, BusTypeOK, Phases
<1>9. CASE StopWeb
  BY <1>9 DEF StopWeb, PlainTypeOK, AmpTypeOK, BusTypeOK, Phases
<1>10. CASE StopAudio
  <2>1. BusTypeOK'
    BY <1>10, PublishStep, RaisedMembers DEF StopAudio
  <2>2. main' \in Phases
    BY <1>10 DEF StopAudio, Phases
  <2>3. source' \in BOOLEAN /\ streaming' \in BOOLEAN
    BY <1>10, Zenon DEF StopAudio, PlainTypeOK
  <2> QED
    BY <1>10, <2>1, <2>2, <2>3 DEF StopAudio, PlainTypeOK, AmpTypeOK
<1>11. CASE StopDiscovery
  <2>1. main' \in Phases
    BY <1>11 DEF StopDiscovery, PlainTypeOK, Phases
  <2>2. setupMode' \in BOOLEAN /\ browsing' \in BOOLEAN
    BY <1>11, Zenon DEF StopDiscovery, PlainTypeOK
  <2> QED
    BY <1>11, <2>1, <2>2 DEF StopDiscovery, PlainTypeOK, AmpTypeOK, BusTypeOK
<1>12. CASE StopAmplifier
  <2>1. AmpTypeOK'
    BY <1>12, AmpType DEF StopAmplifier
  <2> QED
    BY <1>12, <2>1 DEF StopAmplifier, PlainTypeOK, BusTypeOK, Phases
<1>13. CASE StopSystem
  <2>1. BusTypeOK'
    BY <1>13, PublishStep DEF StopSystem, MainMovesTo
  <2>2. state' \in SystemStates
    BY <1>13, AfterType DEF StopSystem, MainMovesTo, PlainTypeOK, SystemStates
  <2>3. main' \in Phases
    BY <1>13 DEF StopSystem, Phases
  <2>4. subscribed' \in BOOLEAN
    BY <1>13, Zenon DEF StopSystem, PlainTypeOK
  <2> QED
    BY <1>13, <2>1, <2>2, <2>3, <2>4 DEF StopSystem, PlainTypeOK, AmpTypeOK
<1>14. CASE StopBus
  <2>1. main' \in Phases
    BY <1>14 DEF StopBus, PlainTypeOK, Phases
  <2>2. busRunning' \in BOOLEAN
    BY <1>14, Zenon DEF StopBus, PlainTypeOK
  <2> QED
    BY <1>14, <2>1, <2>2 DEF StopBus, PlainTypeOK, AmpTypeOK, BusTypeOK
<1> QED
  BY <1>1, <1>2, <1>3, <1>4, <1>5, <1>6, <1>7, <1>8, <1>9, <1>10, <1>11, <1>12, <1>13,
     <1>14 DEF MainThread

LEMMA TypeEnvironment == TypeInv /\ Environment => TypeInv'
<1> SUFFICES ASSUME PlainTypeOK, AmpTypeOK, BusTypeOK, Environment
             PROVE  PlainTypeOK' /\ AmpTypeOK' /\ BusTypeOK'
  BY TypeInvParts, PTL
<1> USE DEF sysVars, busVars, ampVars, audioVars, cfgVars, calVars
<1>1. CASE \E last \in BOOLEAN : onDatagram(last)
  <2>1. PICK last \in BOOLEAN : onDatagram(last)
    BY <1>1
  <2>2. BusTypeOK'
    <3> DEFINE first == IF streaming THEN <<>> ELSE <<"AudioStarted">>
               end == IF last THEN <<"AudioStopped">> ELSE <<>>
    <3>1. first \in Seq(RaisedTypes) /\ end \in Seq(RaisedTypes)
      BY RaisedMembers, RaisedSeqs, Zenon
    <3>2. queue' = Published(first \o end)
      BY <2>1, Zenon DEF onDatagram, Publish
    <3> HIDE DEF first, end
    <3>3. first \o end \in Seq(RaisedTypes)
      BY <3>1
    <3> QED  BY <2>1, <3>2, <3>3, PublishedType DEF onDatagram, BusTypeOK
  <2>3. streaming' \in BOOLEAN
    BY <2>1, Zenon DEF onDatagram
  <2> QED
    BY <2>1, <2>2, <2>3 DEF onDatagram, PlainTypeOK, AmpTypeOK
<1>2. CASE searchLoop
  <2>1. BusTypeOK'
    BY <1>2, PublishStep, RaisedMembers DEF searchLoop
  <2>2. browsing' \in BOOLEAN
    BY <1>2, Zenon DEF searchLoop
  <2> QED
    BY <1>2, <2>1, <2>2 DEF searchLoop, PlainTypeOK, AmpTypeOK
<1>3. CASE NetworkPoll
  <2>1. BusTypeOK'
    BY <1>3, PublishStep, RaisedMembers DEF NetworkPoll
  <2> QED
    BY <1>3, <2>1 DEF NetworkPoll, PlainTypeOK, AmpTypeOK
<1>4. CASE WatchdogTimeout
  <2>1. BusTypeOK'
    BY <1>4, PublishStep, RaisedMembers DEF WatchdogTimeout
  <2> QED
    BY <1>4, <2>1 DEF WatchdogTimeout, PlainTypeOK, AmpTypeOK
<1>5. CASE processRequest
  <2>1. BusTypeOK'
    BY <1>5, PublishStep, RaisedMembers DEF processRequest
  <2>2. setupMode' \in BOOLEAN /\ paired' \in BOOLEAN
    BY <1>5, Zenon DEF processRequest
  <2> QED
    BY <1>5, <2>1, <2>2 DEF processRequest, PlainTypeOK, AmpTypeOK
<1>6. CASE factoryReset
  <2>1. paired' \in BOOLEAN
    BY <1>6, Zenon DEF factoryReset
  <2> QED
    BY <1>6, <2>1 DEF factoryReset, PlainTypeOK, AmpTypeOK, BusTypeOK
<1>7. CASE audioTest
  <2>1. BusTypeOK'
    BY <1>7, PublishStep, RaisedMembers DEF audioTest, ToneStarts
  <2> QED
    BY <1>7, <2>1 DEF audioTest, ToneStarts, PlainTypeOK, AmpTypeOK
<1>8. CASE RunAudioTest
  <2>1. BusTypeOK'
    BY <1>8, PublishStep, RaisedMembers DEF RunAudioTest
  <2> QED
    BY <1>8, <2>1 DEF RunAudioTest, PlainTypeOK, AmpTypeOK
<1>9. CASE reboot
  <2>1. BusTypeOK'
    BY <1>9, PublishStep, RaisedMembers DEF reboot
  <2> QED
    BY <1>9, <2>1 DEF reboot, PlainTypeOK, AmpTypeOK
<1>10. CASE requestShutdown
  <2>1. BusTypeOK'
    BY <1>10, PublishStep, RaisedMembers DEF requestShutdown
  <2> QED
    BY <1>10, <2>1 DEF requestShutdown, PlainTypeOK, AmpTypeOK, Phases
<1>11. CASE CalibrationMutes
  <2>1. AmpTypeOK'
    BY <1>11, AmpType DEF CalibrationMutes
  <2> QED
    BY <1>11, <2>1 DEF CalibrationMutes, PlainTypeOK, BusTypeOK
<1>12. CASE CalibrationUnmutes
  <2>1. AmpTypeOK'
    BY <1>12, AmpType DEF CalibrationUnmutes
  <2> QED
    BY <1>12, <2>1 DEF CalibrationUnmutes, PlainTypeOK, BusTypeOK
<1>13. CASE Connects \/ PeerEnds
  <2>1. peer' \in BOOLEAN
    BY <1>13, Zenon DEF Connects, PeerEnds
  <2> QED
    BY <1>13, <2>1 DEF Connects, PeerEnds, PlainTypeOK, AmpTypeOK, BusTypeOK
<1> QED
  BY <1>1, <1>2, <1>3, <1>4, <1>5, <1>6, <1>7, <1>8, <1>9, <1>10, <1>11, <1>12, <1>13
  DEF Environment

LEMMA TypeStep == TypeInv /\ [Next]_vars => TypeInv'
<1>1. TypeInv /\ UNCHANGED vars => TypeInv'
  BY DEF vars, sysVars, busVars, ampVars, audioVars, cfgVars, calVars, TypeInv, TypeOK
<1> QED
  BY <1>1, TypeBusWorker, TypeMainThread, TypeEnvironment DEF Next, Exited

\* Every variable keeps its type for ever, and the error streak never passes the
\* limit: SystemManager enters safe mode on the fault that reaches it.
THEOREM TypeCorrect == Spec => []TypeOK
<1>1. TypeInv => TypeOK
  BY DEF TypeInv
<1> QED
  BY <1>1, TypeInit, TypeStep, PTL DEF Spec

----------------------------------------------------------------------------
(***************************************************************************)
(* What events may do to the state machine.                                *)
(***************************************************************************)
\* The rows of the table the two action properties rest on.
LEMMA TableRows ==
  /\ Table["Booting"] = {"Unconfigured", "ConnectingNetwork"}
  /\ Table["Authenticating"] = {"Online", "SearchingStreamer", "Offline"}
  /\ Table["Online"] = {"Playing", "Calibrating", "Updating", "Degraded", "Offline"}
  /\ Table["Playing"] = {"Online", "Calibrating", "Degraded", "Offline"}
  /\ Table["Calibrating"] = {"Online", "Playing", "Degraded"}
  /\ Table["Updating"] = {"Online"}
  /\ Table["Degraded"] = {"Online", "Offline"}
  /\ Table["ShuttingDown"] = {}
BY DEF Table, SystemStates

\* handleEvent moves the machine along the event's route and, when it enters
\* safe mode, on to DEGRADED.
LEMMA HandleEventMoves ==
  ASSUME TypeInv, handleEvent
  PROVE  \E t \in RaisedTypes :
           LET s1 == IF Ignored(state, t) THEN state ELSE After(state, Detour(state, t))
               s2 == IF Ignored(state, t) THEN state ELSE After(s1, Destination(s1, t))
           IN state' = s2 \/ state' = After(s2, "Degraded")
<1>1. handling \in RaisedTypes
  BY HeadType, TypeInvParts DEF handleEvent, Runs, handling
<1> WITNESS handling \in RaisedTypes
<1> QED
  BY Zenon DEF handleEvent

\* Which actions change the state.
LEMMA StateChangers ==
  ASSUME Next, state' # state
  PROVE  handleEvent \/ enterInitialState \/ beginSetupMode \/ StopSystem
<1> USE DEF sysVars
<1>1. ~DispatchNext /\ ~ampGate /\ ~discoveryGate /\ ~identifyGate
  BY DEF DispatchNext, ampGate, discoveryGate, identifyGate
<1>2. /\ ~StartConfig /\ ~StartIdentity /\ ~StartSystem /\ ~StartAmplifier /\ ~StartAudio
      /\ ~Run /\ ~StopWeb /\ ~StopAudio /\ ~StopDiscovery /\ ~StopAmplifier /\ ~StopBus
  BY DEF StartConfig, StartIdentity, StartSystem, StartAmplifier, StartAudio, Run, StopWeb,
         StopAudio, StopDiscovery, StopAmplifier, StopBus
<1>3. ~Environment
  BY DEF Environment, onDatagram, searchLoop, NetworkPoll, WatchdogTimeout, processRequest,
         factoryReset, audioTest, RunAudioTest, reboot, requestShutdown, CalibrationMutes,
         CalibrationUnmutes, Connects, PeerEnds
<1>4. ~Exited
  BY DEF Exited, vars
<1> QED
  BY <1>1, <1>2, <1>3, <1>4, Zenon DEF Next, BusWorker, MainThread

\* No event leads out of BOOTING except towards SHUTTING_DOWN.
LEMMA BootRoutes ==
  ASSUME NEW t \in RaisedTypes
  PROVE  /\ Detour("Booting", t) = "Booting"
         /\ ~Ignored("Booting", t) =>
              After("Booting", Destination("Booting", t)) \in {"Booting", "ShuttingDown"}
         /\ After("Booting", "Booting") = "Booting"
         /\ After("Booting", "Degraded") = "Booting"
         /\ After("ShuttingDown", "Degraded") = "ShuttingDown"
<1>1. Detour("Booting", t) = "Booting"
  BY DEF Detour
<1>2. /\ After("Booting", "Booting") = "Booting"
      /\ After("Booting", "Degraded") = "Booting"
      /\ After("ShuttingDown", "Degraded") = "ShuttingDown"
  BY TableRows DEF After, legalTransition
<1>3. ~Ignored("Booting", t) =>
        Destination("Booting", t)
          \in {"Booting", "Authenticating", "Online", "Playing", "Degraded", "ShuttingDown"}
  BY DEF Ignored, Destination, RaisedTypes, EventTypes, Searching
<1>4. \A s \in {"Booting", "Authenticating", "Online", "Playing", "Degraded", "ShuttingDown"} :
        After("Booting", s) \in {"Booting", "ShuttingDown"}
  BY TableRows DEF After, legalTransition
<1> QED
  BY <1>1, <1>2, <1>3, <1>4

\* An event that arrives while the services are still starting cannot pull the
\* machine into the normal flow: only enterInitialState does, or a shutdown.
THEOREM BootGateHolds == Spec => BootGate
<1>1. ASSUME TypeInv, Next, state = "Booting", state' # state
      PROVE  (main = "enter" /\ main' # main) \/ state' = "ShuttingDown"
  <2>1. CASE handleEvent
    BY <1>1, <2>1, HandleEventMoves, BootRoutes
  <2>2. CASE enterInitialState
    BY <2>2 DEF enterInitialState
  <2>3. CASE beginSetupMode
    BY <1>1, <2>3, TableRows DEF beginSetupMode, MainMovesTo, After, legalTransition
  <2>4. CASE StopSystem
    BY <2>4 DEF StopSystem, MainMovesTo, After, legalTransition
  <2> QED
    BY <1>1, <2>1, <2>2, <2>3, <2>4, StateChangers
<1>2. TypeInv /\ [Next]_vars =>
        [ state = "Booting" /\ state' # state =>
            \/ main = "enter" /\ main' # main
            \/ state' = "ShuttingDown" ]_vars
  BY <1>1
<1> QED
  BY <1>2, TypeInit, TypeStep, PTL DEF Spec, BootGate

\* From beyond discovery, the route of no event leads back into it: the one
\* legal edge (AUTHENTICATING to SEARCHING_STREAMER) is never asked for.
Settled == PastDiscovery \union {"Offline", "Degraded", "ShuttingDown"}

LEMMA SettledRoutes ==
  ASSUME NEW s \in PastDiscovery, NEW t \in RaisedTypes
  PROVE  /\ After(s, Detour(s, t)) \in PastDiscovery
         /\ After(s, Destination(s, t)) \in Settled
<1>1. Detour(s, t) \in PastDiscovery
  BY DEF Detour, PastDiscovery
<1>2. Destination(s, t) \in Settled
  BY DEF Destination, PastDiscovery, Settled, RaisedTypes, EventTypes, Searching
<1>3. \A u : After(s, u) \in {s, u}
  BY DEF After
<1> QED
  BY <1>1, <1>2, <1>3 DEF Settled

\* The connectivity poll, the discovery worker and the audio path together never
\* take a speaker that has found its streamer back to looking for it.
THEOREM NoBackslideHolds == Spec => NoBackslide
<1>1. ASSUME TypeInv, Next, state \in PastDiscovery
      PROVE  state' \notin {"SearchingStreamer", "ConnectingNetwork"}
  <2>1. CASE state' = state
    BY <1>1, <2>1 DEF PastDiscovery
  <2>2. CASE handleEvent
    <3>1. PICK t \in RaisedTypes :
            LET s1 == IF Ignored(state, t) THEN state ELSE After(state, Detour(state, t))
                s2 == IF Ignored(state, t) THEN state ELSE After(s1, Destination(s1, t))
            IN state' = s2 \/ state' = After(s2, "Degraded")
      BY <1>1, <2>2, HandleEventMoves
    <3>2. ~Ignored(state, t)
      BY <1>1 DEF Ignored, PastDiscovery
    <3> DEFINE s1 == After(state, Detour(state, t))
               s2 == After(s1, Destination(s1, t))
    <3>3. s1 \in PastDiscovery
      BY <1>1, SettledRoutes
    <3>4. s2 \in Settled
      BY <3>3, SettledRoutes
    <3>5. state' = s2 \/ state' = After(s2, "Degraded")
      BY <3>1, <3>2
    <3>6. After(s2, "Degraded") \in {s2, "Degraded"}
      BY DEF After
    <3> QED
      BY <3>4, <3>5, <3>6 DEF Settled, PastDiscovery
  <2>3. CASE enterInitialState
    BY <1>1, <2>3, TableRows
    DEF enterInitialState, MainMovesTo, After, legalTransition, PastDiscovery
  <2>4. CASE beginSetupMode
    BY <1>1, <2>4, TableRows DEF beginSetupMode, MainMovesTo, After, PastDiscovery
  <2>5. CASE StopSystem
    BY <2>5 DEF StopSystem, MainMovesTo, After, legalTransition
  <2> QED
    BY <1>1, <2>1, <2>2, <2>3, <2>4, <2>5, StateChangers
<1>2. TypeInv /\ [Next]_vars =>
        [~( /\ state \in PastDiscovery
            /\ state' \in {"SearchingStreamer", "ConnectingNetwork"} )]_vars
  BY <1>1
<1> QED
  BY <1>2, TypeInit, TypeStep, PTL DEF Spec, NoBackslide

----------------------------------------------------------------------------
(***************************************************************************)
(* The amplifier follows the stream, for every length of the event queue.  *)
(***************************************************************************)
\* A sequence of events reports the end of a stream.
HasStop(q) == \E i \in DOMAIN q : q[i] = "AudioStopped"

\* Every stream whose beginning q reports also ends in q.
Closed(q) ==
  \A i \in DOMAIN q : q[i] = "AudioStarted" =>
    \E j \in DOMAIN q : j > i /\ q[j] = "AudioStopped"

NoStart(q) == \A i \in DOMAIN q : q[i] # "AudioStarted"

\* Handler h still has to run for event t of the current dispatch.
InHand(h, t) == \E i \in DOMAIN todo : todo[i].handler = h /\ todo[i].event = t

EarlyPhases == {"config", "identity", "system", "amplifier"}
LatePhases == {"stopDiscovery", "stopAmplifier", "stopSystem", "stopBus", "stopped"}

\* The receiver runs between its start and its stop, and the bus accepts
\* events until the last phase: no report of the receiver is ever dropped.
ReceiverInv ==
  /\ main \in EarlyPhases \union LatePhases => ~source /\ ~streaming
  /\ ~busRunning => main \in {"stopBus", "stopped"}

\* What the amplifier gate relies on: a stream that has ended is closed by an
\* AudioStopped behind every AudioStarted the gate has yet to see.
GateInv ==
  ~others =>
    /\ ~streaming => Closed(queue)
    /\ ~streaming /\ InHand("ampGate", "AudioStarted") => HasStop(queue)
    /\ line = "open" => streaming \/ InHand("ampGate", "AudioStopped") \/ HasStop(queue)
    /\ noHardware => line = "muted"
    /\ main \in EarlyPhases => /\ line = "muted" /\ NoStart(queue)
                               /\ ~InHand("ampGate", "AudioStarted")

AudioInv == TypeInv /\ ReceiverInv /\ GateInv /\ (cal => others)

----------------------------------------------------------------------------
(***************************************************************************)
(* Appending to the queue, and taking its head.                            *)
(***************************************************************************)
LEMMA ConcatStop ==
  ASSUME NEW q \in Seq(EventTypes), NEW es \in Seq(EventTypes), HasStop(q) \/ HasStop(es)
  PROVE  HasStop(q \o es)
<1>1. CASE HasStop(q)
  <2>1. PICK i \in DOMAIN q : q[i] = "AudioStopped"
    BY <1>1 DEF HasStop
  <2>2. i \in DOMAIN (q \o es) /\ (q \o es)[i] = "AudioStopped"
    BY <2>1
  <2> QED  BY <2>2 DEF HasStop
<1>2. CASE HasStop(es)
  <2>1. PICK i \in DOMAIN es : es[i] = "AudioStopped"
    BY <1>2 DEF HasStop
  <2>2. Len(q) + i \in DOMAIN (q \o es) /\ (q \o es)[Len(q) + i] = "AudioStopped"
    BY <2>1
  <2> QED  BY <2>2 DEF HasStop
<1> QED  BY <1>1, <1>2

LEMMA ConcatClosed ==
  ASSUME NEW q \in Seq(EventTypes), NEW es \in Seq(EventTypes),
         Closed(es), Closed(q) \/ HasStop(es)
  PROVE  Closed(q \o es)
<1> SUFFICES ASSUME NEW i \in DOMAIN (q \o es), (q \o es)[i] = "AudioStarted"
             PROVE  \E j \in DOMAIN (q \o es) : j > i /\ (q \o es)[j] = "AudioStopped"
  BY DEF Closed
<1>1. CASE i \in DOMAIN q
  <2>1. CASE HasStop(es)
    <3>1. PICK j \in DOMAIN es : es[j] = "AudioStopped"
      BY <2>1 DEF HasStop
    <3>2. /\ Len(q) + j \in DOMAIN (q \o es) /\ (q \o es)[Len(q) + j] = "AudioStopped"
          /\ Len(q) + j > i
      BY <1>1, <3>1
    <3> QED  BY <3>2
  <2>2. CASE Closed(q)
    <3>1. q[i] = "AudioStarted"
      BY <1>1
    <3>2. PICK j \in DOMAIN q : j > i /\ q[j] = "AudioStopped"
      BY <1>1, <2>2, <3>1 DEF Closed
    <3>3. j \in DOMAIN (q \o es) /\ (q \o es)[j] = "AudioStopped"
      BY <3>2
    <3> QED  BY <3>2, <3>3
  <2> QED  BY <2>1, <2>2
<1>2. CASE i \notin DOMAIN q
  <2> DEFINE k == i - Len(q)
  <2>1. k \in DOMAIN es /\ es[k] = "AudioStarted"
    BY <1>2
  <2>2. PICK j \in DOMAIN es : j > k /\ es[j] = "AudioStopped"
    BY <2>1 DEF Closed
  <2>3. /\ Len(q) + j \in DOMAIN (q \o es) /\ (q \o es)[Len(q) + j] = "AudioStopped"
        /\ Len(q) + j > i
    BY <1>2, <2>2
  <2> QED  BY <2>3
<1> QED  BY <1>1, <1>2

LEMMA ConcatNoStart ==
  ASSUME NEW q \in Seq(EventTypes), NEW es \in Seq(EventTypes), NoStart(q), NoStart(es)
  PROVE  NoStart(q \o es)
<1> SUFFICES ASSUME NEW i \in DOMAIN (q \o es) PROVE (q \o es)[i] # "AudioStarted"
  BY DEF NoStart
<1>1. CASE i \in DOMAIN q
  BY <1>1 DEF NoStart
<1>2. CASE i \notin DOMAIN q
  <2>1. i - Len(q) \in DOMAIN es /\ (q \o es)[i] = es[i - Len(q)]
    BY <1>2
  <2> QED  BY <2>1 DEF NoStart
<1> QED  BY <1>1, <1>2

LEMMA NoStartClosed == \A q : NoStart(q) => Closed(q)
BY DEF NoStart, Closed

LEMMA ShortSeqs ==
  /\ NoStart(<<>>)
  /\ \A t : t # "AudioStarted" => NoStart(<<t>>)
  /\ HasStop(<<"AudioStopped">>)
BY DEF NoStart, HasStop

\* A state change reports neither the beginning nor the end of a stream.
LEMMA MovedNoStart ==
  ASSUME NEW s, NEW t
  PROVE  NoStart(Moved(s, t)) /\ Moved(s, t) \in Seq(EventTypes)
<1>1. Moved(s, t) \in {<<>>, <<"SearchEntered">>, <<"SearchLeft">>}
  BY DEF Moved
<1>2. /\ <<>> \in Seq(EventTypes) /\ <<"SearchEntered">> \in Seq(EventTypes)
      /\ <<"SearchLeft">> \in Seq(EventTypes)
  BY DEF EventTypes, Searching
<1>3. NoStart(<<>>) /\ NoStart(<<"SearchEntered">>) /\ NoStart(<<"SearchLeft">>)
  BY ShortSeqs
<1> QED
  BY <1>1, <1>2, <1>3, Zenon

\* Taking the head of the queue.
LEMMA TailFacts ==
  ASSUME NEW q \in Seq(EventTypes), q # <<>>
  PROVE  /\ Closed(q) => Closed(Tail(q))
         /\ Closed(q) /\ Head(q) = "AudioStarted" => HasStop(Tail(q))
         /\ HasStop(q) => Head(q) = "AudioStopped" \/ HasStop(Tail(q))
         /\ NoStart(q) => NoStart(Tail(q)) /\ Head(q) # "AudioStarted"
<1>1. /\ Len(q) \in Nat /\ Len(q) > 0 /\ DOMAIN q = 1..Len(q)
      /\ DOMAIN Tail(q) = 1..(Len(q) - 1) /\ Head(q) = q[1]
      /\ \A i \in DOMAIN Tail(q) : Tail(q)[i] = q[i + 1]
  OBVIOUS
<1>2. \A j \in DOMAIN q : j > 1 => j - 1 \in DOMAIN Tail(q) /\ Tail(q)[j - 1] = q[j]
  BY <1>1
<1>3. ASSUME Closed(q) PROVE Closed(Tail(q))
  <2> SUFFICES ASSUME NEW i \in DOMAIN Tail(q), Tail(q)[i] = "AudioStarted"
               PROVE  \E j \in DOMAIN Tail(q) : j > i /\ Tail(q)[j] = "AudioStopped"
    BY DEF Closed
  <2>1. i + 1 \in DOMAIN q /\ q[i + 1] = "AudioStarted" /\ i \in Nat
    BY <1>1
  <2>2. PICK j \in DOMAIN q : j > i + 1 /\ q[j] = "AudioStopped"
    BY <1>3, <2>1 DEF Closed
  <2>3. j - 1 \in DOMAIN Tail(q) /\ Tail(q)[j - 1] = "AudioStopped" /\ j - 1 > i
    BY <1>1, <1>2, <2>1, <2>2
  <2> QED  BY <2>3
<1>4. ASSUME Closed(q), Head(q) = "AudioStarted" PROVE HasStop(Tail(q))
  <2>1. 1 \in DOMAIN q /\ q[1] = "AudioStarted"
    BY <1>1, <1>4
  <2>2. PICK j \in DOMAIN q : j > 1 /\ q[j] = "AudioStopped"
    BY <1>4, <2>1 DEF Closed
  <2> QED  BY <1>2, <2>2 DEF HasStop
<1>5. ASSUME HasStop(q), Head(q) # "AudioStopped" PROVE HasStop(Tail(q))
  <2>1. PICK j \in DOMAIN q : q[j] = "AudioStopped"
    BY <1>5 DEF HasStop
  <2>2. j > 1
    BY <1>1, <1>5, <2>1
  <2> QED  BY <1>2, <2>1, <2>2 DEF HasStop
<1>6. ASSUME NoStart(q) PROVE NoStart(Tail(q)) /\ Head(q) # "AudioStarted"
  BY <1>1, <1>6 DEF NoStart
<1> QED
  BY <1>3, <1>4, <1>5, <1>6

\* publish() as the audio facts see it.
LEMMA PublishAudio ==
  ASSUME TypeInv, NEW es \in Seq(EventTypes), Publish(es)
  PROVE  /\ HasStop(queue) => HasStop(queue')
         /\ busRunning /\ HasStop(es) => HasStop(queue')
         /\ Closed(queue) /\ NoStart(es) => Closed(queue')
         /\ busRunning /\ Closed(es) /\ HasStop(es) => Closed(queue')
         /\ NoStart(queue) /\ NoStart(es) => NoStart(queue')
<1>1. queue \in Seq(EventTypes)
  BY DEF TypeInv, TypeOK
<1>2. CASE busRunning
  <2>1. queue' = queue \o es
    BY <1>2 DEF Publish, Published
  <2> QED
    BY <1>1, <1>2, <2>1, ConcatStop, ConcatClosed, ConcatNoStart, NoStartClosed, Zenon
<1>3. CASE ~busRunning
  BY <1>3 DEF Publish, Published
<1> QED
  BY <1>2, <1>3

\* Running one handler shortens the list by its head.
LEMMA InHandTail ==
  ASSUME TypeInv, NEW g, Runs(g), NEW h, NEW t
  PROVE  /\ InHand(h, t)' => InHand(h, t)
         /\ InHand(h, t) => InHand(h, t)' \/ (g = h /\ handling = t)
<1> DEFINE S == [handler : HandlerNames, event : EventTypes]
<1>1. todo \in Seq(S) /\ todo # <<>> /\ todo' = Tail(todo)
  BY DEF TypeInv, TypeOK, Runs
<1>2. /\ Len(todo) \in Nat /\ DOMAIN todo = 1..Len(todo) /\ Len(todo) > 0
      /\ DOMAIN todo' = 1..(Len(todo) - 1) /\ Head(todo) = todo[1]
      /\ \A i \in DOMAIN todo' : todo'[i] = todo[i + 1]
  <2> HIDE DEF S
  <2> QED  BY <1>1
<1>3. ASSUME InHand(h, t)' PROVE InHand(h, t)
  <2>1. PICK i \in DOMAIN todo' : todo'[i].handler = h /\ todo'[i].event = t
    BY <1>3 DEF InHand
  <2>2. i + 1 \in DOMAIN todo /\ todo[i + 1] = todo'[i]
    BY <1>2, <2>1
  <2> QED  BY <2>1, <2>2 DEF InHand
<1>4. ASSUME InHand(h, t), ~(g = h /\ handling = t) PROVE InHand(h, t)'
  <2>1. PICK i \in DOMAIN todo : todo[i].handler = h /\ todo[i].event = t
    BY <1>4 DEF InHand
  <2>2. i # 1
    BY <1>2, <1>4, <2>1 DEF Runs, handling
  <2>3. i - 1 \in DOMAIN todo' /\ todo'[i - 1] = todo[i]
    BY <1>2, <2>1, <2>2
  <2> QED  BY <2>1, <2>3 DEF InHand
<1> QED
  BY <1>3, <1>4

\* The steps that leave the gate's facts alone: they end no stream, report no
\* beginning, and open nothing.
LEMMA GateKept ==
  ASSUME GateInv, others => others', streaming => streaming',
         HasStop(queue) => HasStop(queue'), Closed(queue) => Closed(queue'),
         NoStart(queue) => NoStart(queue'),
         InHand("ampGate", "AudioStarted")' => InHand("ampGate", "AudioStarted"),
         \/ InHand("ampGate", "AudioStopped") => InHand("ampGate", "AudioStopped")'
         \/ line' = "muted",
         line' = line \/ line' = "muted",
         noHardware' = noHardware \/ line' = "muted",
         main' \in EarlyPhases => main \in EarlyPhases
  PROVE  GateInv'
<1> SUFFICES ASSUME ~others' PROVE GateInv'
  BY DEF GateInv
<1>1. /\ ~streaming => Closed(queue)
      /\ ~streaming /\ InHand("ampGate", "AudioStarted") => HasStop(queue)
      /\ line = "open" => streaming \/ InHand("ampGate", "AudioStopped") \/ HasStop(queue)
      /\ noHardware => line = "muted"
      /\ main \in EarlyPhases => /\ line = "muted" /\ NoStart(queue)
                                 /\ ~InHand("ampGate", "AudioStarted")
  BY DEF GateInv
<1>2. ~streaming' => Closed(queue')
  BY <1>1
<1>3. ~streaming' /\ InHand("ampGate", "AudioStarted")' => HasStop(queue')
  BY <1>1
<1>4. line' = "open" => streaming' \/ InHand("ampGate", "AudioStopped")' \/ HasStop(queue')
  BY <1>1
<1>5. noHardware' => line' = "muted"
  BY <1>1
<1>6. main' \in EarlyPhases => /\ line' = "muted" /\ NoStart(queue')
                              /\ ~InHand("ampGate", "AudioStarted")'
  BY <1>1
<1> QED
  BY <1>2, <1>3, <1>4, <1>5, <1>6 DEF GateInv

----------------------------------------------------------------------------
(***************************************************************************)
(* The receiver's phases.                                                  *)
(***************************************************************************)
LEMMA ReceiverStep ==
  ASSUME TypeInv, ReceiverInv, cal => others, Next
  PROVE  ReceiverInv' /\ (cal' => others')
<1> USE DEF ReceiverInv, EarlyPhases, LatePhases, sysVars, busVars, ampVars, audioVars,
            cfgVars, calVars
<1>1. CASE DispatchNext
  BY <1>1 DEF DispatchNext
<1>2. CASE handleEvent
  <2>1. UNCHANGED <<main, busRunning, cal, others>>
    BY <1>2 DEF handleEvent
  <2>2. (source' => source) /\ (streaming' => streaming)
    <3>1. \/ source' = FALSE /\ streaming' = FALSE
          \/ UNCHANGED <<source, streaming>>
      BY <1>2 DEF handleEvent, Disable
    <3> QED  BY <3>1
  <2> QED  BY <2>1, <2>2
<1>3. CASE ampGate
  BY <1>3 DEF ampGate
<1>4. CASE discoveryGate
  BY <1>4 DEF discoveryGate
<1>5. CASE identifyGate
  <2>1. UNCHANGED <<main, busRunning, source, streaming, cal>>
    BY <1>5 DEF identifyGate
  <2>2. others => others'
    BY <1>5, Zenon DEF identifyGate, ToneStarts
  <2> QED  BY <2>1, <2>2
<1>6. CASE StartConfig \/ StartIdentity \/ StartSystem \/ StartAmplifier \/ StartAudio
  <2>1. CASE StartConfig
    BY <2>1 DEF StartConfig
  <2>2. CASE StartIdentity \/ StartSystem \/ StartAmplifier
    <3>1. UNCHANGED <<busRunning, source, streaming, cal, others>> /\ main \in EarlyPhases
      BY <2>2 DEF StartIdentity, StartSystem, StartAmplifier
    <3> QED  BY <3>1
  <2>3. CASE StartAudio
    BY <2>3 DEF StartAudio
  <2> QED  BY <1>6, <2>1, <2>2, <2>3
<1>7. CASE enterInitialState \/ beginSetupMode \/ Run \/ StopWeb
  BY <1>7 DEF enterInitialState, beginSetupMode, Run, StopWeb
<1>8. CASE StopAudio \/ StopDiscovery \/ StopAmplifier \/ StopSystem \/ StopBus
  <2>1. CASE StopAudio
    BY <2>1 DEF StopAudio
  <2>2. CASE StopDiscovery \/ StopAmplifier \/ StopSystem
    BY <2>2 DEF StopDiscovery, StopAmplifier, StopSystem
  <2>3. CASE StopBus
    <3>1. UNCHANGED <<source, streaming, cal, others>>
      BY <2>3 DEF StopBus
    <3>2. main = "stopBus" /\ main' \in {"stopBus", "stopped"}
      BY <2>3, Zenon DEF StopBus
    <3> QED  BY <3>1, <3>2
  <2> QED  BY <1>8, <2>1, <2>2, <2>3
<1>9. CASE \E last \in BOOLEAN : onDatagram(last)
  BY <1>9 DEF onDatagram
<1>10. CASE searchLoop \/ NetworkPoll \/ WatchdogTimeout \/ processRequest \/ factoryReset
            \/ Connects \/ PeerEnds
  BY <1>10 DEF searchLoop, NetworkPoll, WatchdogTimeout, processRequest, factoryReset, Connects,
               PeerEnds
<1>11. CASE audioTest \/ RunAudioTest \/ reboot \/ requestShutdown
  BY <1>11 DEF audioTest, ToneStarts, RunAudioTest, reboot, requestShutdown
<1>12. CASE CalibrationMutes \/ CalibrationUnmutes
  <2>1. UNCHANGED <<main, busRunning, source, streaming>>
    BY <1>12 DEF CalibrationMutes, CalibrationUnmutes
  <2>2. cal' => others'
    BY <1>12, Zenon DEF CalibrationMutes, CalibrationUnmutes
  <2> QED  BY <2>1, <2>2
<1>13. CASE Exited
  BY <1>13 DEF Exited, vars
<1> QED
  BY <1>1, <1>2, <1>3, <1>4, <1>5, <1>6, <1>7, <1>8, <1>9, <1>10, <1>11, <1>12, <1>13
  DEF Next, BusWorker, MainThread, Environment

----------------------------------------------------------------------------
(***************************************************************************)
(* The gate's facts, thread by thread.                                     *)
(***************************************************************************)
\* A step that publishes events other than AudioStarted, and nothing more.
LEMMA GatePublish ==
  ASSUME TypeInv, GateInv, others => others', UNCHANGED <<todo, streaming, line, noHardware>>,
         NEW es \in Seq(EventTypes), NoStart(es), UNCHANGED queue \/ Publish(es),
         main' \in EarlyPhases => main \in EarlyPhases
  PROVE  GateInv'
<1>1. /\ InHand("ampGate", "AudioStarted")' <=> InHand("ampGate", "AudioStarted")
      /\ InHand("ampGate", "AudioStopped")' <=> InHand("ampGate", "AudioStopped")
  BY DEF InHand
<1>2. /\ HasStop(queue) => HasStop(queue')
      /\ Closed(queue) => Closed(queue')
      /\ NoStart(queue) => NoStart(queue')
  BY PublishAudio
<1>3. streaming' = streaming /\ line' = line /\ noHardware' = noHardware
  OBVIOUS
<1> QED
  BY <1>1, <1>2, <1>3, GateKept

\* The events this system publishes, one at a time.
LEMMA OneEvent ==
  ASSUME NEW t \in RaisedTypes, t # "AudioStarted"
  PROVE  <<t>> \in Seq(EventTypes) /\ NoStart(<<t>>)
BY ShortSeqs DEF RaisedTypes

LEMMA NoEvent == <<>> \in Seq(EventTypes) /\ NoStart(<<>>)
BY ShortSeqs

LEMMA MuteMutes ==
  ASSUME GateInv, ~others, Amp!Mute(TRUE)
  PROVE  line' = "muted" /\ noHardware' = noHardware
BY DEF GateInv, Amp!Mute

\* A dispatch copies the gate's handler exactly for the two audio events.
LEMMA DispatchedToGate ==
  ASSUME NEW t \in RaisedTypes, NEW u \in {"AudioStarted", "AudioStopped"}
  PROVE  (\E i \in DOMAIN Calls(t) : Calls(t)[i].handler = "ampGate" /\ Calls(t)[i].event = u)
           <=> t = u
<1> DEFINE sys == IF subscribed /\ t \notin RoutedElsewhere THEN <<"system">> ELSE <<>>
<1>1. /\ DOMAIN Calls(t) = DOMAIN Subscribers(t)
      /\ \A i \in DOMAIN Calls(t) : Calls(t)[i] = [handler |-> Subscribers(t)[i], event |-> t]
  BY DEF Calls
<1>2. sys \in {<<>>, <<"system">>}
  BY Zenon
<1>3. ASSUME t = u PROVE \E i \in DOMAIN Subscribers(t) : Subscribers(t)[i] = "ampGate"
  <2> DEFINE own == CASE t \in {"AudioStarted", "AudioStopped"} -> <<"ampGate">>
                      [] t \in Searching -> <<"discovery">>
                      [] t = "RunAudioTest" -> <<"identify">>
                      [] OTHER -> <<>>
  <2>1. own = <<"ampGate">>
    BY <1>3 DEF Searching
  <2>2. Subscribers(t) = own \o sys
    BY Zenon DEF Subscribers
  <2> HIDE DEF own, sys
  <2>3. Subscribers(t) = <<"ampGate">> \o sys
    BY <2>1, <2>2
  <2>4. 1 \in DOMAIN Subscribers(t) /\ Subscribers(t)[1] = "ampGate"
    BY <1>2, <2>3
  <2> QED  BY <2>4
<1> QED
  BY <1>1, <1>3

LEMMA GateDispatch ==
  ASSUME TypeInv, GateInv, DispatchNext
  PROVE  GateInv'
<1>1. queue \in Seq(EventTypes) /\ queue # <<>> /\ Head(queue) \in RaisedTypes
  BY DEF TypeInv, TypeOK, DispatchNext
<1>2. queue' = Tail(queue) /\ todo' = Calls(Head(queue)) /\ todo = <<>>
  BY DEF DispatchNext
<1>3. UNCHANGED <<main, streaming, line, noHardware, others>>
  BY DEF DispatchNext, ampVars, audioVars, calVars
<1>4. /\ InHand("ampGate", "AudioStarted")' <=> Head(queue) = "AudioStarted"
      /\ InHand("ampGate", "AudioStopped")' <=> Head(queue) = "AudioStopped"
  BY <1>1, <1>2, DispatchedToGate DEF InHand
<1>5. ~InHand("ampGate", "AudioStopped")
  BY <1>2 DEF InHand
<1> SUFFICES ASSUME ~others PROVE GateInv'
  BY <1>3 DEF GateInv
<1>6. /\ ~streaming => Closed(queue)
      /\ line = "open" => streaming \/ HasStop(queue)
      /\ noHardware => line = "muted"
      /\ main \in EarlyPhases => line = "muted" /\ NoStart(queue)
  BY <1>5 DEF GateInv
<1>7. /\ Closed(queue) => Closed(queue')
      /\ Closed(queue) /\ Head(queue) = "AudioStarted" => HasStop(queue')
      /\ HasStop(queue) => Head(queue) = "AudioStopped" \/ HasStop(queue')
      /\ NoStart(queue) => NoStart(queue') /\ Head(queue) # "AudioStarted"
  BY <1>1, <1>2, TailFacts
<1> QED
  BY <1>3, <1>4, <1>6, <1>7 DEF GateInv

\* ampGate opens the line only for a stream that runs or is closed behind it.
LEMMA GateRuns ==
  ASSUME TypeInv, GateInv, ampGate
  PROVE  GateInv'
<1>1. UNCHANGED <<main, queue, streaming, others>>
  BY DEF ampGate, audioVars, calVars
<1> SUFFICES ASSUME ~others PROVE GateInv'
  BY <1>1 DEF GateInv
<1>2. Runs("ampGate")
  BY DEF ampGate
<1>3. /\ InHand("ampGate", "AudioStarted")' => InHand("ampGate", "AudioStarted")
      /\ InHand("ampGate", "AudioStopped") =>
           InHand("ampGate", "AudioStopped")' \/ handling = "AudioStopped"
  BY <1>2, InHandTail
<1>4. CASE handling = "AudioStarted" /\ Amp!Unmute(TRUE)
  <2>1. 1 \in DOMAIN todo /\ todo[1].handler = "ampGate" /\ todo[1].event = "AudioStarted"
    BY <1>2, <1>4 DEF Runs, handling, TypeInv, TypeOK
  <2>2. InHand("ampGate", "AudioStarted")
    BY <2>1 DEF InHand
  <2>3. streaming \/ HasStop(queue)
    BY <2>2 DEF GateInv
  <2>4. main \notin EarlyPhases
    BY <2>2 DEF GateInv
  <2>5. noHardware' = noHardware /\ (noHardware => line' = line)
    BY <1>4 DEF Amp!Unmute
  <2> QED
    BY <1>1, <1>3, <2>2, <2>3, <2>4, <2>5 DEF GateInv
<1>5. CASE handling = "AudioStarted" /\ UNCHANGED ampVars
  BY <1>1, <1>3, <1>5, GateKept DEF ampVars
<1>6. CASE handling = "AudioStopped" /\ Amp!Mute(TRUE)
  <2>1. line' = "muted"
    BY <1>6, MuteMutes
  <2> QED
    BY <1>1, <1>3, <2>1, GateKept
<1> QED
  BY <1>4, <1>5, <1>6 DEF ampGate

\* handleEvent: safe mode mutes, stops the receiver and reports the end of a
\* running stream; every other event leaves the audio facts alone.
LEMMA GateHandleEvent ==
  ASSUME TypeInv, GateInv, ReceiverInv, handleEvent
  PROVE  GateInv'
<1> DEFINE t == handling
           s1 == IF Ignored(state, t) THEN state ELSE After(state, Detour(state, t))
           s2 == IF Ignored(state, t) THEN state ELSE After(s1, Destination(s1, t))
           ended == IF streaming THEN <<"AudioStopped">> ELSE <<>>
           s3 == After(s2, "Degraded")
           plain == Moved(state, s1) \o Moved(s1, s2)
           full == plain \o ended \o Moved(s2, s3)
<1>1. UNCHANGED <<main, others>> /\ Runs("system")
  BY DEF handleEvent, calVars
<1> SUFFICES ASSUME ~others PROVE GateInv'
  BY <1>1 DEF GateInv
<1>2. /\ InHand("ampGate", "AudioStarted")' => InHand("ampGate", "AudioStarted")
      /\ InHand("ampGate", "AudioStopped") => InHand("ampGate", "AudioStopped")'
  BY <1>1, InHandTail
<1>3. /\ plain \in Seq(EventTypes) /\ NoStart(plain)
  <2> HIDE DEF s1, s2
  <2> QED  BY MovedNoStart, ConcatNoStart
<1>4. /\ ended \in Seq(EventTypes) /\ NoStart(ended)
      /\ streaming => HasStop(ended)
  <2>1. <<"AudioStopped">> \in Seq(EventTypes) /\ NoStart(<<"AudioStopped">>)
    BY OneEvent, RaisedMembers
  <2> QED  BY <2>1, NoEvent, ShortSeqs, Zenon
<1>5. /\ full \in Seq(EventTypes) /\ NoStart(full)
      /\ streaming => HasStop(full)
  <2> HIDE DEF plain, ended, s2, s3
  <2>1. plain \o ended \in Seq(EventTypes) /\ NoStart(plain \o ended)
    BY <1>3, <1>4, ConcatNoStart
  <2>2. streaming => HasStop(plain \o ended)
    BY <1>3, <1>4, ConcatStop
  <2> DEFINE pe == plain \o ended
             m == Moved(s2, s3)
  <2>3. m \in Seq(EventTypes) /\ NoStart(m)
    BY MovedNoStart, Zenon
  <2>4. /\ pe \in Seq(EventTypes) /\ NoStart(pe)
        /\ streaming => HasStop(pe)
    BY <2>1, <2>2, Zenon
  <2> HIDE DEF pe, m
  <2>5. pe \o m \in Seq(EventTypes) /\ NoStart(pe \o m)
    BY <2>3, <2>4, ConcatNoStart
  <2>6. streaming => HasStop(pe \o m)
    BY <2>3, <2>4, ConcatStop
  <2> QED  BY <2>5, <2>6 DEF pe, m
<1>6. CASE Disable /\ Publish(full)
  <2>1. line' = "muted" /\ noHardware' = noHardware /\ streaming' = FALSE
    BY <1>6, MuteMutes DEF Disable
  <2>2. CASE streaming
    <3>1. busRunning
      BY <2>2 DEF ReceiverInv, LatePhases, EarlyPhases
    <3>2. HasStop(queue') /\ Closed(queue')
      BY <1>5, <1>6, <2>2, <3>1, PublishAudio, NoStartClosed
    <3>3. main \notin EarlyPhases
      BY <2>2 DEF ReceiverInv
    <3> QED  BY <1>1, <2>1, <3>2, <3>3 DEF GateInv
  <2>3. CASE ~streaming
    <3>1. /\ HasStop(queue) => HasStop(queue')
          /\ Closed(queue) => Closed(queue')
          /\ NoStart(queue) => NoStart(queue')
      BY <1>5, <1>6, PublishAudio
    <3> QED  BY <1>1, <1>2, <2>1, <2>3, <3>1, GateKept
  <2> QED  BY <2>2, <2>3
<1>7. CASE UNCHANGED <<ampVars, audioVars>> /\ Publish(plain)
  <2>1. /\ HasStop(queue) => HasStop(queue')
        /\ Closed(queue) => Closed(queue')
        /\ NoStart(queue) => NoStart(queue')
    BY <1>3, <1>7, PublishAudio
  <2>2. UNCHANGED <<streaming, line, noHardware>>
    BY <1>7 DEF ampVars, audioVars
  <2> QED  BY <1>1, <1>2, <2>1, <2>2, GateKept
<1> QED
  BY <1>6, <1>7, Zenon DEF handleEvent

LEMMA GateBusWorker ==
  ASSUME TypeInv, GateInv, ReceiverInv, BusWorker
  PROVE  GateInv'
<1> USE DEF sysVars, busVars, ampVars, audioVars, cfgVars, calVars
<1>1. CASE discoveryGate
  <2>1. UNCHANGED <<main, queue, streaming, line, noHardware, others>> /\ Runs("discovery")
    BY <1>1 DEF discoveryGate
  <2>2. /\ InHand("ampGate", "AudioStarted")' => InHand("ampGate", "AudioStarted")
        /\ InHand("ampGate", "AudioStopped") => InHand("ampGate", "AudioStopped")'
    BY <2>1, InHandTail
  <2> QED  BY <2>1, <2>2, GateKept
<1>2. CASE identifyGate
  <2>1. CASE ToneStarts
    BY <2>1 DEF ToneStarts, GateInv
  <2>2. CASE UNCHANGED <<queue, others>>
    <3>1. UNCHANGED <<main, queue, streaming, line, noHardware, others>> /\ Runs("identify")
      BY <1>2, <2>2 DEF identifyGate
    <3>2. /\ InHand("ampGate", "AudioStarted")' => InHand("ampGate", "AudioStarted")
          /\ InHand("ampGate", "AudioStopped") => InHand("ampGate", "AudioStopped")'
      BY <3>1, InHandTail
    <3> QED  BY <3>1, <3>2, GateKept
  <2> QED  BY <1>2, <2>1, <2>2 DEF identifyGate
<1> QED
  BY <1>1, <1>2, GateDispatch, GateRuns, GateHandleEvent DEF BusWorker

\* The receiver's stop reports the end of a running stream.
LEMMA GateStopAudio ==
  ASSUME TypeInv, GateInv, ReceiverInv, StopAudio
  PROVE  GateInv'
<1>1. /\ UNCHANGED <<todo, line, noHardware, others>> /\ streaming' = FALSE
      /\ main = "stopAudio" /\ main' = "stopDiscovery"
      /\ Publish(IF streaming THEN <<"AudioStopped">> ELSE <<>>)
  BY DEF StopAudio, ampVars, calVars
<1>2. main' \notin EarlyPhases /\ busRunning
  BY <1>1 DEF EarlyPhases, ReceiverInv
<1>3. CASE streaming
  <2>1. <<"AudioStopped">> \in Seq(EventTypes) /\ NoStart(<<"AudioStopped">>)
    BY OneEvent, RaisedMembers
  <2>2. Publish(<<"AudioStopped">>)
    BY <1>1, <1>3
  <2>3. HasStop(queue') /\ Closed(queue')
    BY <1>2, <2>1, <2>2, ShortSeqs, PublishAudio, NoStartClosed
  <2> QED  BY <1>1, <1>2, <2>3 DEF GateInv
<1>4. CASE ~streaming
  <2>1. Publish(<<>>) /\ UNCHANGED <<todo, streaming, line, noHardware, others>>
    <3>1. streaming' = streaming
      BY <1>1, <1>4 DEF TypeInv, TypeOK
    <3> QED  BY <1>1, <1>4, <3>1
  <2> QED  BY <1>2, <2>1, NoEvent, GatePublish
<1> QED  BY <1>3, <1>4

\* A datagram: the first of a stream, the last, both, or one in between.
LEMMA GateDatagram ==
  ASSUME TypeInv, GateInv, ReceiverInv, NEW last \in BOOLEAN, onDatagram(last)
  PROVE  GateInv'
<1> DEFINE first == IF streaming THEN <<>> ELSE <<"AudioStarted">>
           end == IF last THEN <<"AudioStopped">> ELSE <<>>
<1>1. UNCHANGED <<main, todo, line, noHardware, others>> /\ source
  BY DEF onDatagram, ampVars, calVars
<1>2. (streaming' <=> ~last) /\ Publish(first \o end)
  BY Zenon DEF onDatagram
<1>3. busRunning /\ main \notin EarlyPhases
  BY <1>1 DEF ReceiverInv, EarlyPhases, LatePhases
<1>4. /\ <<"AudioStopped">> \in Seq(EventTypes) /\ <<"AudioStarted">> \in Seq(EventTypes)
      /\ <<>> \in Seq(EventTypes)
  BY DEF EventTypes
<1>5. first \in Seq(EventTypes) /\ end \in Seq(EventTypes)
  BY <1>4, Zenon
<1>6. CASE ~last
  BY <1>1, <1>2, <1>3, <1>6 DEF GateInv
<1>7. CASE last
  <2>1. end = <<"AudioStopped">>
    BY <1>7
  <2>2. HasStop(end) /\ Closed(end)
    BY <2>1, ShortSeqs, NoStartClosed
  <2> HIDE DEF first, end
  <2>3. HasStop(first \o end) /\ Closed(first \o end) /\ first \o end \in Seq(EventTypes)
    BY <1>5, <2>2, ConcatStop, ConcatClosed
  <2>4. HasStop(queue') /\ Closed(queue')
    BY <1>2, <1>3, <2>3, PublishAudio
  <2> QED  BY <1>1, <1>3, <2>4 DEF GateInv
<1> QED  BY <1>6, <1>7

LEMMA GateMainThread ==
  ASSUME TypeInv, GateInv, ReceiverInv, MainThread
  PROVE  GateInv'
<1> USE DEF sysVars, busVars, ampVars, audioVars, cfgVars, calVars, EarlyPhases
<1>1. CASE StartConfig
  <2>1. UNCHANGED queue \/ Publish(<<"ConfigInvalid">>)
    BY <1>1 DEF StartConfig
  <2>2. UNCHANGED <<todo, streaming, line, noHardware, others>> /\ main \in EarlyPhases
    BY <1>1 DEF StartConfig
  <2> QED  BY <2>1, <2>2, OneEvent, RaisedMembers, GatePublish
<1>2. CASE StartIdentity \/ StartSystem \/ StartAudio
  <2>1. /\ UNCHANGED <<queue, todo, streaming, line, noHardware, others>>
        /\ main' \in EarlyPhases => main \in EarlyPhases
    BY <1>2 DEF StartIdentity, StartSystem, StartAudio
  <2> QED  BY <2>1, NoEvent, GatePublish
<1>3. CASE StartAmplifier
  <2>1. UNCHANGED <<queue, todo, streaming, others>> /\ main \in EarlyPhases
    BY <1>3 DEF StartAmplifier
  <2> SUFFICES ASSUME ~others PROVE GateInv'
    BY <2>1 DEF GateInv
  <2>2. line = "muted"
    BY <2>1 DEF GateInv
  <2>3. line' = "muted"
    BY <1>3, <2>2 DEF StartAmplifier, Amp!AmpStart, Amp!HalMute
  <2>4. /\ InHand("ampGate", "AudioStarted")' <=> InHand("ampGate", "AudioStarted")
        /\ InHand("ampGate", "AudioStopped")' <=> InHand("ampGate", "AudioStopped")
    BY <2>1 DEF InHand
  <2> QED  BY <2>1, <2>3, <2>4, GateKept
<1>4. CASE enterInitialState \/ beginSetupMode \/ StopSystem
  <2>1. PICK to : MainMovesTo(to)
    BY <1>4 DEF enterInitialState, beginSetupMode, StopSystem
  <2>2. Publish(Moved(state, After(state, to)))
    BY <2>1 DEF MainMovesTo
  <2>3. /\ UNCHANGED <<todo, streaming, line, noHardware, others>>
        /\ main' \notin EarlyPhases
    BY <1>4 DEF enterInitialState, beginSetupMode, StopSystem
  <2> QED  BY <2>2, <2>3, MovedNoStart, GatePublish
<1>5. CASE Run \/ StopWeb \/ StopDiscovery
  <2>1. /\ UNCHANGED <<queue, todo, streaming, line, noHardware, others>>
        /\ main' \notin EarlyPhases
    BY <1>5 DEF Run, StopWeb, StopDiscovery
  <2> QED  BY <2>1, NoEvent, GatePublish
<1>6. CASE StopAmplifier
  <2>1. UNCHANGED <<queue, todo, streaming, others>> /\ main' \notin EarlyPhases
    BY <1>6 DEF StopAmplifier
  <2> SUFFICES ASSUME ~others PROVE GateInv'
    BY <2>1 DEF GateInv
  <2>2. line' = "muted"
    BY <1>6 DEF StopAmplifier, Amp!AmpStop, GateInv
  <2>3. /\ InHand("ampGate", "AudioStarted")' <=> InHand("ampGate", "AudioStarted")
        /\ InHand("ampGate", "AudioStopped")' <=> InHand("ampGate", "AudioStopped")
    BY <2>1 DEF InHand
  <2> QED  BY <2>1, <2>2, <2>3, GateKept
<1>7. CASE StopBus
  <2>1. /\ UNCHANGED <<queue, todo, streaming, line, noHardware, others>>
        /\ main' \notin EarlyPhases
    BY <1>7 DEF StopBus
  <2> QED  BY <2>1, NoEvent, GatePublish
<1> QED
  BY <1>1, <1>2, <1>3, <1>4, <1>5, <1>6, <1>7, GateStopAudio DEF MainThread

LEMMA GateEnvironment ==
  ASSUME TypeInv, GateInv, ReceiverInv, cal => others, Environment
  PROVE  GateInv'
<1> USE DEF sysVars, busVars, ampVars, audioVars, cfgVars, calVars
<1>1. CASE \E last \in BOOLEAN : onDatagram(last)
  BY <1>1, GateDatagram
<1>2. CASE searchLoop \/ WatchdogTimeout \/ processRequest \/ RunAudioTest \/ reboot
  <2>1. UNCHANGED <<main, todo, streaming, line, noHardware, others>>
    BY <1>2 DEF searchLoop, WatchdogTimeout, processRequest, RunAudioTest, reboot
  <2>2. \E t \in RaisedTypes : t # "AudioStarted" /\ Publish(<<t>>)
    BY <1>2, RaisedMembers DEF searchLoop, WatchdogTimeout, processRequest, RunAudioTest, reboot
  <2> QED  BY <2>1, <2>2, OneEvent, GatePublish
<1>3. CASE NetworkPoll
  <2>1. UNCHANGED <<main, todo, streaming, line, noHardware, others>>
    BY <1>3 DEF NetworkPoll
  <2>2. \E t \in RaisedTypes : t # "AudioStarted" /\ Publish(<<t>>)
    BY <1>3, RaisedMembers DEF NetworkPoll
  <2> QED  BY <2>1, <2>2, OneEvent, GatePublish
<1>4. CASE factoryReset \/ Connects \/ PeerEnds
  <2>1. UNCHANGED <<main, queue, todo, streaming, line, noHardware, others>>
    BY <1>4 DEF factoryReset, Connects, PeerEnds
  <2> QED  BY <2>1, NoEvent, GatePublish
<1>5. CASE audioTest \/ CalibrationMutes \/ CalibrationUnmutes
  <2>1. others'
    BY <1>5 DEF audioTest, ToneStarts, CalibrationMutes, CalibrationUnmutes
  <2> QED  BY <2>1 DEF GateInv
<1>6. CASE requestShutdown
  <2>1. /\ UNCHANGED <<todo, streaming, line, noHardware, others>>
        /\ Publish(<<"ShutdownRequested">>)
        /\ main' \in EarlyPhases => main \in EarlyPhases
    BY <1>6 DEF requestShutdown, EarlyPhases
  <2> QED  BY <2>1, OneEvent, RaisedMembers, GatePublish
<1> QED
  BY <1>1, <1>2, <1>3, <1>4, <1>5, <1>6 DEF Environment

LEMMA AudioInit == Init => AudioInv
<1> SUFFICES ASSUME Init PROVE AudioInv
  OBVIOUS
<1>1. ReceiverInv /\ ~cal
  BY DEF Init, ReceiverInv
<1>2. GateInv
  BY DEF Init, GateInv, Amp!AmpInit, Closed, NoStart, InHand
<1> QED  BY <1>1, <1>2, TypeInit DEF AudioInv

LEMMA AudioStep == AudioInv /\ [Next]_vars => AudioInv'
<1>1. ASSUME AudioInv, Next PROVE AudioInv'
  <2>1. TypeInv' /\ ReceiverInv' /\ (cal' => others')
    BY <1>1, TypeStep, ReceiverStep DEF AudioInv
  <2>2. CASE BusWorker \/ MainThread \/ Environment
    <3>1. GateInv'
      BY <1>1, <2>2, GateBusWorker, GateMainThread, GateEnvironment DEF AudioInv
    <3> QED  BY <2>1, <3>1 DEF AudioInv
  <2>3. CASE Exited
    <3>1. UNCHANGED <<main, queue, todo, streaming, line, noHardware, others>>
      BY <2>3 DEF Exited, vars, busVars, ampVars, audioVars, calVars
    <3>2. GateInv'
      BY <1>1, <3>1, NoEvent, GatePublish DEF AudioInv
    <3> QED  BY <2>1, <3>2 DEF AudioInv
  <2> QED  BY <1>1, <2>2, <2>3 DEF Next
<1>2. ASSUME AudioInv, UNCHANGED vars PROVE AudioInv'
  BY <1>2 DEF vars, sysVars, busVars, ampVars, audioVars, cfgVars, calVars, AudioInv, TypeInv,
              TypeOK, ReceiverInv, GateInv, InHand
<1> QED  BY <1>1, <1>2

\* An amplifier that no tone and no calibration has opened is open only while a
\* stream runs or while the event that mutes it is on the bus, however the
\* receiver, the bus worker, safe mode and shutdown interleave.
THEOREM SilentWithoutStreamHolds == Spec => []SilentWithoutStream
<1>1. AudioInv => SilentWithoutStream
  BY DEF AudioInv, GateInv, SilentWithoutStream, Pending, InHand, HasStop, TypeInv, TypeOK
<1> QED
  BY <1>1, AudioInit, AudioStep, PTL DEF Spec

----------------------------------------------------------------------------
(***************************************************************************)
(* Which handlers a dispatch copies, and what is left of them after each.  *)
(***************************************************************************)
LEMMA Dispatched ==
  ASSUME NEW t \in RaisedTypes, todo' = Calls(t)
  PROVE  /\ \A i \in DOMAIN todo' : /\ todo'[i].event = t
                                    /\ todo'[i].handler = "discovery" => t \in Searching
                                    /\ todo'[i].handler = "system" => subscribed
         /\ \A u \in Searching : InHand("discovery", u)' <=> t = u
         /\ \A u : InHand("system", u)' => t = u
         /\ subscribed /\ t \notin RoutedElsewhere => InHand("system", t)'
<1> DEFINE own == CASE t \in {"AudioStarted", "AudioStopped"} -> <<"ampGate">>
                    [] t \in Searching -> <<"discovery">>
                    [] t = "RunAudioTest" -> <<"identify">>
                    [] OTHER -> <<>>
           sys == IF subscribed /\ t \notin RoutedElsewhere THEN <<"system">> ELSE <<>>
<1>1. /\ DOMAIN Calls(t) = DOMAIN Subscribers(t)
      /\ \A i \in DOMAIN Calls(t) : Calls(t)[i] = [handler |-> Subscribers(t)[i], event |-> t]
  BY DEF Calls
<1>2. Subscribers(t) = own \o sys
  BY Zenon DEF Subscribers
<1>3. /\ own \in {<<>>, <<"ampGate">>, <<"discovery">>, <<"identify">>}
      /\ t \in Searching <=> own = <<"discovery">>
  BY DEF Searching
<1>4. /\ sys \in {<<>>, <<"system">>}
      /\ sys = <<"system">> <=> subscribed /\ t \notin RoutedElsewhere
  <2>1. <<>> # <<"system">>
    OBVIOUS
  <2> QED  BY <2>1, Zenon
<1> HIDE DEF own, sys
<1>5. own \in Seq(HandlerNames) /\ sys \in Seq(HandlerNames)
  <2>1. /\ <<>> \in Seq(HandlerNames) /\ <<"system">> \in Seq(HandlerNames)
        /\ <<"ampGate">> \in Seq(HandlerNames) /\ <<"discovery">> \in Seq(HandlerNames)
        /\ <<"identify">> \in Seq(HandlerNames)
    BY DEF HandlerNames
  <2> QED  BY <1>3, <1>4, <2>1, Zenon
<1>6. /\ \A i \in DOMAIN own : own[i] \in {"ampGate", "discovery", "identify"}
      /\ \A i \in DOMAIN own : own[i] = "discovery" => t \in Searching
      /\ t \in Searching => 1 \in DOMAIN own /\ own[1] = "discovery"
  BY <1>3
<1>7. /\ \A i \in DOMAIN sys : sys[i] = "system" /\ subscribed
      /\ subscribed /\ t \notin RoutedElsewhere => 1 \in DOMAIN sys /\ sys[1] = "system"
  BY <1>4
<1>8. \A i \in DOMAIN (own \o sys) :
        \/ i \in DOMAIN own /\ (own \o sys)[i] = own[i]
        \/ i - Len(own) \in DOMAIN sys /\ (own \o sys)[i] = sys[i - Len(own)]
  BY <1>5
<1>9. /\ \A i \in DOMAIN own : i \in DOMAIN (own \o sys) /\ (own \o sys)[i] = own[i]
      /\ \A i \in DOMAIN sys : /\ Len(own) + i \in DOMAIN (own \o sys)
                               /\ (own \o sys)[Len(own) + i] = sys[i]
  BY <1>5
<1>10. /\ DOMAIN todo' = DOMAIN (own \o sys)
       /\ \A i \in DOMAIN todo' : todo'[i].event = t /\ todo'[i].handler = (own \o sys)[i]
  BY <1>1, <1>2
<1>11. \A i \in DOMAIN todo' : /\ todo'[i].handler = "discovery" => t \in Searching
                               /\ todo'[i].handler = "system" => subscribed
  BY <1>6, <1>7, <1>8, <1>10
<1>12. t \in Searching => InHand("discovery", t)'
  BY <1>6, <1>9, <1>10 DEF InHand
<1>13. subscribed /\ t \notin RoutedElsewhere => InHand("system", t)'
  BY <1>7, <1>9, <1>10 DEF InHand
<1>14. \A h, u : InHand(h, u)' => t = u
  BY <1>10 DEF InHand
<1> QED  BY <1>10, <1>11, <1>12, <1>13, <1>14

\* After a handler has run, the others are left.
LEMMA LeftToRun ==
  ASSUME TypeInv, NEW g, Runs(g)
  PROVE  /\ \A i \in DOMAIN todo' : \E j \in DOMAIN todo : todo'[i] = todo[j]
         /\ 1 \in DOMAIN todo /\ todo[1].handler = g /\ todo[1].event = handling
<1> DEFINE S == [handler : HandlerNames, event : EventTypes]
<1>1. todo \in Seq(S) /\ todo # <<>> /\ todo' = Tail(todo) /\ Head(todo).handler = g
  BY DEF TypeInv, TypeOK, Runs
<1>2. /\ Len(todo) \in Nat /\ DOMAIN todo = 1..Len(todo) /\ Len(todo) > 0
      /\ DOMAIN todo' = 1..(Len(todo) - 1) /\ Head(todo) = todo[1]
      /\ \A i \in DOMAIN todo' : todo'[i] = todo[i + 1]
  <2> HIDE DEF S
  <2> QED  BY <1>1
<1>3. \A i \in DOMAIN todo' : i + 1 \in DOMAIN todo
  BY <1>2
<1> QED  BY <1>1, <1>2, <1>3 DEF handling

\* A step that leaves the queue alone publishes nothing.
LEMMA PublishesNothing == ASSUME TypeInv, UNCHANGED queue PROVE Publish(<<>>)
<1>1. queue \in Seq(EventTypes)
  BY DEF TypeInv, TypeOK
<1>2. queue \o <<>> = queue
  BY <1>1
<1> QED  BY <1>2, Zenon DEF Publish, Published

----------------------------------------------------------------------------
(***************************************************************************)
(* The system manager's subscription, and the end of the process.          *)
(***************************************************************************)
\* SystemManager takes part in no phase before its start or after its stop.
Unsubscribed == {"config", "identity", "system", "stopBus", "stopped"}

SystemTurn == \E i \in DOMAIN todo : todo[i].handler = "system"

\* No event moves the state machine any more, or none does yet.
Inert == state = "ShuttingDown" \/ (state = "Booting" /\ ~subscribed /\ ~SystemTurn)

CalFreePhases ==
  {"config", "identity", "system", "amplifier", "audio", "stopDiscovery", "stopAmplifier",
   "stopSystem", "stopBus", "stopped"}

LifeInv ==
  /\ main \in Unsubscribed => Inert
  /\ main \notin Unsubscribed => subscribed
  /\ main = "stopped" => queue = <<>> /\ todo = <<>> /\ ~busRunning
  /\ main \in CalFreePhases => ~cal

\* SHUTTING_DOWN is final, whatever event is handled.
LEMMA ShuttingDownStays ==
  ASSUME TypeInv, handleEvent, state = "ShuttingDown"
  PROVE  state' = "ShuttingDown"
<1>1. PICK t \in RaisedTypes :
        LET s1 == IF Ignored(state, t) THEN state ELSE After(state, Detour(state, t))
            s2 == IF Ignored(state, t) THEN state ELSE After(s1, Destination(s1, t))
        IN state' = s2 \/ state' = After(s2, "Degraded")
  BY HandleEventMoves
<1>2. \A u : After("ShuttingDown", u) = "ShuttingDown"
  BY TableRows DEF After, legalTransition
<1> QED  BY <1>1, <1>2

\* While the machine is inert, handleEvent does not change its state.
LEMMA InertHandle ==
  ASSUME TypeInv, handleEvent, Inert
  PROVE  state = "ShuttingDown" /\ state' = "ShuttingDown"
<1>1. SystemTurn
  BY LeftToRun DEF handleEvent, SystemTurn
<1> QED  BY <1>1, ShuttingDownStays DEF Inert

\* Inert stays inert while nobody subscribes and nothing is dispatched.
LEMMA InertKept ==
  ASSUME Inert, state' = state, subscribed' = subscribed, SystemTurn' => SystemTurn
  PROVE  Inert'
BY DEF Inert

\* Steps between which the lifecycle's facts cannot tell.
LEMMA LifeKept ==
  ASSUME LifeInv, UNCHANGED <<main, state, subscribed, queue, todo, busRunning, cal>>
  PROVE  LifeInv'
BY DEF LifeInv, Inert, SystemTurn

\* A publisher, and a handler of another component, in a phase that is not the last.
LEMMA LifeLive ==
  ASSUME LifeInv, main # "stopped", UNCHANGED <<main, state, subscribed, cal>>,
         SystemTurn' => SystemTurn
  PROVE  LifeInv'
<1>1. Inert => Inert'
  BY InertKept
<1> QED  BY <1>1 DEF LifeInv

LEMMA LifeBusWorker == ASSUME TypeInv, LifeInv, BusWorker PROVE LifeInv'
<1> USE DEF sysVars, busVars, calVars
<1>1. CASE DispatchNext
  <2>1. /\ UNCHANGED <<main, state, subscribed, cal>> /\ queue # <<>>
        /\ todo' = Calls(Head(queue)) /\ Head(queue) \in RaisedTypes
    BY <1>1 DEF DispatchNext, TypeInv
  <2>2. main # "stopped"
    BY <2>1 DEF LifeInv
  <2>3. SystemTurn' => subscribed
    BY <2>1, Dispatched DEF SystemTurn
  <2>4. Inert => Inert'
    BY <2>1, <2>3 DEF Inert
  <2> QED  BY <2>1, <2>2, <2>4 DEF LifeInv
<1>2. ASSUME NEW g, Runs(g), UNCHANGED <<main, state, subscribed, cal>> PROVE LifeInv'
  <2>1. main # "stopped"
    BY <1>2 DEF LifeInv, Runs
  <2>2. SystemTurn' => SystemTurn
    BY <1>2, LeftToRun DEF SystemTurn
  <2> QED  BY <1>2, <2>1, <2>2, LifeLive
<1>3. CASE ampGate \/ discoveryGate \/ identifyGate
  BY <1>2, <1>3 DEF ampGate, discoveryGate, identifyGate
<1>4. CASE handleEvent
  <2>1. UNCHANGED <<main, subscribed, cal>> /\ Runs("system")
    BY <1>4 DEF handleEvent
  <2>2. main # "stopped"
    BY <2>1 DEF LifeInv, Runs
  <2>3. Inert => Inert'
    BY <1>4, InertHandle DEF Inert
  <2> QED  BY <2>1, <2>2, <2>3 DEF LifeInv
<1> QED  BY <1>1, <1>3, <1>4 DEF BusWorker

LEMMA LifeMainThread == ASSUME TypeInv, LifeInv, MainThread PROVE LifeInv'
<1> USE DEF sysVars, busVars, calVars, Unsubscribed, CalFreePhases
<1>1. CASE StartConfig \/ StartIdentity
  <2>1. /\ main \in {"config", "identity"} /\ main' \in {"identity", "system", "stopBus"}
        /\ UNCHANGED <<state, subscribed, todo, cal>>
    BY <1>1 DEF StartConfig, StartIdentity
  <2>2. Inert'
    BY <2>1, InertKept DEF LifeInv, SystemTurn
  <2> QED  BY <2>1, <2>2 DEF LifeInv
<1>2. CASE StartSystem
  BY <1>2 DEF StartSystem, LifeInv
<1>3. CASE StartAmplifier \/ StartAudio
  <2>1. /\ main \in {"amplifier", "audio"} /\ main' \in {"audio", "enter"}
        /\ UNCHANGED <<subscribed, cal>>
    BY <1>3 DEF StartAmplifier, StartAudio
  <2> QED  BY <2>1 DEF LifeInv
<1>4. CASE enterInitialState \/ beginSetupMode
  <2>1. main \in {"enter", "setup"} /\ main' \in {"running", "setup"} /\ UNCHANGED subscribed
    BY <1>4 DEF enterInitialState, beginSetupMode
  <2> QED  BY <2>1 DEF LifeInv
<1>5. CASE Run \/ StopWeb
  <2>1. /\ main \in {"running", "blocking", "stopWeb"} /\ UNCHANGED subscribed
        /\ main' \in {"blocking", "waiting", "stopWeb", "stopAudio"}
    BY <1>5 DEF Run, StopWeb
  <2> QED  BY <2>1 DEF LifeInv
<1>6. CASE StopAudio \/ StopDiscovery \/ StopAmplifier
  <2>1. /\ main \in {"stopAudio", "stopDiscovery", "stopAmplifier"} /\ UNCHANGED <<subscribed, cal>>
        /\ main' \in {"stopDiscovery", "stopAmplifier", "stopSystem"}
        /\ main = "stopAudio" => ~cal
    BY <1>6 DEF StopAudio, StopDiscovery, StopAmplifier
  <2> QED  BY <2>1 DEF LifeInv
<1>7. CASE StopSystem
  <2>1. main = "stopSystem" /\ main' = "stopBus" /\ UNCHANGED cal /\ state' = "ShuttingDown"
    BY <1>7 DEF StopSystem, MainMovesTo, After, legalTransition
  <2> QED  BY <2>1 DEF LifeInv, Inert
<1>8. CASE StopBus
  <2>1. UNCHANGED <<state, subscribed, queue, todo, cal>>
    BY <1>8 DEF StopBus
  <2>2. CASE busRunning /\ busRunning' = FALSE /\ UNCHANGED main
    BY <1>8, <2>1, <2>2, InertKept DEF StopBus, LifeInv, SystemTurn
  <2>3. CASE ~busRunning /\ queue = <<>> /\ todo = <<>> /\ main' = "stopped" /\ UNCHANGED busRunning
    <3>1. main = "stopBus"
      BY <1>8 DEF StopBus
    <3>2. Inert'
      BY <2>1, <3>1, InertKept DEF LifeInv, SystemTurn
    <3> QED  BY <2>1, <2>3, <3>1, <3>2 DEF LifeInv
  <2> QED  BY <1>8, <2>2, <2>3, Zenon DEF StopBus
<1> QED  BY <1>1, <1>2, <1>3, <1>4, <1>5, <1>6, <1>7, <1>8 DEF MainThread

LEMMA LifeEnvironment == ASSUME TypeInv, ReceiverInv, LifeInv, Environment PROVE LifeInv'
<1> USE DEF sysVars, busVars, audioVars, calVars
<1>1. ASSUME main # "stopped", UNCHANGED <<main, state, subscribed, todo, cal>> PROVE LifeInv'
  BY <1>1, LifeLive DEF SystemTurn
<1>2. CASE \E last \in BOOLEAN : onDatagram(last)
  <2>1. source /\ UNCHANGED <<main, state, subscribed, todo, cal>>
    BY <1>2 DEF onDatagram
  <2>2. main # "stopped"
    BY <2>1 DEF ReceiverInv, EarlyPhases, LatePhases
  <2> QED  BY <1>1, <2>1, <2>2
<1>3. CASE searchLoop
  <2>1. UNCHANGED <<main, state, subscribed, todo, busRunning, cal>>
    BY <1>3 DEF searchLoop
  <2>2. CASE main = "stopped"
    <3>1. queue' = queue
      BY <1>3, <2>2 DEF searchLoop, Publish, Published, LifeInv
    <3> QED  BY <2>1, <3>1, LifeKept
  <2> QED  BY <1>1, <2>1, <2>2
<1>4. CASE NetworkPoll \/ WatchdogTimeout \/ processRequest \/ audioTest \/ RunAudioTest \/ reboot
  <2>1. /\ UNCHANGED <<main, state, subscribed, todo, cal>> /\ main # "stopped"
    BY <1>4 DEF NetworkPoll, WatchdogTimeout, processRequest, audioTest, RunAudioTest, reboot,
                NetworkAlive, ControlAlive, WebAlive, Serving
  <2> QED  BY <1>1, <2>1
<1>5. CASE factoryReset \/ Connects \/ PeerEnds
  BY <1>5, LifeKept DEF factoryReset, Connects, PeerEnds
<1>6. CASE requestShutdown
  <2>1. /\ main # "stopped" /\ UNCHANGED <<state, subscribed, todo, cal>>
        /\ main' = main \/ (main = "waiting" /\ main' = "running")
    BY <1>6 DEF requestShutdown
  <2>2. CASE main' = main
    BY <1>1, <2>1, <2>2
  <2>3. CASE main = "waiting" /\ main' = "running"
    BY <2>1, <2>3 DEF LifeInv, Unsubscribed, CalFreePhases
  <2> QED  BY <2>1, <2>2, <2>3
<1>7. CASE CalibrationMutes \/ CalibrationUnmutes
  <2>1. /\ UNCHANGED <<main, state, subscribed, queue, todo, busRunning>>
        /\ cal' => cal \/ WebAlive
    BY <1>7, Zenon DEF CalibrationMutes, CalibrationUnmutes
  <2>2. main \in CalFreePhases => ~cal'
    BY <2>1 DEF LifeInv, WebAlive, Serving, CalFreePhases
  <2>3. Inert => Inert'
    BY <2>1, InertKept DEF SystemTurn
  <2> QED  BY <2>1, <2>2, <2>3 DEF LifeInv
<1> QED  BY <1>2, <1>3, <1>4, <1>5, <1>6, <1>7 DEF Environment

----------------------------------------------------------------------------
(***************************************************************************)
(* PLAYING and the receiver's flag.                                        *)
(***************************************************************************)
\* Where the route of event t leads from state s.
Routed(s, t) ==
  LET s1 == IF Ignored(s, t) THEN s ELSE After(s, Detour(s, t))
  IN IF Ignored(s, t) THEN s ELSE After(s1, Destination(s1, t))

LEMMA HandleEventRoute ==
  ASSUME TypeInv, handleEvent
  PROVE  /\ handling \in RaisedTypes
         /\ \/ state' = Routed(state, handling)
            \/ state' = After(Routed(state, handling), "Degraded")
<1>1. handling \in RaisedTypes
  BY HeadType, TypeInvParts DEF handleEvent, Runs, handling
<1> QED  BY <1>1, Zenon DEF handleEvent, Routed

\* Only AudioStarted leads into PLAYING, and AudioStopped leads out of it.
LEMMA PlayingRoutes ==
  ASSUME NEW s \in SystemStates, NEW t \in RaisedTypes,
         Routed(s, t) = "Playing" \/ After(Routed(s, t), "Degraded") = "Playing"
  PROVE  t = "AudioStarted" \/ (s = "Playing" /\ t # "AudioStopped")
<1> SUFFICES ASSUME t # "AudioStarted" PROVE s = "Playing" /\ t # "AudioStopped"
  OBVIOUS
<1> DEFINE s1 == After(s, Detour(s, t))
<1>1. \A u, w : After(u, w) \in {u, w}
  BY DEF After
<1>2. Routed(s, t) = "Playing"
  BY <1>1
<1>3. ~Ignored(s, t)
  BY <1>2 DEF Ignored, Routed
<1>4. After(s1, Destination(s1, t)) = "Playing"
  BY <1>2, <1>3 DEF Routed
<1>5. Detour(s, t) \in {s, "ConnectingNetwork", "Online"}
  BY DEF Detour
<1>6. s1 = "Playing" => s = "Playing"
  BY <1>1, <1>5
<1> HIDE DEF s1
<1>7. Destination(s1, t) = "Playing" => s1 = "Playing"
  BY DEF Destination
<1>8. s1 = "Playing"
  BY <1>1, <1>4, <1>7
<1>9. t = "AudioStopped" => Destination(s1, t) = "Online"
  BY DEF Destination
<1>10. After("Playing", "Online") = "Online"
  BY TableRows DEF After, legalTransition
<1> QED  BY <1>4, <1>6, <1>8, <1>9, <1>10

\* What handleEvent publishes: state changes, and in safe mode the end of a
\* running stream.
LEMMA HandleEventPublishes ==
  ASSUME TypeInv, ReceiverInv, handleEvent
  PROVE  /\ HasStop(queue) => HasStop(queue')
         /\ streaming => streaming' \/ HasStop(queue')
<1> DEFINE t == handling
           s1 == IF Ignored(state, t) THEN state ELSE After(state, Detour(state, t))
           s2 == IF Ignored(state, t) THEN state ELSE After(s1, Destination(s1, t))
           ended == IF streaming THEN <<"AudioStopped">> ELSE <<>>
           s3 == After(s2, "Degraded")
           plain == Moved(state, s1) \o Moved(s1, s2)
           full == plain \o ended \o Moved(s2, s3)
<1>1. \/ Disable /\ Publish(full)
      \/ UNCHANGED audioVars /\ Publish(plain)
  BY Zenon DEF handleEvent
<1>2. /\ ended \in Seq(EventTypes)
      /\ streaming => HasStop(ended)
  <2>1. <<"AudioStopped">> \in Seq(EventTypes) /\ <<>> \in Seq(EventTypes)
    BY OneEvent, NoEvent, RaisedMembers
  <2> QED  BY <2>1, ShortSeqs, Zenon
<1>3. PICK m1 \in Seq(EventTypes) : m1 = Moved(state, s1)
  BY MovedNoStart, Zenon
<1>4. PICK m2 \in Seq(EventTypes) : m2 = Moved(s1, s2)
  BY MovedNoStart, Zenon
<1>5. PICK m3 \in Seq(EventTypes) : m3 = Moved(s2, s3)
  BY MovedNoStart, Zenon
<1> HIDE DEF s1, s2, s3, ended
<1>6. plain = m1 \o m2 /\ full = (m1 \o m2) \o ended \o m3
  BY <1>3, <1>4, <1>5, Zenon
<1> HIDE DEF plain, full
<1>7. plain \in Seq(EventTypes) /\ full \in Seq(EventTypes)
  BY <1>2, <1>6
<1>8. ASSUME streaming PROVE HasStop(full)
  <2>1. m1 \o m2 \in Seq(EventTypes)
    OBVIOUS
  <2>2. PICK p \in Seq(EventTypes) : p = m1 \o m2
    BY <2>1, Zenon
  <2>3. p \o ended \in Seq(EventTypes)
    BY <1>2
  <2>4. PICK r \in Seq(EventTypes) : r = p \o ended
    BY <2>3, Zenon
  <2>5. HasStop(r)
    BY <1>2, <1>8, <2>4, ConcatStop
  <2>6. HasStop(r \o m3)
    BY <2>5, ConcatStop
  <2> QED  BY <1>6, <2>2, <2>4, <2>6
<1>9. streaming => busRunning
  BY DEF ReceiverInv, LatePhases, EarlyPhases
<1>10. CASE Disable /\ Publish(full)
  BY <1>7, <1>8, <1>9, <1>10, PublishAudio
<1>11. CASE UNCHANGED audioVars /\ Publish(plain)
  BY <1>7, <1>11, PublishAudio DEF audioVars
<1> QED  BY <1>1, <1>10, <1>11

\* A stream's beginning that the system manager is about to handle is behind
\* a stream that runs, or before the event that ends it; and so is PLAYING.
PlayInv ==
  ~others =>
    /\ ~streaming /\ InHand("system", "AudioStarted") => HasStop(queue)
    /\ state = "Playing" => streaming \/ InHand("system", "AudioStopped") \/ HasStop(queue)

LEMMA PlayKept ==
  ASSUME PlayInv, others => others', streaming => streaming',
         HasStop(queue) => HasStop(queue'),
         InHand("system", "AudioStarted")' => InHand("system", "AudioStarted"),
         InHand("system", "AudioStopped") => InHand("system", "AudioStopped")',
         state' = "Playing" => state = "Playing"
  PROVE  PlayInv'
<1> SUFFICES ASSUME ~others' PROVE PlayInv'
  BY DEF PlayInv
<1>1. ~streaming' /\ InHand("system", "AudioStarted")' => HasStop(queue')
  BY DEF PlayInv
<1>2. state' = "Playing" => streaming' \/ InHand("system", "AudioStopped")' \/ HasStop(queue')
  BY DEF PlayInv
<1> QED  BY <1>1, <1>2 DEF PlayInv

\* A step of a thread that is not the bus worker.
LEMMA PlayPublish ==
  ASSUME TypeInv, PlayInv, others => others', streaming => streaming', UNCHANGED todo,
         NEW es \in Seq(EventTypes), UNCHANGED queue \/ Publish(es),
         state' = "Playing" => state = "Playing"
  PROVE  PlayInv'
<1>1. /\ InHand("system", "AudioStarted")' <=> InHand("system", "AudioStarted")
      /\ InHand("system", "AudioStopped")' <=> InHand("system", "AudioStopped")
  BY DEF InHand
<1>2. HasStop(queue) => HasStop(queue')
  BY PublishAudio
<1> QED  BY <1>1, <1>2, PlayKept

LEMMA PlayBusWorker ==
  ASSUME TypeInv, ReceiverInv, GateInv, LifeInv, PlayInv, BusWorker
  PROVE  PlayInv'
<1> USE DEF sysVars, busVars, audioVars, calVars
<1>1. CASE DispatchNext
  <2>1. queue \in Seq(EventTypes) /\ queue # <<>> /\ Head(queue) \in RaisedTypes
    BY <1>1 DEF TypeInv, TypeOK, DispatchNext
  <2>2. /\ queue' = Tail(queue) /\ todo' = Calls(Head(queue)) /\ todo = <<>>
        /\ UNCHANGED <<main, state, subscribed, streaming, others>>
    BY <1>1 DEF DispatchNext
  <2> SUFFICES ASSUME ~others PROVE PlayInv'
    BY <2>2 DEF PlayInv
  <2>3. /\ Closed(queue) /\ Head(queue) = "AudioStarted" => HasStop(queue')
        /\ HasStop(queue) => Head(queue) = "AudioStopped" \/ HasStop(queue')
    BY <2>1, <2>2, TailFacts
  <2>4. ~streaming => Closed(queue)
    BY DEF GateInv
  <2>5. state = "Playing" => streaming \/ HasStop(queue)
    BY <2>2 DEF PlayInv, InHand
  <2>6. state = "Playing" => subscribed
    BY DEF LifeInv, Inert
  <2>7. /\ InHand("system", "AudioStarted")' => Head(queue) = "AudioStarted"
        /\ subscribed /\ Head(queue) = "AudioStopped" => InHand("system", "AudioStopped")'
    BY <2>1, <2>2, Dispatched DEF RoutedElsewhere, Searching
  <2> QED  BY <2>2, <2>3, <2>4, <2>5, <2>6, <2>7 DEF PlayInv
<1>2. ASSUME NEW g, g # "system", Runs(g), UNCHANGED <<state, queue, streaming, others>>
      PROVE  PlayInv'
  <2>1. /\ InHand("system", "AudioStarted")' => InHand("system", "AudioStarted")
        /\ InHand("system", "AudioStopped") => InHand("system", "AudioStopped")'
    BY <1>2, InHandTail
  <2> QED  BY <1>2, <2>1, PlayKept
<1>3. CASE ampGate \/ discoveryGate
  BY <1>2, <1>3 DEF ampGate, discoveryGate
<1>4. CASE identifyGate
  <2>1. CASE ToneStarts
    BY <2>1 DEF ToneStarts, PlayInv
  <2>2. CASE UNCHANGED <<queue, others>>
    BY <1>2, <1>4, <2>2 DEF identifyGate
  <2> QED  BY <1>4, <2>1, <2>2 DEF identifyGate
<1>5. CASE handleEvent
  <2>1. UNCHANGED others /\ Runs("system")
    BY <1>5 DEF handleEvent
  <2> SUFFICES ASSUME ~others PROVE PlayInv'
    BY <2>1 DEF PlayInv
  <2>2. /\ InHand("system", "AudioStarted")' => InHand("system", "AudioStarted")
        /\ InHand("system", "AudioStopped") =>
             InHand("system", "AudioStopped")' \/ handling = "AudioStopped"
    BY <2>1, InHandTail
  <2>3. InHand("system", handling)
    BY <2>1, LeftToRun DEF InHand
  <2>4. state' = "Playing" =>
          handling = "AudioStarted" \/ (state = "Playing" /\ handling # "AudioStopped")
    BY <1>5, HandleEventRoute, PlayingRoutes DEF TypeInv, TypeOK
  <2>5. /\ HasStop(queue) => HasStop(queue')
        /\ streaming => streaming' \/ HasStop(queue')
    BY <1>5, HandleEventPublishes
  <2>6. /\ ~streaming /\ InHand("system", "AudioStarted") => HasStop(queue)
        /\ state = "Playing" => streaming \/ InHand("system", "AudioStopped") \/ HasStop(queue)
    BY DEF PlayInv
  <2>7. state' = "Playing" => streaming \/ InHand("system", "AudioStopped")' \/ HasStop(queue)
    BY <2>2, <2>3, <2>4, <2>6
  <2> QED  BY <2>1, <2>2, <2>5, <2>6, <2>7 DEF PlayInv
<1> QED  BY <1>1, <1>3, <1>4, <1>5 DEF BusWorker

LEMMA PlayMainThread == ASSUME TypeInv, ReceiverInv, PlayInv, MainThread PROVE PlayInv'
<1> USE DEF sysVars, busVars, audioVars, calVars
<1>1. CASE StartConfig
  <2>1. /\ UNCHANGED queue \/ Publish(<<"ConfigInvalid">>)
        /\ UNCHANGED <<state, todo, streaming, others>>
    BY <1>1 DEF StartConfig
  <2> QED  BY <2>1, OneEvent, RaisedMembers, PlayPublish
<1>2. CASE StartIdentity \/ StartSystem \/ StartAmplifier \/ StartAudio
  <2>1. UNCHANGED <<state, queue, todo, streaming, others>>
    BY <1>2 DEF StartIdentity, StartSystem, StartAmplifier, StartAudio
  <2> QED  BY <2>1, NoEvent, PlayPublish
<1>3. CASE enterInitialState \/ beginSetupMode \/ StopSystem
  <2>1. PICK to : MainMovesTo(to) /\ to # "Playing"
    BY <1>3 DEF enterInitialState, beginSetupMode, StopSystem
  <2>2. /\ Publish(Moved(state, After(state, to)))
        /\ state' = "Playing" => state = "Playing"
    BY <2>1 DEF MainMovesTo, After
  <2>3. UNCHANGED <<todo, streaming, others>>
    BY <1>3 DEF enterInitialState, beginSetupMode, StopSystem
  <2> QED  BY <2>2, <2>3, MovedNoStart, PlayPublish
<1>4. CASE Run \/ StopWeb \/ StopDiscovery \/ StopAmplifier
  <2>1. UNCHANGED <<state, queue, todo, streaming, others>>
    BY <1>4 DEF Run, StopWeb, StopDiscovery, StopAmplifier
  <2> QED  BY <2>1, NoEvent, PlayPublish
<1>5. CASE StopBus
  <2>1. UNCHANGED <<state, queue, todo, streaming, others>>
    BY <1>5 DEF StopBus
  <2> QED  BY <2>1, NoEvent, PlayPublish
<1>6. CASE StopAudio
  <2>1. /\ UNCHANGED <<state, todo, others>> /\ main = "stopAudio"
        /\ Publish(IF streaming THEN <<"AudioStopped">> ELSE <<>>)
    BY <1>6 DEF StopAudio
  <2>2. CASE streaming
    <3>1. busRunning
      BY <2>1 DEF ReceiverInv
    <3>2. <<"AudioStopped">> \in Seq(EventTypes) /\ Publish(<<"AudioStopped">>)
      BY <2>1, <2>2, OneEvent, RaisedMembers
    <3>3. HasStop(queue')
      BY <3>1, <3>2, ShortSeqs, PublishAudio
    <3> QED  BY <3>3 DEF PlayInv
  <2>3. CASE ~streaming
    BY <2>1, <2>3, NoEvent, PlayPublish
  <2> QED  BY <2>2, <2>3
<1> QED  BY <1>1, <1>2, <1>3, <1>4, <1>5, <1>6 DEF MainThread

LEMMA PlayEnvironment ==
  ASSUME TypeInv, ReceiverInv, PlayInv, cal => others, Environment
  PROVE  PlayInv'
<1> USE DEF sysVars, busVars, audioVars, calVars
<1>1. CASE \E last \in BOOLEAN : onDatagram(last)
  <2>1. PICK last \in BOOLEAN : onDatagram(last)
    BY <1>1
  <2> DEFINE first == IF streaming THEN <<>> ELSE <<"AudioStarted">>
             end == IF last THEN <<"AudioStopped">> ELSE <<>>
  <2>2. source /\ (streaming' <=> ~last) /\ Publish(first \o end)
    BY <2>1, Zenon DEF onDatagram
  <2>3. CASE last
    <3>1. <<"AudioStopped">> \in Seq(EventTypes) /\ <<"AudioStarted">> \in Seq(EventTypes)
          /\ <<>> \in Seq(EventTypes)
      BY DEF EventTypes
    <3>2. first \in Seq(EventTypes) /\ end = <<"AudioStopped">>
      BY <2>3, <3>1, Zenon
    <3> HIDE DEF first, end
    <3>3. end \in Seq(EventTypes) /\ HasStop(end)
      BY <3>1, <3>2, ShortSeqs, Zenon
    <3>4. HasStop(first \o end)
      BY <3>2, <3>3, ConcatStop, Zenon
    <3>5. first \o end \in Seq(EventTypes)
      BY <3>2, <3>3
    <3>6. HasStop(first \o end) /\ first \o end \in Seq(EventTypes)
      BY <3>4, <3>5, Zenon
    <3>7. busRunning
      BY <2>2 DEF ReceiverInv, EarlyPhases, LatePhases
    <3>8. HasStop(queue')
      BY <2>2, <3>6, <3>7, PublishAudio
    <3> QED  BY <3>8 DEF PlayInv
  <2>4. CASE ~last
    BY <2>2, <2>4 DEF PlayInv
  <2> QED  BY <2>3, <2>4
<1>2. CASE searchLoop \/ WatchdogTimeout \/ processRequest \/ RunAudioTest \/ reboot \/ requestShutdown
  <2>1. UNCHANGED <<state, todo, streaming, others>>
    BY <1>2 DEF searchLoop, WatchdogTimeout, processRequest, RunAudioTest, reboot, requestShutdown
  <2>2. \E t \in RaisedTypes : t # "AudioStarted" /\ Publish(<<t>>)
    BY <1>2, RaisedMembers
    DEF searchLoop, WatchdogTimeout, processRequest, RunAudioTest, reboot, requestShutdown
  <2> QED  BY <2>1, <2>2, OneEvent, PlayPublish
<1>3. CASE NetworkPoll
  <2>1. UNCHANGED <<state, todo, streaming, others>>
    BY <1>3 DEF NetworkPoll
  <2>2. \E t \in RaisedTypes : t # "AudioStarted" /\ Publish(<<t>>)
    BY <1>3, RaisedMembers DEF NetworkPoll
  <2> QED  BY <2>1, <2>2, OneEvent, PlayPublish
<1>4. CASE factoryReset \/ Connects \/ PeerEnds
  <2>1. UNCHANGED <<state, queue, todo, streaming, others>>
    BY <1>4 DEF factoryReset, Connects, PeerEnds
  <2> QED  BY <2>1, NoEvent, PlayPublish
<1>5. CASE audioTest \/ CalibrationMutes \/ CalibrationUnmutes
  <2>1. others'
    BY <1>5 DEF audioTest, ToneStarts, CalibrationMutes, CalibrationUnmutes
  <2> QED  BY <2>1 DEF PlayInv
<1> QED  BY <1>1, <1>2, <1>3, <1>4, <1>5 DEF Environment

----------------------------------------------------------------------------
(***************************************************************************)
(* The discovery worker and the events that start and stop it.             *)
(***************************************************************************)
Has(q, t) == \E i \in DOMAIN q : q[i] = t
NoSearch(q) == \A i \in DOMAIN q : q[i] \notin Searching

\* Of the events that start or stop the worker, t is the last.
LastIs(q, t) == \E i \in DOMAIN q : q[i] = t /\ \A j \in DOMAIN q : j > i => q[j] \notin Searching

Coming(t) == InHand("system", t) \/ Has(queue, t)

\* The worker is stopped, or the event that stops it is the last on its way.
WillStop ==
  \/ LastIs(queue, "SearchLeft")
  \/ NoSearch(queue) /\ InHand("discovery", "SearchLeft")
  \/ NoSearch(queue) /\ ~InHand("discovery", "SearchEntered") /\ ~browsing

\* The worker runs or is about to be started, or an event is on its way that
\* takes the machine out of SEARCHING_STREAMER.
WillSearch ==
  \/ Coming("StreamerFound") \/ Coming("PairingCompleted")
  \/ LastIs(queue, "SearchEntered")
  \/ /\ NoSearch(queue) /\ ~InHand("discovery", "SearchLeft")
     /\ InHand("discovery", "SearchEntered") \/ browsing

StoppedSearching == {"stopAmplifier", "stopSystem", "stopBus", "stopped"}

HandInv ==
  /\ \A i \in DOMAIN todo : todo[i].handler = "discovery" => todo[i].event \in Searching
  /\ \A i, j \in DOMAIN todo : todo[i].event = todo[j].event

SearchInv ==
  /\ HandInv
  /\ state # "SearchingStreamer" => WillStop
  /\ state = "SearchingStreamer" /\ paired /\ main \notin StoppedSearching => WillSearch

\* Appending to the queue, and taking its head.
LEMMA ConcatSearch ==
  ASSUME NEW q \in Seq(EventTypes), NEW es \in Seq(EventTypes)
  PROVE  /\ NoSearch(q) /\ NoSearch(es) => NoSearch(q \o es)
         /\ \A t : LastIs(q, t) /\ NoSearch(es) => LastIs(q \o es, t)
         /\ \A t : LastIs(es, t) => LastIs(q \o es, t)
         /\ \A t : Has(q, t) \/ Has(es, t) => Has(q \o es, t)
<1>1. /\ Len(q) \in Nat /\ DOMAIN q = 1..Len(q)
      /\ \A i \in DOMAIN q : i \in DOMAIN (q \o es) /\ (q \o es)[i] = q[i]
      /\ \A i \in DOMAIN es : /\ Len(q) + i \in DOMAIN (q \o es)
                              /\ (q \o es)[Len(q) + i] = es[i] /\ i \in Nat /\ i > 0
      /\ \A i \in DOMAIN (q \o es) :
           i \in Nat /\ (i \in DOMAIN q \/ (i - Len(q) \in DOMAIN es /\ (q \o es)[i] = es[i - Len(q)]))
  OBVIOUS
<1>2. PICK r : r = q \o es
  OBVIOUS
<1>3. /\ \A i \in DOMAIN q : i \in DOMAIN r /\ r[i] = q[i]
      /\ \A i \in DOMAIN es : Len(q) + i \in DOMAIN r /\ r[Len(q) + i] = es[i] /\ i \in Nat /\ i > 0
      /\ \A i \in DOMAIN r :
           i \in Nat /\ (i \in DOMAIN q \/ (i - Len(q) \in DOMAIN es /\ r[i] = es[i - Len(q)]))
  BY <1>1, <1>2
<1>4. NoSearch(q) /\ NoSearch(es) => NoSearch(r)
  BY <1>3 DEF NoSearch
<1>5. ASSUME NEW t, LastIs(q, t), NoSearch(es) PROVE LastIs(r, t)
  <2>1. PICK i \in DOMAIN q : q[i] = t /\ \A j \in DOMAIN q : j > i => q[j] \notin Searching
    BY <1>5 DEF LastIs
  <2>2. \A j \in DOMAIN r : j > i => r[j] \notin Searching
    BY <1>3, <1>5, <2>1 DEF NoSearch
  <2> QED  BY <1>3, <2>1, <2>2 DEF LastIs
<1>6. ASSUME NEW t, LastIs(es, t) PROVE LastIs(r, t)
  <2>1. PICK i \in DOMAIN es : es[i] = t /\ \A j \in DOMAIN es : j > i => es[j] \notin Searching
    BY <1>6 DEF LastIs
  <2>2. Len(q) + i \in DOMAIN r /\ r[Len(q) + i] = t
    BY <1>3, <2>1
  <2>3. ASSUME NEW j \in DOMAIN r, j > Len(q) + i PROVE r[j] \notin Searching
    <3>1. j - Len(q) \in DOMAIN es /\ r[j] = es[j - Len(q)] /\ j - Len(q) > i
      BY <1>1, <1>3, <2>1, <2>3
    <3> QED  BY <2>1, <3>1
  <2> QED  BY <2>2, <2>3 DEF LastIs
<1>7. ASSUME NEW t, Has(q, t) \/ Has(es, t) PROVE Has(r, t)
  BY <1>3, <1>7 DEF Has
<1> QED  BY <1>2, <1>4, <1>5, <1>6, <1>7

LEMMA TailSearch ==
  ASSUME NEW q \in Seq(EventTypes), q # <<>>
  PROVE  /\ NoSearch(q) => NoSearch(Tail(q)) /\ Head(q) \notin Searching
         /\ \A t : LastIs(q, t) => LastIs(Tail(q), t) \/ (Head(q) = t /\ NoSearch(Tail(q)))
         /\ \A t : Has(q, t) => Head(q) = t \/ Has(Tail(q), t)
<1>1. /\ Len(q) \in Nat /\ Len(q) > 0 /\ DOMAIN q = 1..Len(q)
      /\ DOMAIN Tail(q) = 1..(Len(q) - 1) /\ Head(q) = q[1]
      /\ \A i \in DOMAIN Tail(q) : Tail(q)[i] = q[i + 1]
  OBVIOUS
<1>2. PICK r : r = Tail(q)
  OBVIOUS
<1>3. /\ \A i \in DOMAIN r : i \in Nat /\ i + 1 \in DOMAIN q /\ r[i] = q[i + 1] /\ i + 1 > 1
      /\ \A j \in DOMAIN q : j \in Nat /\ (j # 1 => j - 1 \in DOMAIN r /\ r[j - 1] = q[j])
      /\ 1 \in DOMAIN q
  BY <1>1, <1>2
<1>4. NoSearch(q) => NoSearch(r) /\ Head(q) \notin Searching
  BY <1>1, <1>3 DEF NoSearch
<1>5. ASSUME NEW t, LastIs(q, t) PROVE LastIs(r, t) \/ (Head(q) = t /\ NoSearch(r))
  <2>1. PICK i \in DOMAIN q : q[i] = t /\ \A j \in DOMAIN q : j > i => q[j] \notin Searching
    BY <1>5 DEF LastIs
  <2>2. CASE i = 1
    BY <1>1, <1>3, <2>1, <2>2 DEF NoSearch
  <2>3. CASE i # 1
    <3>1. i - 1 \in DOMAIN r /\ r[i - 1] = t
      BY <1>3, <2>1, <2>3
    <3>2. ASSUME NEW j \in DOMAIN r, j > i - 1 PROVE r[j] \notin Searching
      <4>1. j + 1 \in DOMAIN q /\ r[j] = q[j + 1] /\ j + 1 > i
        BY <1>3, <3>2
      <4> QED  BY <2>1, <4>1
    <3> QED  BY <3>1, <3>2 DEF LastIs
  <2> QED  BY <2>2, <2>3
<1>6. ASSUME NEW t, Has(q, t) PROVE Head(q) = t \/ Has(r, t)
  BY <1>1, <1>3, <1>6 DEF Has
<1> QED  BY <1>2, <1>4, <1>5, <1>6

LEMMA PublishSearch ==
  ASSUME TypeInv, NEW es \in Seq(EventTypes), Publish(es)
  PROVE  /\ \A t : Has(queue, t) => Has(queue', t)
         /\ busRunning => \A t : Has(es, t) => Has(queue', t)
         /\ busRunning => \A t : LastIs(es, t) => LastIs(queue', t)
         /\ NoSearch(es) \/ ~busRunning =>
              /\ NoSearch(queue) => NoSearch(queue')
              /\ \A t : LastIs(queue, t) => LastIs(queue', t)
<1>1. queue \in Seq(EventTypes)
  BY DEF TypeInv, TypeOK
<1>2. CASE busRunning
  <2>1. queue' = queue \o es
    BY <1>2 DEF Publish, Published
  <2> QED  BY <1>1, <1>2, <2>1, ConcatSearch, Zenon
<1>3. CASE ~busRunning
  BY <1>3 DEF Publish, Published
<1> QED  BY <1>2, <1>3

\* The events es report a way from state s to state t, as far as the worker
\* is concerned.
Reports(s, es, t) ==
  \/ NoSearch(es) /\ (s = "SearchingStreamer" <=> t = "SearchingStreamer")
  \/ t = "SearchingStreamer" /\ LastIs(es, "SearchEntered")
  \/ t # "SearchingStreamer" /\ LastIs(es, "SearchLeft")

LEMMA ReportsNothing == ASSUME NEW s, NEW es, NoSearch(es) PROVE Reports(s, es, s)
BY DEF Reports

LEMMA ShortSearch ==
  /\ NoSearch(<<>>)
  /\ \A t : t \notin Searching => NoSearch(<<t>>)
  /\ \A t : Has(<<t>>, t) /\ LastIs(<<t>>, t)
<1>1. NoSearch(<<>>)
  BY DEF NoSearch
<1>2. \A t : DOMAIN <<t>> = {1} /\ <<t>>[1] = t
  OBVIOUS
<1>3. \A t : t \notin Searching => NoSearch(<<t>>)
  BY <1>2 DEF NoSearch
<1>4. \A t : Has(<<t>>, t)
  BY <1>2 DEF Has
<1>5. \A t : LastIs(<<t>>, t)
  BY <1>2 DEF LastIs
<1> QED  BY <1>1, <1>3, <1>4, <1>5

\* transitionTo reports its move.
LEMMA MovedReports == ASSUME NEW s, NEW t PROVE Reports(s, Moved(s, t), t)
<1>1. CASE s = t
  <2>1. Moved(s, t) = <<>>
    BY <1>1 DEF Moved
  <2> QED  BY <1>1, <2>1, ShortSearch, ReportsNothing
<1>2. CASE s # t /\ t = "SearchingStreamer"
  <2>1. Moved(s, t) = <<"SearchEntered">>
    BY <1>2 DEF Moved
  <2> QED  BY <1>2, <2>1, ShortSearch DEF Reports
<1>3. CASE t # "SearchingStreamer" /\ s = "SearchingStreamer"
  <2>1. Moved(s, t) = <<"SearchLeft">>
    BY <1>3 DEF Moved
  <2> QED  BY <1>3, <2>1, ShortSearch DEF Reports
<1>4. CASE s # t /\ t # "SearchingStreamer" /\ s # "SearchingStreamer"
  <2>1. Moved(s, t) = <<>>
    BY <1>4 DEF Moved
  <2> QED  BY <1>4, <2>1, ShortSearch DEF Reports
<1> QED  BY <1>1, <1>2, <1>3, <1>4

LEMMA ReportsConcat ==
  ASSUME NEW s, NEW t, NEW u, NEW es \in Seq(EventTypes), NEW fs \in Seq(EventTypes),
         Reports(s, es, t), Reports(t, fs, u)
  PROVE  Reports(s, es \o fs, u)
BY ConcatSearch DEF Reports

LEMMA HandleEventReports ==
  ASSUME TypeInv, handleEvent
  PROVE  \E es \in Seq(EventTypes) : Publish(es) /\ Reports(state, es, state')
<1> DEFINE t == handling
           s1 == IF Ignored(state, t) THEN state ELSE After(state, Detour(state, t))
           s2 == IF Ignored(state, t) THEN state ELSE After(s1, Destination(s1, t))
           ended == IF streaming THEN <<"AudioStopped">> ELSE <<>>
           s3 == After(s2, "Degraded")
           plain == Moved(state, s1) \o Moved(s1, s2)
           full == plain \o ended \o Moved(s2, s3)
<1>1. \/ state' = s3 /\ Publish(full)
      \/ state' = s2 /\ Publish(plain)
  BY Zenon DEF handleEvent
<1>2. ended \in Seq(EventTypes) /\ NoSearch(ended)
  <2>1. <<"AudioStopped">> \in Seq(EventTypes) /\ <<>> \in Seq(EventTypes)
    BY OneEvent, NoEvent, RaisedMembers
  <2>2. NoSearch(<<"AudioStopped">>) /\ NoSearch(<<>>)
    BY ShortSearch DEF Searching
  <2> QED  BY <2>1, <2>2, Zenon
<1>3. PICK m1 \in Seq(EventTypes) : m1 = Moved(state, s1)
  BY MovedNoStart, Zenon
<1>4. PICK m2 \in Seq(EventTypes) : m2 = Moved(s1, s2)
  BY MovedNoStart, Zenon
<1>5. PICK m3 \in Seq(EventTypes) : m3 = Moved(s2, s3)
  BY MovedNoStart, Zenon
<1>6. PICK p \in Seq(EventTypes) : p = m1 \o m2
  <2>1. m1 \o m2 \in Seq(EventTypes)
    OBVIOUS
  <2> QED  BY <2>1, Zenon
<1> HIDE DEF s1, s2, s3, ended
<1>7. PICK r \in Seq(EventTypes) : r = p \o ended
  <2>1. p \o ended \in Seq(EventTypes)
    BY <1>2
  <2> QED  BY <2>1, Zenon
<1>8. Reports(state, m1, s1) /\ Reports(s1, m2, s2) /\ Reports(s2, m3, s3)
  BY <1>3, <1>4, <1>5, MovedReports, Zenon
<1>9. Reports(state, p, s2)
  BY <1>6, <1>8, ReportsConcat
<1>10. Reports(state, r, s2)
  <2>1. Reports(s2, ended, s2)
    BY <1>2, ReportsNothing
  <2> QED  BY <1>2, <1>7, <1>9, <2>1, ReportsConcat
<1>11. Reports(state, r \o m3, s3) /\ r \o m3 \in Seq(EventTypes)
  BY <1>8, <1>10, ReportsConcat
<1>12. plain = p /\ full = r \o m3
  BY <1>3, <1>4, <1>5, <1>6, <1>7, Zenon
<1> HIDE DEF plain, full
<1> QED  BY <1>1, <1>9, <1>11, <1>12, Zenon

\* The streamer's answer and the end of a pairing both lead out of the search.
LEMMA SearchRoutes ==
  ASSUME NEW s \in SystemStates, NEW t \in {"StreamerFound", "PairingCompleted"}
  PROVE  /\ Routed(s, t) # "SearchingStreamer"
         /\ After(Routed(s, t), "Degraded") # "SearchingStreamer"
<1>1. \A u, w : After(u, w) \in {u, w}
  BY DEF After
<1>2. ~Ignored(s, t) /\ Detour(s, t) = s
  BY DEF Ignored, Detour
<1>3. After(s, s) = s
  BY <1>1
<1>4. Routed(s, t) = After(s, Destination(s, t))
  BY <1>2, <1>3 DEF Routed
<1>5. Destination(s, t) \in {"Authenticating", "ConnectingNetwork", "Online"}
  BY DEF Destination
<1>6. s = "SearchingStreamer" => Destination(s, t) \in {"Authenticating", "Online"}
  BY DEF Destination
<1>7. /\ After("SearchingStreamer", "Authenticating") = "Authenticating"
      /\ After("SearchingStreamer", "Online") = "Online"
  <2>1. Table["SearchingStreamer"] = {"Authenticating", "Online", "Offline", "ConnectingNetwork"}
    BY DEF Table, SystemStates
  <2> QED  BY <2>1 DEF After, legalTransition
<1>8. Routed(s, t) # "SearchingStreamer"
  BY <1>1, <1>4, <1>5, <1>6, <1>7
<1> QED  BY <1>1, <1>8

\* A step that leaves the worker's handler of the event at hand alone, and
\* lets the system manager's run only if it ends the search.
HandKept ==
  /\ \A i \in DOMAIN todo' : \E j \in DOMAIN todo : todo'[i] = todo[j]
  /\ \A u \in Searching : InHand("discovery", u)' <=> InHand("discovery", u)
  /\ \A u \in {"StreamerFound", "PairingCompleted"} :
       InHand("system", u) => InHand("system", u)' \/ state' # "SearchingStreamer"

LEMMA TodoKept == ASSUME UNCHANGED todo PROVE HandKept
BY DEF HandKept, InHand

LEMMA RunsKept ==
  ASSUME TypeInv, NEW g, g \notin {"discovery", "system"}, Runs(g)
  PROVE  HandKept
<1>1. \A i \in DOMAIN todo' : \E j \in DOMAIN todo : todo'[i] = todo[j]
  BY LeftToRun
<1>2. \A h, u : /\ InHand(h, u)' => InHand(h, u)
                /\ InHand(h, u) => InHand(h, u)' \/ (g = h /\ handling = u)
  BY InHandTail
<1>3. \A u \in Searching : InHand("discovery", u)' <=> InHand("discovery", u)
  BY <1>2
<1> QED  BY <1>1, <1>2, <1>3 DEF HandKept

\* What a step has to do for the worker to keep following the state.
LEMMA SearchFrame ==
  ASSUME TypeInv, SearchInv, NEW es \in Seq(EventTypes), Publish(es),
         Reports(state, es, state'),
         busRunning \/ (state = "SearchingStreamer" <=> state' = "SearchingStreamer"),
         HandKept,
         main' \notin StoppedSearching => main \notin StoppedSearching,
         browsing' => browsing,
         browsing => browsing' \/ main' \in StoppedSearching \/ Coming("StreamerFound")',
         paired' => paired \/ Coming("PairingCompleted")'
  PROVE  SearchInv'
<1>1. HandInv'
  BY DEF HandInv, HandKept, SearchInv
<1>2. /\ \A u \in Searching : InHand("discovery", u)' <=> InHand("discovery", u)
      /\ "SearchLeft" \in Searching /\ "SearchEntered" \in Searching
  BY DEF HandKept, Searching
<1>3. ASSUME NEW u \in {"StreamerFound", "PairingCompleted"}, Coming(u), state' = "SearchingStreamer"
      PROVE  Coming(u)'
  BY <1>3, PublishSearch DEF Coming, HandKept
<1>4. CASE /\ state = "SearchingStreamer" <=> state' = "SearchingStreamer"
           /\ NoSearch(es) \/ ~busRunning
  <2>1. /\ NoSearch(queue) => NoSearch(queue')
        /\ \A t : LastIs(queue, t) => LastIs(queue', t)
    BY <1>4, PublishSearch
  <2>2. WillStop => WillStop'
    BY <1>2, <2>1 DEF WillStop
  <2>3. ASSUME state' = "SearchingStreamer", paired', main' \notin StoppedSearching
        PROVE  WillSearch'
    <3>1. paired => WillSearch
      BY <1>4, <2>3 DEF SearchInv
    <3>2. CASE ~paired
      BY <2>3, <3>2 DEF WillSearch
    <3>3. CASE Coming("StreamerFound") \/ Coming("PairingCompleted")
      BY <1>3, <2>3, <3>3 DEF WillSearch
    <3>4. CASE LastIs(queue, "SearchEntered")
      BY <2>1, <3>4 DEF WillSearch
    <3>5. CASE /\ NoSearch(queue) /\ ~InHand("discovery", "SearchLeft")
               /\ InHand("discovery", "SearchEntered") \/ browsing
      BY <1>2, <2>1, <2>3, <3>5 DEF WillSearch
    <3> QED  BY <3>1, <3>2, <3>3, <3>4, <3>5 DEF WillSearch
  <2> QED  BY <1>1, <1>4, <2>2, <2>3 DEF SearchInv
<1>5. CASE busRunning /\ state' = "SearchingStreamer" /\ LastIs(es, "SearchEntered")
  <2>1. WillSearch'
    BY <1>5, PublishSearch DEF WillSearch
  <2> QED  BY <1>1, <1>5, <2>1 DEF SearchInv
<1>6. CASE busRunning /\ state' # "SearchingStreamer" /\ LastIs(es, "SearchLeft")
  <2>1. WillStop'
    BY <1>6, PublishSearch DEF WillStop
  <2> QED  BY <1>1, <1>6, <2>1 DEF SearchInv
<1> QED  BY <1>4, <1>5, <1>6 DEF Reports

\* The common case: nothing but events that do not concern the worker.
LEMMA SearchPublish ==
  ASSUME TypeInv, SearchInv, NEW es \in Seq(EventTypes), NoSearch(es),
         UNCHANGED queue \/ Publish(es), HandKept, UNCHANGED <<state, browsing>>, paired' => paired,
         main' \notin StoppedSearching => main \notin StoppedSearching
  PROVE  SearchInv'
<1>1. PICK fs \in Seq(EventTypes) : NoSearch(fs) /\ Publish(fs)
  BY PublishesNothing, NoEvent, ShortSearch
<1>2. Reports(state, fs, state')
  BY <1>1, ReportsNothing
<1> QED  BY <1>1, <1>2, SearchFrame

LEMMA PlainEvent ==
  ASSUME NEW t \in RaisedTypes \ Searching
  PROVE  <<t>> \in Seq(EventTypes) /\ NoSearch(<<t>>)
BY ShortSearch DEF RaisedTypes

LEMMA SearchDispatch ==
  ASSUME TypeInv, LifeInv, SearchInv, DispatchNext
  PROVE  SearchInv'
<1>1. queue \in Seq(EventTypes) /\ queue # <<>> /\ Head(queue) \in RaisedTypes
  BY DEF TypeInv, TypeOK, DispatchNext
<1>2. /\ queue' = Tail(queue) /\ todo' = Calls(Head(queue)) /\ todo = <<>>
      /\ UNCHANGED <<main, state, subscribed, browsing, paired>>
  BY DEF DispatchNext, sysVars, cfgVars
<1>3. PICK e \in RaisedTypes : e = Head(queue)
  BY <1>1
<1>4. /\ \A i \in DOMAIN todo' : /\ todo'[i].event = e
                                 /\ todo'[i].handler = "discovery" => e \in Searching
      /\ \A u \in Searching : InHand("discovery", u)' <=> e = u
      /\ subscribed /\ e \notin RoutedElsewhere => InHand("system", e)'
  <2>1. todo' = Calls(e)
    BY <1>2, <1>3
  <2> QED  BY <2>1, Dispatched
<1>5. \A h, u : ~InHand(h, u)
  BY <1>2 DEF InHand
<1>6. /\ NoSearch(queue) => NoSearch(queue') /\ e \notin Searching
      /\ \A t : LastIs(queue, t) => LastIs(queue', t) \/ (e = t /\ NoSearch(queue'))
      /\ \A t : Has(queue, t) => e = t \/ Has(queue', t)
  BY <1>1, <1>2, <1>3, TailSearch
<1>7. HandInv'
  BY <1>4 DEF HandInv
<1>8. WillStop => WillStop'
  BY <1>2, <1>4, <1>5, <1>6 DEF WillStop, Searching
<1>9. ASSUME state = "SearchingStreamer", WillSearch PROVE WillSearch'
  <2>1. subscribed
    BY <1>9 DEF LifeInv, Inert
  <2>2. CASE \E u \in {"StreamerFound", "PairingCompleted"} : Coming(u)
    <3>1. PICK u \in {"StreamerFound", "PairingCompleted"} : Has(queue, u)
      BY <1>5, <2>2 DEF Coming
    <3>2. u \notin RoutedElsewhere
      BY DEF RoutedElsewhere, Searching
    <3>3. e = u \/ Has(queue', u)
      BY <1>6, <3>1
    <3>4. e = u => InHand("system", u)'
      BY <1>4, <2>1, <3>2
    <3>5. Coming(u)'
      BY <3>3, <3>4, Zenon DEF Coming
    <3> QED  BY <3>5 DEF WillSearch
  <2>3. CASE LastIs(queue, "SearchEntered")
    BY <1>4, <1>6, <2>3 DEF WillSearch, Searching
  <2>4. CASE NoSearch(queue) /\ browsing
    BY <1>2, <1>4, <1>6, <2>4 DEF WillSearch, Searching
  <2> QED  BY <1>5, <1>9, <2>2, <2>3, <2>4 DEF WillSearch
<1> QED  BY <1>2, <1>7, <1>8, <1>9 DEF SearchInv

\* Application's gate starts the worker for SearchEntered, and joins it for
\* SearchLeft.
LEMMA SearchGate ==
  ASSUME TypeInv, SearchInv, discoveryGate
  PROVE  SearchInv'
<1>1. /\ Runs("discovery") /\ UNCHANGED <<main, state, queue, paired>>
      /\ browsing' <=> handling = "SearchEntered" /\ (paired \/ browsing)
  BY Zenon DEF discoveryGate, sysVars, cfgVars
<1>2. /\ \A i \in DOMAIN todo' : \E j \in DOMAIN todo : todo'[i] = todo[j]
      /\ 1 \in DOMAIN todo /\ todo[1].handler = "discovery" /\ todo[1].event = handling
  BY <1>1, LeftToRun
<1>3. HandInv'
  BY <1>2 DEF HandInv, SearchInv
<1>4. handling \in {"SearchEntered", "SearchLeft"} /\ InHand("discovery", handling)
  BY <1>2 DEF InHand, HandInv, SearchInv, Searching
<1>5. \A u : InHand("discovery", u) => u = handling
  BY <1>2 DEF InHand, HandInv, SearchInv
<1>6. \A h, u : /\ InHand(h, u)' => InHand(h, u)
                /\ InHand(h, u) => InHand(h, u)' \/ ("discovery" = h /\ handling = u)
  BY <1>1, InHandTail
<1>7. WillStop => WillStop'
  BY <1>1, <1>4, <1>5, <1>6 DEF WillStop
<1>8. ASSUME paired, WillSearch PROVE WillSearch'
  <2>1. CASE Coming("StreamerFound") \/ Coming("PairingCompleted")
    BY <1>1, <1>6, <2>1 DEF WillSearch, Coming
  <2>2. CASE LastIs(queue, "SearchEntered")
    BY <1>1, <2>2 DEF WillSearch
  <2>3. CASE NoSearch(queue) /\ ~InHand("discovery", "SearchLeft")
    BY <1>1, <1>4, <1>6, <1>8, <2>3 DEF WillSearch
  <2> QED  BY <1>8, <2>1, <2>2, <2>3 DEF WillSearch
<1> QED  BY <1>1, <1>3, <1>7, <1>8 DEF SearchInv

LEMMA SearchHandleEvent ==
  ASSUME TypeInv, ReceiverInv, LifeInv, SearchInv, handleEvent
  PROVE  SearchInv'
<1>1. Runs("system") /\ UNCHANGED <<main, browsing, paired>>
  BY DEF handleEvent, cfgVars
<1>2. PICK es \in Seq(EventTypes) : Publish(es) /\ Reports(state, es, state')
  BY HandleEventReports
<1>3. ~busRunning => state' = state
  <2>1. ~busRunning => Inert
    BY DEF ReceiverInv, LifeInv, Unsubscribed, LatePhases
  <2> QED  BY <2>1, InertHandle
<1>4. /\ \A i \in DOMAIN todo' : \E j \in DOMAIN todo : todo'[i] = todo[j]
      /\ \A h, u : /\ InHand(h, u)' => InHand(h, u)
                   /\ InHand(h, u) => InHand(h, u)' \/ ("system" = h /\ handling = u)
  BY <1>1, LeftToRun, InHandTail
<1>5. handling \in {"StreamerFound", "PairingCompleted"} => state' # "SearchingStreamer"
  BY HandleEventRoute, SearchRoutes DEF TypeInv, TypeOK
<1>6. HandKept
  BY <1>4, <1>5 DEF HandKept
<1> QED  BY <1>1, <1>2, <1>3, <1>6, SearchFrame

LEMMA SearchBusWorker ==
  ASSUME TypeInv, ReceiverInv, LifeInv, SearchInv, BusWorker
  PROVE  SearchInv'
<1> USE DEF sysVars, cfgVars
<1>1. CASE ampGate
  <2>1. Runs("ampGate") /\ UNCHANGED <<main, state, queue, browsing, paired>>
    BY <1>1 DEF ampGate
  <2> QED  BY <2>1, RunsKept, NoEvent, ShortSearch, SearchPublish
<1>2. CASE identifyGate
  <2>1. Runs("identify") /\ UNCHANGED <<main, state, browsing, paired>>
    BY <1>2 DEF identifyGate
  <2>2. UNCHANGED queue \/ Publish(<<"AudioStarted">>)
    BY <1>2 DEF identifyGate, ToneStarts
  <2>3. "AudioStarted" \in RaisedTypes \ Searching
    BY DEF RaisedTypes, EventTypes, Searching
  <2> QED  BY <2>1, <2>2, <2>3, RunsKept, PlainEvent, SearchPublish
<1> QED  BY <1>1, <1>2, SearchDispatch, SearchGate, SearchHandleEvent DEF BusWorker

LEMMA SearchMainThread ==
  ASSUME TypeInv, ReceiverInv, SearchInv, MainThread
  PROVE  SearchInv'
<1> USE DEF sysVars, busVars, cfgVars, StoppedSearching
<1>1. CASE StartConfig
  <2>1. /\ UNCHANGED <<state, todo, browsing, paired>> /\ main = "config"
        /\ UNCHANGED queue \/ Publish(<<"ConfigInvalid">>)
    BY <1>1 DEF StartConfig
  <2>2. "ConfigInvalid" \in RaisedTypes \ Searching
    BY DEF RaisedTypes, EventTypes, Searching
  <2> QED  BY <2>1, <2>2, TodoKept, PlainEvent, SearchPublish
<1>2. CASE StartIdentity \/ StartSystem \/ StartAmplifier \/ StartAudio \/ Run \/ StopWeb
           \/ StopAmplifier
  <2>1. /\ UNCHANGED <<state, queue, todo, browsing, paired>>
        /\ main' \notin StoppedSearching => main \notin StoppedSearching
    BY <1>2 DEF StartIdentity, StartSystem, StartAmplifier, StartAudio, Run, StopWeb, StopAmplifier
  <2> QED  BY <2>1, TodoKept, NoEvent, ShortSearch, SearchPublish
<1>3. CASE StopBus
  <2>1. UNCHANGED <<state, queue, todo, browsing, paired>> /\ main = "stopBus"
    BY <1>3 DEF StopBus
  <2>2. main' \in StoppedSearching
    BY <1>3, Zenon DEF StopBus
  <2> QED  BY <2>1, <2>2, TodoKept, NoEvent, ShortSearch, SearchPublish
<1>4. CASE enterInitialState \/ beginSetupMode \/ StopSystem
  <2>1. PICK to : MainMovesTo(to)
    BY <1>4 DEF enterInitialState, beginSetupMode, StopSystem
  <2>2. /\ Publish(Moved(state, state')) /\ Moved(state, state') \in Seq(EventTypes)
        /\ Reports(state, Moved(state, state'), state')
    BY <2>1, MovedNoStart, MovedReports DEF MainMovesTo
  <2>3. /\ UNCHANGED <<todo, browsing, paired>> /\ main \in {"enter", "setup", "stopSystem"}
        /\ main' \notin StoppedSearching => main \notin StoppedSearching
    BY <1>4 DEF enterInitialState, beginSetupMode, StopSystem
  <2>4. busRunning
    BY <2>3 DEF ReceiverInv
  <2> QED  BY <2>2, <2>3, <2>4, TodoKept, SearchFrame
<1>5. CASE StopAudio
  <2>1. /\ UNCHANGED <<state, todo, browsing, paired>> /\ main = "stopAudio"
        /\ Publish(IF streaming THEN <<"AudioStopped">> ELSE <<>>)
    BY <1>5 DEF StopAudio
  <2>2. "AudioStopped" \in RaisedTypes \ Searching
    BY DEF RaisedTypes, EventTypes, Searching
  <2>3. Publish(<<"AudioStopped">>) \/ Publish(<<>>)
    BY <2>1
  <2> QED  BY <2>1, <2>2, <2>3, TodoKept, PlainEvent, NoEvent, ShortSearch, SearchPublish
<1>6. CASE StopDiscovery
  <2>1. /\ UNCHANGED <<state, queue, todo, paired>> /\ main' = "stopAmplifier" /\ ~browsing'
        /\ main = "stopDiscovery"
    BY <1>6 DEF StopDiscovery
  <2>2. Publish(<<>>) /\ Reports(state, <<>>, state')
    BY <2>1, PublishesNothing, ShortSearch, ReportsNothing
  <2> QED  BY <2>1, <2>2, TodoKept, NoEvent, SearchFrame
<1> QED  BY <1>1, <1>2, <1>3, <1>4, <1>5, <1>6 DEF MainThread

LEMMA SearchEnvironment ==
  ASSUME TypeInv, ReceiverInv, SearchInv, Environment
  PROVE  SearchInv'
<1> USE DEF sysVars, busVars, cfgVars, StoppedSearching
<1>1. CASE \E last \in BOOLEAN : onDatagram(last)
  <2>1. PICK last \in BOOLEAN : onDatagram(last)
    BY <1>1
  <2> DEFINE first == IF streaming THEN <<>> ELSE <<"AudioStarted">>
             end == IF last THEN <<"AudioStopped">> ELSE <<>>
  <2>2. UNCHANGED <<main, state, todo, browsing, paired>> /\ Publish(first \o end)
    BY <2>1 DEF onDatagram
  <2>3. /\ <<"AudioStopped">> \in Seq(EventTypes) /\ NoSearch(<<"AudioStopped">>)
        /\ <<"AudioStarted">> \in Seq(EventTypes) /\ NoSearch(<<"AudioStarted">>)
        /\ <<>> \in Seq(EventTypes) /\ NoSearch(<<>>)
    BY PlainEvent, NoEvent, ShortSearch DEF RaisedTypes, EventTypes, Searching
  <2>4. first \in Seq(EventTypes) /\ NoSearch(first) /\ end \in Seq(EventTypes) /\ NoSearch(end)
    BY <2>3, Zenon
  <2> HIDE DEF first, end
  <2>5. first \o end \in Seq(EventTypes) /\ NoSearch(first \o end)
    BY <2>4, ConcatSearch
  <2> QED  BY <2>2, <2>5, TodoKept, SearchPublish
<1>2. CASE WatchdogTimeout \/ RunAudioTest \/ reboot \/ requestShutdown \/ audioTest
  <2>1. /\ UNCHANGED <<state, todo, browsing, paired>>
        /\ main' \notin StoppedSearching => main \notin StoppedSearching
    BY <1>2 DEF WatchdogTimeout, RunAudioTest, reboot, requestShutdown, audioTest
  <2>2. \E t \in {"WatchdogTimeout", "RunAudioTest", "ShutdownRequested", "AudioStarted"} :
          Publish(<<t>>)
    BY <1>2 DEF WatchdogTimeout, RunAudioTest, reboot, requestShutdown, audioTest, ToneStarts
  <2>3. {"WatchdogTimeout", "RunAudioTest", "ShutdownRequested", "AudioStarted"}
          \subseteq RaisedTypes \ Searching
    BY DEF RaisedTypes, EventTypes, Searching
  <2> QED  BY <2>1, <2>2, <2>3, TodoKept, PlainEvent, SearchPublish
<1>3. CASE NetworkPoll
  <2>1. UNCHANGED <<main, state, todo, browsing, paired>>
    BY <1>3 DEF NetworkPoll
  <2>2. \E t \in {"NetworkConnected", "NetworkDisconnected"} : Publish(<<t>>)
    BY <1>3 DEF NetworkPoll
  <2>3. {"NetworkConnected", "NetworkDisconnected"} \subseteq RaisedTypes \ Searching
    BY DEF RaisedTypes, EventTypes, Searching
  <2> QED  BY <2>1, <2>2, <2>3, TodoKept, PlainEvent, SearchPublish
<1>4. CASE searchLoop
  <2>1. /\ UNCHANGED <<main, state, todo, paired>> /\ ~browsing'
        /\ Publish(<<"StreamerFound">>)
    BY <1>4 DEF searchLoop
  <2>2. <<"StreamerFound">> \in Seq(EventTypes) /\ NoSearch(<<"StreamerFound">>)
    BY PlainEvent DEF RaisedTypes, EventTypes, Searching
  <2>3. main' \in StoppedSearching \/ Coming("StreamerFound")'
    <3>1. busRunning => Has(queue', "StreamerFound")
      BY <2>1, <2>2, ShortSearch, PublishSearch
    <3> QED  BY <2>1, <3>1 DEF ReceiverInv, Coming
  <2>4. Reports(state, <<"StreamerFound">>, state')
    BY <2>1, <2>2, ReportsNothing
  <2> QED  BY <2>1, <2>2, <2>3, <2>4, TodoKept, SearchFrame
<1>5. CASE processRequest
  <2>1. /\ UNCHANGED <<main, state, todo, browsing>> /\ Publish(<<"PairingCompleted">>)
        /\ busRunning
    BY <1>5 DEF processRequest, ControlAlive, WebAlive, Serving, ReceiverInv
  <2>2. <<"PairingCompleted">> \in Seq(EventTypes) /\ NoSearch(<<"PairingCompleted">>)
    BY PlainEvent DEF RaisedTypes, EventTypes, Searching
  <2>3. Coming("PairingCompleted")'
    <3>1. Has(queue', "PairingCompleted")
      BY <2>1, <2>2, ShortSearch, PublishSearch
    <3> QED  BY <3>1 DEF Coming
  <2>4. Reports(state, <<"PairingCompleted">>, state')
    BY <2>1, <2>2, ReportsNothing
  <2> QED  BY <2>1, <2>2, <2>3, <2>4, TodoKept, SearchFrame
<1>6. CASE factoryReset \/ Connects \/ PeerEnds
  <2>1. UNCHANGED <<main, state, queue, todo, browsing>> /\ (paired' => paired)
    BY <1>6 DEF factoryReset, Connects, PeerEnds
  <2> QED  BY <2>1, TodoKept, NoEvent, ShortSearch, SearchPublish
<1>7. CASE CalibrationMutes \/ CalibrationUnmutes
  <2>1. UNCHANGED <<main, state, queue, todo, browsing, paired>>
    BY <1>7 DEF CalibrationMutes, CalibrationUnmutes
  <2> QED  BY <2>1, TodoKept, NoEvent, ShortSearch, SearchPublish
<1> QED  BY <1>1, <1>2, <1>3, <1>4, <1>5, <1>6, <1>7 DEF Environment

----------------------------------------------------------------------------
(***************************************************************************)
(* The whole of it, and what follows.                                      *)
(***************************************************************************)
SpeakerInv == AudioInv /\ LifeInv /\ PlayInv /\ SearchInv

LEMMA SpeakerInit == Init => SpeakerInv
<1> SUFFICES ASSUME Init PROVE SpeakerInv
  OBVIOUS
<1>1. LifeInv
  BY DEF Init, LifeInv, Unsubscribed, CalFreePhases, Inert, SystemTurn
<1>2. PlayInv
  BY DEF Init, PlayInv, InHand
<1>3. SearchInv
  BY DEF Init, SearchInv, HandInv, WillStop, NoSearch, InHand
<1> QED  BY <1>1, <1>2, <1>3, AudioInit DEF SpeakerInv

LEMMA SpeakerStep == SpeakerInv /\ [Next]_vars => SpeakerInv'
<1> SUFFICES ASSUME SpeakerInv, [Next]_vars PROVE SpeakerInv'
  OBVIOUS
<1>1. AudioInv'
  BY AudioStep DEF SpeakerInv
<1>2. CASE BusWorker
  BY <1>1, <1>2, LifeBusWorker, PlayBusWorker, SearchBusWorker DEF SpeakerInv, AudioInv
<1>3. CASE MainThread
  BY <1>1, <1>3, LifeMainThread, PlayMainThread, SearchMainThread DEF SpeakerInv, AudioInv
<1>4. CASE Environment
  BY <1>1, <1>4, LifeEnvironment, PlayEnvironment, SearchEnvironment DEF SpeakerInv, AudioInv
<1>5. CASE Exited \/ UNCHANGED vars
  <2>1. UNCHANGED vars
    BY <1>5 DEF Exited
  <2>2. UNCHANGED <<main, state, subscribed, queue, todo, busRunning, cal, others, streaming,
                    browsing, paired>>
    BY <2>1 DEF vars, sysVars, busVars, audioVars, cfgVars, calVars
  <2>3. LifeInv'
    BY <2>2, LifeKept DEF SpeakerInv
  <2>4. PlayInv'
    BY <2>2, NoEvent, PlayPublish DEF SpeakerInv, AudioInv
  <2>5. SearchInv'
    BY <2>2, TodoKept, NoEvent, ShortSearch, SearchPublish DEF SpeakerInv, AudioInv
  <2> QED  BY <1>1, <2>3, <2>4, <2>5 DEF SpeakerInv
<1> QED  BY <1>2, <1>3, <1>4, <1>5 DEF Next

\* PLAYING is backed by the receiver's stream, or by an AudioStopped the system
\* manager has yet to handle, whatever the receiver thread, the bus worker, safe
\* mode and shutdown do between the two.
THEOREM PlayingIsBackedHolds == Spec => []PlayingIsBacked
<1>1. SpeakerInv => PlayingIsBacked
  BY DEF SpeakerInv, PlayInv, PlayingIsBacked, Pending, InHand, HasStop
<1> QED
  BY <1>1, SpeakerInit, SpeakerStep, PTL DEF Spec

\* Whenever the bus is idle, the discovery worker of a serving speaker runs
\* exactly in SEARCHING_STREAMER, although queued events start and stop it and
\* it ends by itself: no start or stop is lost or applied out of order.
THEOREM SearchFollowsStateHolds == Spec => []SearchFollowsState
<1>1. ASSUME SpeakerInv, Quiet, Serving
      PROVE  /\ browsing => state = "SearchingStreamer"
             /\ state = "SearchingStreamer" /\ paired => browsing
  <2>1. \A t, h : ~LastIs(queue, t) /\ ~Has(queue, t) /\ ~InHand(h, t)
    BY <1>1 DEF Quiet, LastIs, Has, InHand
  <2>2. main \notin StoppedSearching
    BY <1>1 DEF Serving, StoppedSearching
  <2> QED  BY <1>1, <2>1, <2>2 DEF SpeakerInv, SearchInv, WillStop, WillSearch, Coming
<1>2. SpeakerInv => SearchFollowsState
  BY <1>1 DEF SearchFollowsState
<1> QED
  BY <1>2, SpeakerInit, SpeakerStep, PTL DEF Spec

\* A process that has exited left no discovery worker, no receiver and no
\* calibration behind, although queued events may start the worker after
\* shutdown() has stopped it: the bus drains before it is joined.
THEOREM CleanExitHolds == Spec => []CleanExit
<1>1. ASSUME SpeakerInv, main = "stopped" PROVE ~browsing /\ ~source /\ ~streaming /\ ~cal
  <2>1. queue = <<>> /\ todo = <<>> /\ state # "SearchingStreamer" /\ ~cal
    BY <1>1 DEF SpeakerInv, LifeInv, Unsubscribed, CalFreePhases, Inert
  <2>2. ~LastIs(queue, "SearchLeft") /\ ~InHand("discovery", "SearchLeft")
    BY <2>1 DEF LastIs, InHand
  <2>3. ~browsing
    BY <1>1, <2>1, <2>2 DEF SpeakerInv, SearchInv, WillStop
  <2>4. ~source /\ ~streaming
    BY <1>1 DEF SpeakerInv, AudioInv, ReceiverInv, LatePhases
  <2> QED  BY <2>1, <2>3, <2>4
<1>2. SpeakerInv => CleanExit
  BY <1>1 DEF CleanExit
<1> QED
  BY <1>2, SpeakerInit, SpeakerStep, PTL DEF Spec
=============================================================================
