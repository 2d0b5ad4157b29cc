------------------------------- MODULE Speaker -------------------------------
(***************************************************************************)
(* One speaker process: Application (src/main/Application.cpp) with the    *)
(* event bus, the system manager and its safe mode, the amplifier, the     *)
(* audio receiver and the discovery worker it wires together.              *)
(*                                                                         *)
(* Threads: main (boot and shutdown), the bus worker (every subscriber     *)
(* runs on it, one event at a time), the UDP receiver, the discovery       *)
(* worker, and the web / command / network / watchdog threads, which act   *)
(* on this state by publishing events and by calling the amplifier.        *)
(* The GPIO writes of this composition succeed.                            *)
(***************************************************************************)
EXTENDS StateMachine, Naturals, Sequences

CONSTANTS
  MaxQueue,   \* other threads publish only while fewer events are queued
  Actors,     \* which of the surrounding threads and clients are active
  ErrorLimit, \* faults in a row that trigger safe mode (3 in the code)
  AmpBoards   \* whether powerOn() may find an amplifier, may not, or both

ASSUME SpeakerConstants ==
  /\ MaxQueue \in Nat
  /\ Actors \in SUBSET {"stream", "network", "watchdog", "pairing", "reset", "reboot",
                        "tone", "calibration", "peer"}
  /\ ErrorLimit \in Nat \ {0}
  /\ AmpBoards \in SUBSET BOOLEAN

VARIABLES
  main,         \* where the main thread is in startup() / shutdown()
  quit,         \* Application::shutdown_requested_
  state,        \* StateMachine::current_
  safeMode,     \* SafeMode::active_
  errorStreak,  \* SystemManager::error_streak_; frozen in safe mode, where
                \* nothing reads it any more
  subscribed,   \* SystemManager holds a bus subscription
  busRunning,   \* EventBus::running_
  queue,        \* EventBus::queue_
  todo,         \* what the bus worker has left of the event it is dispatching:
                \* its handlers, copied when the dispatch began
  ampState, noHardware, warned, line, powered,   \* module AmplifierManager
  source,       \* the UDP receiver thread is running
  streaming,    \* AudioReceiver::streaming_
  browsing,     \* DiscoveryService::searching_ with its worker alive
  setupMode,    \* PairingService::setup_mode_
  paired,       \* config: paired, with a streamer_id
  peer,         \* the command thread is in recv() on a connection that is silent
  cal,          \* a calibration is between its mute and its unmute
  others        \* history: something besides a stream may have opened the amplifier

Amp == INSTANCE AmplifierManager
ampVars == <<ampState, noHardware, warned, line, powered>>
busVars == <<busRunning, queue, todo>>
sysVars == <<state, safeMode, errorStreak, subscribed>>
audioVars == <<source, streaming>>
cfgVars == <<setupMode, paired, peer>>
calVars == <<cal, others>>
vars == <<main, quit, sysVars, busVars, ampVars, audioVars, browsing, cfgVars, calVars>>

----------------------------------------------------------------------------
(***************************************************************************)
(* Events.  Only those some subscriber of this composition acts on are     *)
(* queued: the others are dispatched to nobody and change nothing.  Of     *)
(* StateChanged that leaves the ones into and out of SEARCHING_STREAMER.   *)
(***************************************************************************)
Searching == {"SearchEntered", "SearchLeft"}
EventTypes == Searching \union
  { "NetworkConnected", "NetworkDisconnected", "StreamerFound", "PairingCompleted",
    "StreamerDisconnected", "AudioStarted", "AudioStopped", "ConfigInvalid",
    "IdentityCorrupt", "UpdateFailed", "WatchdogTimeout", "ShutdownRequested",
    "RunAudioTest" }

\* publish() drops everything once the bus is stopping.
Published(es) == IF busRunning THEN queue \o es ELSE queue
Publish(es) == queue' = Published(es)
Room == Len(queue) < MaxQueue

\* Subscribers in subscription order: Application's (made while the services
\* are built) come before SystemManager's, which is made when it starts and
\* has no case for the events of RoutedElsewhere.
RoutedElsewhere == Searching \union {"RunAudioTest"}

Subscribers(t) ==
  (CASE t \in {"AudioStarted", "AudioStopped"} -> <<"ampGate">>
     [] t \in Searching -> <<"discovery">>
     [] t = "RunAudioTest" -> <<"identify">>
     [] OTHER -> <<>>)
  \o (IF subscribed /\ t \notin RoutedElsewhere THEN <<"system">> ELSE <<>>)

Calls(t) == [i \in DOMAIN Subscribers(t) |-> [handler |-> Subscribers(t)[i], event |-> t]]

\* workerLoop takes an event and dispatch() copies its handlers.
DispatchNext ==
  /\ todo = <<>> /\ queue # <<>>
  /\ queue' = Tail(queue)
  /\ todo' = Calls(Head(queue))
  /\ UNCHANGED <<main, quit, sysVars, busRunning, ampVars, audioVars, browsing, cfgVars, calVars>>

\* The bus worker runs handler h of the event at hand.
Runs(h) == todo # <<>> /\ Head(todo).handler = h /\ todo' = Tail(todo)
handling == Head(todo).event
----------------------------------------------------------------------------
(***************************************************************************)
(* SystemManager::handleEvent.  A route is at most two hops; hop one is    *)
(* the detour that makes the destination reachable along a legal edge.     *)
(***************************************************************************)
PastDiscovery == {"Authenticating", "Online", "Playing", "Calibrating", "Updating"}

Detour(s, t) ==
  CASE t = "NetworkConnected" /\ s = "SetupMode" -> "ConnectingNetwork"
    [] t = "AudioStarted" /\ s \in {"SearchingStreamer", "Authenticating"} -> "Online"
    [] OTHER -> s

\* Mutant: a connectivity poll always leads back to discovery.
DestinationUnguarded(s, t) ==
  CASE t = "NetworkConnected" -> "SearchingStreamer"
    [] t \in {"NetworkDisconnected", "StreamerDisconnected"} -> "Offline"
    [] t = "StreamerFound" -> "Authenticating"
    [] t = "PairingCompleted" -> IF s = "SetupMode" THEN "ConnectingNetwork" ELSE "Online"
    [] t = "AudioStarted" -> "Playing"
    [] t = "AudioStopped" -> "Online"
    [] t \in {"ConfigInvalid", "WatchdogTimeout"} -> "Degraded"
    [] t = "IdentityCorrupt" -> "Error"
    [] t = "ShutdownRequested" -> "ShuttingDown"
    [] OTHER -> s

Destination(s, t) ==
  CASE t = "NetworkConnected" -> IF s \in PastDiscovery THEN s ELSE "SearchingStreamer"
    [] t \in {"NetworkDisconnected", "StreamerDisconnected"} -> "Offline"
    [] t = "StreamerFound" -> "Authenticating"
    [] t = "PairingCompleted" -> IF s = "SetupMode" THEN "ConnectingNetwork" ELSE "Online"
    [] t = "AudioStarted" -> "Playing"
    [] t = "AudioStopped" -> "Online"
    [] t \in {"ConfigInvalid", "WatchdogTimeout"} -> "Degraded"
    [] t = "IdentityCorrupt" -> "Error"
    [] t = "ShutdownRequested" -> "ShuttingDown"
    [] OTHER -> s

\* Connectivity is ignored until enterInitialState has run.
Ignored(s, t) == s = "Booting" /\ t \in {"NetworkConnected", "NetworkDisconnected"}

\* Mutant: leaving SEARCHING_STREAMER is not reported.
MovedInOnly(s, t) == IF s # t /\ t = "SearchingStreamer" THEN <<"SearchEntered">> ELSE <<>>

\* transitionTo publishes one StateChanged per accepted move, none otherwise.
Moved(s, t) ==
  IF s = t THEN <<>>
  ELSE IF t = "SearchingStreamer" THEN <<"SearchEntered">>
  ELSE IF s = "SearchingStreamer" THEN <<"SearchLeft">>
  ELSE <<>>

Streak(t) ==
  IF safeMode THEN errorStreak
  ELSE CASE t = "PairingCompleted" -> 0
         [] t \in {"UpdateFailed", "WatchdogTimeout"} -> errorStreak + 1
         [] OTHER -> errorStreak

\* Mutant: one fault too many before safe mode.
EscalatesLate(t) ==
  \/ t \in {"ConfigInvalid", "IdentityCorrupt"}
  \/ t \in {"UpdateFailed", "WatchdogTimeout"} /\ Streak(t) > ErrorLimit

Escalates(t) ==
  \/ t \in {"ConfigInvalid", "IdentityCorrupt"}
  \/ t \in {"UpdateFailed", "WatchdogTimeout"} /\ Streak(t) >= ErrorLimit

\* SafeMode's disable action: mute the amplifier, then AudioReceiver::stop(),
\* which joins the receiver and reports the end of a running stream.
Disable ==
  /\ Amp!Mute(TRUE)
  /\ source' = FALSE
  /\ streaming' = FALSE

handleEvent ==
  LET t  == handling
      s1 == IF Ignored(state, t) THEN state ELSE After(state, Detour(state, t))
      s2 == IF Ignored(state, t) THEN state ELSE After(s1, Destination(s1, t))
      ended == IF streaming THEN <<"AudioStopped">> ELSE <<>>
      s3 == After(s2, "Degraded")
  IN /\ Runs("system")
     /\ errorStreak' = Streak(t)
     /\ \/ /\ Escalates(t) /\ ~safeMode            \* enterSafeMode
           /\ safeMode' = TRUE
           /\ Disable
           /\ state' = s3
           /\ Publish(Moved(state, s1) \o Moved(s1, s2) \o ended \o Moved(s2, s3))
        \/ /\ ~(Escalates(t) /\ ~safeMode)
           /\ state' = s2
           /\ Publish(Moved(state, s1) \o Moved(s1, s2))
           /\ UNCHANGED <<safeMode, ampVars, audioVars>>
     /\ UNCHANGED <<main, quit, subscribed, busRunning, browsing, cfgVars, calVars>>

(***************************************************************************)
(* Application's own subscribers.                                          *)
(***************************************************************************)
ampGate ==
  /\ Runs("ampGate")
  /\ \/ handling = "AudioStarted" /\ Amp!Unmute(TRUE)
     \/ handling = "AudioStarted" /\ UNCHANGED ampVars       \* config says muted
     \/ handling = "AudioStopped" /\ Amp!Mute(TRUE)
  /\ UNCHANGED <<main, quit, sysVars, busRunning, queue, audioVars, browsing,
                 cfgVars, calVars>>

\* Entering SEARCHING_STREAMER starts the worker for the paired streamer;
\* leaving it stops (joins) the worker.
discoveryGate ==
  /\ Runs("discovery")
  /\ browsing' = (handling = "SearchEntered" /\ (paired \/ browsing))
  /\ UNCHANGED <<main, quit, sysVars, busRunning, queue, ampVars, audioVars,
                 cfgVars, calVars>>

\* playIdentifyTone, unless the config says muted: unmute through the usual
\* event and queue the tone's packets.
ToneStarts ==
  /\ Publish(<<"AudioStarted">>)
  /\ others' = TRUE

identifyGate ==
  /\ Runs("identify")
  /\ ToneStarts \/ UNCHANGED <<queue, others>>
  /\ UNCHANGED <<main, quit, sysVars, busRunning, ampVars, audioVars, browsing, cfgVars, cal>>
----------------------------------------------------------------------------
(***************************************************************************)
(* The main thread: services start in order, and stop in reverse order.    *)
(* Only the services with state in this composition have a step; one that  *)
(* merely begins or ceases to publish shares the step of its neighbour.    *)
(***************************************************************************)
Phases ==
  { "config", "identity", "system", "amplifier", "audio", "enter", "setup", "running",
    "blocking", "waiting", "stopWeb", "stopAudio", "stopDiscovery", "stopAmplifier", "stopSystem", "stopBus", "stopped" }

Serving == main \in {"running", "blocking", "waiting"}
WebAlive == Serving \/ main \in {"enter", "setup", "stopWeb"}
ControlAlive == WebAlive \/ main \in {"stopAudio", "stopDiscovery"}
NetworkAlive == ControlAlive \/ main \in {"audio", "stopAmplifier"}

\* ConfigManager::load: a good file, one recovered from the backup (reported,
\* and the boot goes on), one nobody can read (reported, and fatal), or none
\* and no way to store the defaults (fatal, and not reported).
StartConfig ==
  /\ main = "config"
  /\ main' \in {"identity", "stopBus"}
  /\ UNCHANGED queue \/ Publish(<<"ConfigInvalid">>)
  /\ UNCHANGED <<quit, sysVars, busRunning, todo, ampVars, audioVars, browsing,
                 cfgVars, calVars>>

\* A device without a usable identity does not boot.
StartIdentity ==
  /\ main = "identity"
  /\ main' \in {"system", "stopBus"}
  /\ UNCHANGED <<quit, sysVars, busVars, ampVars, audioVars, browsing, cfgVars, calVars>>

StartSystem ==
  /\ main = "system" /\ main' = "amplifier"
  /\ subscribed' = TRUE
  /\ UNCHANGED <<quit, state, safeMode, errorStreak, busVars, ampVars, audioVars, browsing,
                 cfgVars, calVars>>

\* The amplifier, then the network monitor.
StartAmplifier ==
  /\ main = "amplifier" /\ main' = "audio"
  /\ \E found \in AmpBoards : Amp!AmpStart(found, TRUE)
  /\ UNCHANGED <<quit, sysVars, busVars, audioVars, browsing, cfgVars, calVars>>

\* The command server, AudioReceiver::start (a socket that cannot be bound
\* degrades the service), the web server and the watchdog.
StartAudio ==
  /\ main = "audio" /\ main' = "enter"
  /\ source' \in BOOLEAN
  /\ UNCHANGED <<quit, sysVars, busVars, ampVars, streaming, browsing, cfgVars, calVars>>

\* transitionTo(t) on the main thread.
MainMovesTo(t) ==
  /\ state' = After(state, t)
  /\ Publish(Moved(state, After(state, t)))

enterInitialState ==
  /\ main = "enter"
  /\ main' = IF paired THEN "running" ELSE "setup"
  /\ MainMovesTo(IF paired THEN "ConnectingNetwork" ELSE "Unconfigured")
  /\ UNCHANGED <<quit, safeMode, errorStreak, subscribed, busRunning, todo, ampVars,
                 audioVars, browsing, cfgVars, calVars>>

\* Unpaired: SETUP_MODE and a pairing window.
beginSetupMode ==
  /\ main = "setup" /\ main' = "running"
  /\ MainMovesTo("SetupMode")
  /\ setupMode' = TRUE
  /\ UNCHANGED <<quit, safeMode, errorStreak, subscribed, busRunning, todo, ampVars,
                 audioVars, browsing, paired, peer, calVars>>

\* SIGTERM / SIGINT, at any point of the process's life: set the flag, publish,
\* notify.  The notification wakes run() up if it waits; the flag is set without
\* the mutex of the condition variable.
requestShutdown ==
  /\ main # "stopped" /\ (quit => main = "waiting")
  /\ quit' = TRUE
  /\ main' = IF main = "waiting" THEN "running" ELSE main
  /\ Publish(<<"ShutdownRequested">>)
  /\ UNCHANGED <<sysVars, busRunning, todo, ampVars, audioVars, browsing,
                 cfgVars, calVars>>

\* Mutant: run() waits for a notification without testing the flag.
RunMissesSignal ==
  /\ \/ main = "running" /\ main' = "blocking"
     \/ main = "blocking" /\ main' = "waiting"
  /\ UNCHANGED <<quit, sysVars, busVars, ampVars, audioVars, browsing, cfgVars, calVars>>

\* run(): test the flag (holding the mutex) and leave, or block on the
\* condition variable, which only then counts as waiting.
Run ==
  /\ \/ main = "running" /\ main' = IF quit THEN "stopWeb" ELSE "blocking"
     \/ main = "blocking" /\ main' = "waiting"
  /\ UNCHANGED <<quit, sysVars, busVars, ampVars, audioVars, browsing, cfgVars, calVars>>

\* The watchdog, then the web server: it accepts no more requests ...
StopWeb ==
  /\ main = "stopWeb" /\ main' = "stopAudio"
  /\ UNCHANGED <<quit, sysVars, busVars, ampVars, audioVars, browsing, cfgVars, calVars>>

\* Mutant: the receiver stops without reporting the end of the stream.
StopAudioSilently ==
  /\ main = "stopAudio" /\ ~cal /\ main' = "stopDiscovery"
  /\ source' = FALSE /\ streaming' = FALSE
  /\ UNCHANGED <<quit, sysVars, busVars, ampVars, browsing, cfgVars, calVars>>

\* ... and finishes the ones in flight before the audio receiver stops.
StopAudio ==
  /\ main = "stopAudio" /\ ~cal /\ main' = "stopDiscovery"
  /\ source' = FALSE /\ streaming' = FALSE
  /\ Publish(IF streaming THEN <<"AudioStopped">> ELSE <<>>)
  /\ UNCHANGED <<quit, sysVars, busRunning, todo, ampVars, browsing, cfgVars, calVars>>

\* The command server, whose stop() joins a thread that may be in recv(), with no
\* timeout, on a silent connection; pairing (which closes its window), discovery.
StopDiscovery ==
  /\ main = "stopDiscovery" /\ ~peer /\ main' = "stopAmplifier"
  /\ setupMode' = FALSE
  /\ browsing' = FALSE
  /\ UNCHANGED <<quit, sysVars, busVars, ampVars, audioVars, paired, peer, calVars>>

\* The network monitor, then the amplifier.
StopAmplifier ==
  /\ main = "stopAmplifier" /\ main' = "stopSystem"
  /\ Amp!AmpStop
  /\ UNCHANGED <<quit, sysVars, busVars, audioVars, browsing, cfgVars, calVars>>

\* Mutant: the system manager unsubscribes without entering SHUTTING_DOWN.
StopSystemQuietly ==
  /\ main = "stopSystem" /\ main' = "stopBus"
  /\ subscribed' = FALSE
  /\ UNCHANGED <<quit, state, safeMode, errorStreak, busVars, ampVars, audioVars,
                 browsing, cfgVars, calVars>>

StopSystem ==
  /\ main = "stopSystem" /\ main' = "stopBus"
  /\ subscribed' = FALSE
  /\ MainMovesTo("ShuttingDown")
  /\ UNCHANGED <<quit, safeMode, errorStreak, busRunning, todo, ampVars, audioVars,
                 browsing, cfgVars, calVars>>

\* Mutant: the bus is joined without being told to stop.
StopBusUnflagged ==
  /\ main = "stopBus"
  /\ main' = IF ~busRunning /\ queue = <<>> /\ todo = <<>> THEN "stopped" ELSE main
  /\ UNCHANGED <<quit, sysVars, busVars, ampVars, audioVars, browsing, cfgVars, calVars>>

\* EventBus::stop refuses new events, lets the worker drain, and joins it.
StopBus ==
  /\ main = "stopBus"
  /\ \/ busRunning /\ busRunning' = FALSE /\ UNCHANGED main
     \/ ~busRunning /\ queue = <<>> /\ todo = <<>> /\ main' = "stopped"
        /\ UNCHANGED busRunning
  /\ UNCHANGED <<quit, sysVars, queue, todo, ampVars, audioVars, browsing, cfgVars,
                 calVars>>
----------------------------------------------------------------------------
(***************************************************************************)
(* The other threads.                                                      *)
(***************************************************************************)
\* Mutant: the end of a one-packet stream is reported before its beginning.
onDatagramSwapped(last) ==
  /\ "stream" \in Actors /\ source /\ (Room \/ streaming) /\ (last \/ ~streaming)
  /\ streaming' = ~last
  /\ Publish((IF last THEN <<"AudioStopped">> ELSE <<>>)
             \o (IF streaming THEN <<>> ELSE <<"AudioStarted">>))
  /\ UNCHANGED <<main, quit, sysVars, busRunning, todo, ampVars, source, browsing,
                 cfgVars, calVars>>

\* AudioReceiver::onDatagram on the receiver thread; last is the packet's flag.
onDatagram(last) ==
  /\ "stream" \in Actors /\ source /\ (Room \/ streaming) /\ (last \/ ~streaming)
  /\ streaming' = ~last
  /\ Publish((IF streaming THEN <<>> ELSE <<"AudioStarted">>)
             \o (IF last THEN <<"AudioStopped">> ELSE <<>>))
  /\ UNCHANGED <<main, quit, sysVars, busRunning, todo, ampVars, source, browsing,
                 cfgVars, calVars>>

\* DiscoveryService::searchLoop finds the streamer; one match ends the worker.
searchLoop ==
  /\ browsing /\ Room
  /\ browsing' = FALSE
  /\ Publish(<<"StreamerFound">>)
  /\ UNCHANGED <<main, quit, sysVars, busRunning, todo, ampVars, audioVars,
                 cfgVars, calVars>>

\* NetworkManager's monitor publishes connectivity at every poll.
NetworkPoll ==
  /\ NetworkAlive /\ Room /\ "network" \in Actors
  /\ \E t \in {"NetworkConnected", "NetworkDisconnected"} : Publish(<<t>>)
  /\ UNCHANGED <<main, quit, sysVars, busRunning, todo, ampVars, audioVars,
                 browsing, cfgVars, calVars>>

\* Watchdog::pollOnce: some service has failed its third poll in a row.
WatchdogTimeout ==
  /\ WebAlive /\ Room /\ "watchdog" \in Actors
  /\ Publish(<<"WatchdogTimeout">>)
  /\ UNCHANGED <<main, quit, sysVars, busRunning, todo, ampVars, audioVars,
                 browsing, cfgVars, calVars>>

\* TcpCommandTransport::acceptLoop serves one connection at a time, and accepts
\* none once stop() has closed the listening socket.  A request that comes with
\* its connection is a step of its own below; this one waits for its line.
Connects ==
  /\ ControlAlive /\ main # "stopDiscovery" /\ ~peer /\ "peer" \in Actors
  /\ peer' = TRUE
  /\ UNCHANGED <<main, quit, sysVars, busVars, ampVars, audioVars, browsing, setupMode,
                 paired, calVars>>

\* The silent peer ends its line, or goes.
PeerEnds ==
  /\ peer /\ peer' = FALSE
  /\ UNCHANGED <<main, quit, sysVars, busVars, ampVars, audioVars, browsing, setupMode,
                 paired, calVars>>

\* PairingService::processRequest on the command thread, accepted: persist,
\* close the window, report.
processRequest ==
  /\ ControlAlive /\ ~peer /\ setupMode /\ Room /\ "pairing" \in Actors
  /\ paired' = TRUE /\ setupMode' = FALSE
  /\ Publish(<<"PairingCompleted">>)
  /\ UNCHANGED <<main, quit, sysVars, busRunning, todo, ampVars, audioVars,
                 browsing, peer, calVars>>

\* The web API's factory reset of the configuration.  (audio.muted, which the
\* API and SET_MUTE change at any time, is a choice where it is read.)
factoryReset ==
  /\ WebAlive /\ "reset" \in Actors
  /\ paired' = FALSE
  /\ UNCHANGED <<main, quit, sysVars, busVars, ampVars, audioVars, browsing, setupMode,
                 peer, calVars>>

\* The audio test, from the web API (on its thread) or as a signed command
\* (acknowledged at once, carried out by identifyGate on the bus).
audioTest ==
  /\ WebAlive /\ Room /\ "tone" \in Actors
  /\ ToneStarts
  /\ UNCHANGED <<main, quit, sysVars, busRunning, todo, ampVars, audioVars, browsing,
                 cfgVars, cal>>

RunAudioTest ==
  /\ ControlAlive /\ ~peer /\ Room /\ "tone" \in Actors
  /\ Publish(<<"RunAudioTest">>)
  /\ UNCHANGED <<main, quit, sysVars, busRunning, todo, ampVars, audioVars,
                 browsing, cfgVars, calVars>>

\* reboot, from the web API or as a command: the event, and nothing else.
reboot ==
  /\ ControlAlive /\ Room /\ "reboot" \in Actors
  /\ Publish(<<"ShutdownRequested">>)
  /\ UNCHANGED <<main, quit, sysVars, busRunning, todo, ampVars, audioVars,
                 browsing, cfgVars, calVars>>

\* runCalibration on a web thread: mute around the measurement, then unmute
\* whatever the amplifier was doing before.
CalibrationMutes ==
  /\ WebAlive /\ ~cal /\ "calibration" \in Actors
  /\ cal' = TRUE /\ others' = TRUE
  /\ Amp!Mute(TRUE)
  /\ UNCHANGED <<main, quit, sysVars, busVars, audioVars, browsing, cfgVars>>

CalibrationUnmutes ==
  /\ cal
  /\ cal' = FALSE
  /\ Amp!Unmute(TRUE)
  /\ UNCHANGED <<main, quit, sysVars, busVars, audioVars, browsing, cfgVars, others>>

\* The process has exited.
Exited == main = "stopped" /\ UNCHANGED vars
----------------------------------------------------------------------------
Init ==
  /\ main = "config" /\ quit = FALSE
  /\ state = "Booting" /\ safeMode = FALSE /\ errorStreak = 0 /\ subscribed = FALSE
  /\ busRunning = TRUE /\ queue = <<>> /\ todo = <<>>
  /\ Amp!AmpInit
  /\ source = FALSE /\ streaming = FALSE /\ browsing = FALSE
  /\ setupMode = FALSE /\ paired \in BOOLEAN /\ peer = FALSE
  /\ cal = FALSE /\ others = FALSE

BusWorker == DispatchNext \/ handleEvent \/ ampGate \/ discoveryGate \/ identifyGate

MainThread ==
  \/ StartConfig \/ StartIdentity \/ StartSystem \/ StartAmplifier \/ StartAudio
  \/ enterInitialState \/ beginSetupMode \/ Run
  \/ StopWeb \/ StopAudio \/ StopDiscovery \/ StopAmplifier \/ StopSystem \/ StopBus

Environment ==
  \/ \E last \in BOOLEAN : onDatagram(last)
  \/ searchLoop \/ NetworkPoll \/ WatchdogTimeout \/ processRequest \/ factoryReset
  \/ audioTest \/ RunAudioTest \/ reboot \/ requestShutdown
  \/ CalibrationMutes \/ CalibrationUnmutes \/ Connects \/ PeerEnds

Next == BusWorker \/ MainThread \/ Environment \/ Exited

Spec == Init /\ [][Next]_vars

\* Threads that have work get to run: the bus worker, main, and a calibration
\* that has muted the amplifier.  Nothing else is owed a step, least of all a
\* peer that connected and says nothing.
FairSpec == Spec /\ WF_vars(BusWorker) /\ WF_vars(MainThread) /\ WF_vars(CalibrationUnmutes)
----------------------------------------------------------------------------
(***************************************************************************)
(* Properties.                                                             *)
(***************************************************************************)
HandlerNames == {"ampGate", "discovery", "identify", "system"}

\* Every variable of the process has the type its C++ declaration gives it.
TypeOK ==
  /\ main \in Phases /\ quit \in BOOLEAN
  /\ state \in SystemStates /\ safeMode \in BOOLEAN
  /\ errorStreak \in 0..ErrorLimit /\ subscribed \in BOOLEAN
  /\ busRunning \in BOOLEAN /\ queue \in Seq(EventTypes)
  /\ todo \in Seq([handler : HandlerNames, event : EventTypes])
  /\ ampState \in Amp!AmpStates /\ noHardware \in BOOLEAN /\ warned \in BOOLEAN
  /\ line \in {"muted", "open"} /\ powered \in BOOLEAN
  /\ source \in BOOLEAN /\ streaming \in BOOLEAN /\ browsing \in BOOLEAN
  /\ setupMode \in BOOLEAN /\ paired \in BOOLEAN /\ peer \in BOOLEAN
  /\ cal \in BOOLEAN /\ others \in BOOLEAN

\* Handler h has yet to see an event of type t.
Pending(h, t) ==
  \/ \E i \in DOMAIN queue : queue[i] = t
  \/ \E i \in DOMAIN todo : todo[i].handler = h /\ todo[i].event = t

Quiet == queue = <<>> /\ todo = <<>>

\* The amplifier is open only for a stream: when the line is open and neither
\* a tone nor a calibration opened it, the stream is running or the event that
\* mutes the amplifier is on its way (Application.cpp:280-286).
SilentWithoutStream ==
  ~others /\ line = "open" =>
    streaming \/ Pending("ampGate", "AudioStopped")

\* PLAYING is never reported without a stream behind it, once the bus has
\* caught up: the receiver's flag and the state machine, written by different
\* threads, agree up to the events in flight.
PlayingIsBacked ==
  ~others /\ state = "Playing" => streaming \/ Pending("system", "AudioStopped")

\* The discovery worker follows the state machine although it is started and
\* stopped by queued events: once the bus is idle, it runs exactly in
\* SEARCHING_STREAMER, unless nobody is paired (Application.cpp:288-308).
SearchFollowsState ==
  Quiet /\ Serving =>
    /\ browsing => state = "SearchingStreamer"
    /\ state = "SearchingStreamer" /\ paired => browsing

\* A process that has exited left no worker behind, whatever was in flight
\* when it was told to stop.
CleanExit == main = "stopped" => ~browsing /\ ~source /\ ~streaming /\ ~cal

\* Only the main thread's enterInitialState takes the machine out of BOOTING;
\* connectivity, streams and faults that arrive during the boot can at most shut
\* it down (SystemManager.cpp:13-20, StateMachine.cpp:44-50).
BootGate ==
  [][ state = "Booting" /\ state' # state =>
        \/ main = "enter" /\ main' # main
        \/ state' = "ShuttingDown" ]_vars

\* The connectivity poll never drags a speaker that is past discovery back
\* into it; only losing the network (OFFLINE) does (SystemManager.cpp:32-38).
NoBackslide ==
  [][~( /\ state \in PastDiscovery
         /\ state' \in {"SearchingStreamer", "ConnectingNetwork"} )]_vars

\* shutdown() ends, whatever the other threads are doing when it begins, after a
\* signal or a failed boot: no join and no drain of it waits for ever, but for one.
\* The command server's join waits for a peer that connected and neither ends its
\* line nor goes (TcpCommandTransport.cpp:66,86), and for nothing else.
TeardownCompletes ==
  (main \in {"stopWeb", "stopBus"} ~> main = "stopped") \/ <>[]peer

\* A signal during the boot, which nobody waits for yet, is not lost; the
\* shutdown it leads to is held up by nothing but the silent peer.
EarlySignalStops ==
  (quit /\ main \notin {"blocking", "waiting"} ~> main = "stopped") \/ <>[]peer

\* Application.h:59: run() will "Block until requestShutdown() is called (e.g.
\* by a signal handler), then stop services", the silent peer apart.
ShutdownCompletes == (quit ~> main = "stopped") \/ <>[]peer

\* SafeMode.h:12-13: "In Safe Mode the amplifier stays muted".
SafeModeKeepsAmpMuted == safeMode => line = "muted"
=============================================================================
