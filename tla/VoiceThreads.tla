---------------------------- MODULE VoiceThreads ----------------------------
(***************************************************************************)
(* The life of a VoiceSession (voice_session.cpp, audio_engine.cpp,        *)
(* udp_socket.cpp) among the threads that use it: the thread of the window *)
(* makes, starts, stops and destroys its parts; PortAudio calls back with  *)
(* captured frames and for frames to play; the receive thread of the       *)
(* socket brings packets.  None of them holds a lock over its work: what   *)
(* protects the parts is the order in which they are stopped.              *)
(***************************************************************************)
EXTENDS Naturals

CONSTANTS
  Channel,
  NoChannel

ASSUME NoChannelAssumption == NoChannel \notin Channel

VARIABLES
  gui,        \* where the thread of the window is
  round,      \* the shutdown that runs: main and the window both make one
  parts,      \* components that exist
  devices,    \* audio devices the computer has
  initialized_, active_,
  capture_running_, playback_running_,
  connected_, running_, socket_,
  receiver,   \* the receive thread
  capturing,  \* the capture callback
  playing,    \* the playback callback
  channels_to_mix, \* its snapshot of the channels, less those it is through with
  held,       \* the channel whose buffer the playback callback points to
  buffers     \* channel_buffers_

engine  == <<initialized_, capture_running_, playback_running_, devices>>
socket  == <<connected_, running_, socket_>>
threads == <<receiver, capturing, playing, channels_to_mix, held>>
vars == <<gui, round, parts, devices, initialized_, active_, capture_running_,
          playback_running_, connected_, running_, socket_, receiver, capturing,
          playing, channels_to_mix, held, buffers>>

Part == {"audio_engine_", "encoder_", "decoder_", "jitter_buffer_", "network_"}

Starting == {"setCallbacks", "startCapture", "startPlayback", "undoCapture", "activate"}
Ending   == {"stop", "stopCapture", "stopPlayback", "disconnect", "join", "close",
             "engine", "clear", "reset"}

TypeOK ==
  /\ gui \in {"new", "idle", "novoice", "crashed", "done"} \cup Starting \cup Ending
  /\ round \in {1, 2}
  /\ parts \subseteq Part /\ devices \subseteq {"input", "output"}
  /\ initialized_ \in BOOLEAN /\ active_ \in BOOLEAN
  /\ capture_running_ \in BOOLEAN /\ playback_running_ \in BOOLEAN
  /\ connected_ \in BOOLEAN /\ running_ \in BOOLEAN
  /\ socket_ \in {"none", "open", "refused"}
  /\ receiver \in {"none", "loop", "decode", "push", "ended"}
  /\ capturing \in {"out", "encode", "send"}
  /\ playing \in {"out", "mix"} /\ held \in Channel \cup {NoChannel}
  /\ buffers \subseteq Channel /\ channels_to_mix \subseteq Channel

Init ==
  /\ gui = "new" /\ round = 1 /\ parts = {}
  /\ devices \in SUBSET {"input", "output"}
  /\ initialized_ = FALSE /\ active_ = FALSE
  /\ capture_running_ = FALSE /\ playback_running_ = FALSE
  /\ connected_ = FALSE /\ running_ = FALSE /\ socket_ = "none"
  /\ receiver = "none" /\ capturing = "out" /\ playing = "out"
  /\ held = NoChannel /\ channels_to_mix = {} /\ buffers = {}

----------------------------------------------------------------------------
(* VoiceSession::initialize.  Its parts are made one after the other, and  *)
(* one that fails ends it; those made before it stay.  No other thread     *)
(* runs before the socket is connected, its last part.                     *)
Initialize(failed) ==
  /\ gui = "new"
  /\ parts' = CASE failed = "audio" -> {"audio_engine_"}
                [] failed = "encoder" -> {"audio_engine_"}
                [] failed = "decoder" -> {"audio_engine_", "encoder_"}
                [] OTHER -> Part
  /\ initialized_' = (failed # "audio")
  /\ IF failed = "nothing"
       THEN gui' = "idle" /\ connected_' = TRUE /\ running_' = TRUE /\ receiver' = "loop"
       ELSE gui' = "novoice" /\ UNCHANGED <<connected_, running_, receiver>>
     \* An address that is not numeric is refused after the socket was made;
     \* disconnect() then returns at once, for it is not connected.
  /\ socket_' = CASE failed = "nothing" -> "open" [] failed = "address" -> "refused"
                  [] OTHER -> "none"
  /\ UNCHANGED <<round, devices, active_, capture_running_, playback_running_, capturing,
                 playing, channels_to_mix, held, buffers>>

----------------------------------------------------------------------------
(* VoiceSession::start, when the server has let the user into a channel.   *)
Goto(label) ==
  /\ gui' = label
  /\ UNCHANGED <<round, parts>>

Start ==
  /\ gui = "idle" /\ ~active_
  /\ Goto("setCallbacks")
  /\ UNCHANGED <<engine, active_, socket, threads, buffers>>

SetCallbacks ==
  /\ gui = "setCallbacks"
  /\ Goto("startCapture")
  /\ UNCHANGED <<engine, active_, socket, threads, buffers>>

(* start_capture looks the device up and reads its latency through a null  *)
(* pointer if there is none.                                               *)
StartCapture ==
  /\ gui = "startCapture"
  /\ IF "input" \notin devices
       THEN Goto("crashed") /\ UNCHANGED capture_running_
       ELSE \/ Goto("startPlayback") /\ capture_running_' = TRUE
            \/ Goto("idle") /\ UNCHANGED capture_running_
  /\ UNCHANGED <<initialized_, playback_running_, devices, active_, socket, threads,
                 buffers>>

StartPlayback ==
  /\ gui = "startPlayback"
  /\ IF "output" \notin devices
       THEN Goto("crashed") /\ UNCHANGED playback_running_
       ELSE \/ Goto("activate") /\ playback_running_' = TRUE
            \/ Goto("undoCapture") /\ UNCHANGED playback_running_
  /\ UNCHANGED <<initialized_, capture_running_, devices, active_, socket, threads,
                 buffers>>

(* Broken variant: the capture stream is not stopped.                      *)
UndoNothing ==
  /\ gui = "undoCapture"
  /\ Goto("idle")
  /\ UNCHANGED <<engine, active_, socket, threads, buffers>>

(* Pa_StopStream returns when the callback has.                            *)
UndoCapture ==
  /\ gui = "undoCapture" /\ capturing = "out"
  /\ capture_running_' = FALSE
  /\ Goto("idle")
  /\ UNCHANGED <<initialized_, playback_running_, devices, active_, socket, threads,
                 buffers>>

Activate ==
  /\ gui = "activate"
  /\ active_' = TRUE
  /\ Goto("idle")
  /\ UNCHANGED <<engine, socket, threads, buffers>>

(* join_channel makes a new buffer, also for a channel that has one, and   *)
(* leave_channel destroys it, while the callback may have a pointer to it: *)
(* buffers says that there is one, not that it is still the same.          *)
JoinChannel(ch) ==
  /\ gui = "idle"
  /\ buffers' = buffers \cup {ch}
  /\ UNCHANGED <<gui, round, parts, engine, active_, socket, threads>>

LeaveChannel(ch) ==
  /\ gui = "idle"
  /\ buffers' = buffers \ {ch}
  /\ UNCHANGED <<gui, round, parts, engine, active_, socket, threads>>

----------------------------------------------------------------------------
(* The end of the program: stop() and shutdown(), once by main for the     *)
(* session it made and once by the destructor of the window.               *)
Exit ==
  /\ gui \in {"idle", "novoice"}
  /\ Goto("stop")
  /\ UNCHANGED <<engine, active_, socket, threads, buffers>>

Stop ==
  /\ gui = "stop"
  /\ active_' = FALSE
  /\ Goto(IF active_ THEN "stopCapture" ELSE "disconnect")
  /\ UNCHANGED <<engine, socket, threads, buffers>>

StopCapture ==
  /\ gui = "stopCapture" /\ capturing = "out"
  /\ capture_running_' = FALSE
  /\ Goto("stopPlayback")
  /\ UNCHANGED <<initialized_, playback_running_, devices, active_, socket, threads,
                 buffers>>

(* Broken variant: the stream is left to the engine's own shutdown.        *)
StopPlaybackLater ==
  /\ gui = "stopPlayback"
  /\ Goto("disconnect")
  /\ UNCHANGED <<engine, active_, socket, threads, buffers>>

StopPlayback ==
  /\ gui = "stopPlayback" /\ playing = "out"
  /\ playback_running_' = FALSE
  /\ Goto("disconnect")
  /\ UNCHANGED <<initialized_, capture_running_, devices, active_, socket, threads,
                 buffers>>

(* Broken variants: the thread is not told to end, or not waited for.      *)
DisconnectUntold ==
  /\ gui = "disconnect"
  /\ Goto(IF connected_ THEN "join" ELSE "engine")
  /\ UNCHANGED <<engine, active_, socket, threads, buffers>>

JoinNothing ==
  /\ gui = "join"
  /\ Goto("close")
  /\ UNCHANGED <<engine, active_, socket, threads, buffers>>

(* UdpVoiceSocket::disconnect, nothing unless connected.                   *)
Disconnect ==
  /\ gui = "disconnect"
  /\ running_' = FALSE
  /\ Goto(IF connected_ THEN "join" ELSE "engine")
  /\ UNCHANGED <<engine, active_, connected_, socket_, threads, buffers>>

(* The thread ends when it sees running_, after the packet it works on.    *)
JoinReceiver ==
  /\ gui = "join" /\ receiver = "ended"
  /\ receiver' = "none"
  /\ Goto("close")
  /\ UNCHANGED <<engine, active_, socket, capturing, playing, channels_to_mix, held, buffers>>

(* Broken variant: the socket is kept.                                     *)
CloseNothing ==
  /\ gui = "close"
  /\ connected_' = FALSE
  /\ Goto("engine")
  /\ UNCHANGED <<engine, active_, running_, socket_, threads, buffers>>

CloseSocket ==
  /\ gui = "close"
  /\ socket_' = "none" /\ connected_' = FALSE
  /\ Goto("engine")
  /\ UNCHANGED <<engine, active_, running_, threads, buffers>>

(* AudioEngine::shutdown stops what still runs.                            *)
ShutdownEngine ==
  /\ gui = "engine"
  /\ capture_running_ => capturing = "out"
  /\ playback_running_ => playing = "out"
  /\ initialized_' = FALSE /\ capture_running_' = FALSE /\ playback_running_' = FALSE
  /\ Goto("clear")
  /\ UNCHANGED <<devices, active_, socket, threads, buffers>>

ClearChannels ==
  /\ gui = "clear"
  /\ buffers' = {}
  /\ Goto("reset")
  /\ UNCHANGED <<engine, active_, socket, threads>>

ResetParts ==
  /\ gui = "reset"
  /\ parts' = {}
  /\ IF round = 1 THEN gui' = "stop" /\ round' = 2 ELSE gui' = "done" /\ UNCHANGED round
  /\ UNCHANGED <<engine, active_, socket, threads, buffers>>

----------------------------------------------------------------------------
(* The capture callback: what it gets before the session is active, and    *)
(* after, is dropped.                                                      *)
CaptureEnters ==
  /\ capture_running_ /\ capturing = "out" /\ active_
  /\ capturing' = "encode"
  /\ UNCHANGED <<gui, round, parts, engine, active_, socket, receiver, playing,
                 channels_to_mix, held, buffers>>

CaptureEncodes ==
  /\ capturing = "encode"
  /\ capturing' \in {"send", "out"}
  /\ UNCHANGED <<gui, round, parts, engine, active_, socket, receiver, playing,
                 channels_to_mix, held, buffers>>

CaptureSends ==
  /\ capturing = "send"
  /\ capturing' = "out"
  /\ UNCHANGED <<gui, round, parts, engine, active_, socket, receiver, playing,
                 channels_to_mix, held, buffers>>

(* The playback callback: silence unless active and not deafened, else a   *)
(* snapshot of the channels that are not muted is mixed.                   *)
PlaybackEnters ==
  /\ playback_running_ /\ playing = "out" /\ active_
  /\ playing' = "mix"
  /\ channels_to_mix' \in SUBSET buffers
  /\ UNCHANGED <<gui, round, parts, engine, active_, socket, receiver, capturing, held,
                 buffers>>

(* The pointer to a buffer is taken under the lock and used without; a     *)
(* channel that was left since the snapshot has none.                      *)
TakeBuffer(ch) ==
  /\ held = NoChannel /\ ch \in channels_to_mix
  /\ channels_to_mix' = channels_to_mix \ {ch}
  /\ held' = IF ch \in buffers THEN ch ELSE NoChannel
  /\ UNCHANGED <<gui, round, parts, engine, active_, socket, receiver, capturing, playing,
                 buffers>>

PopBuffer ==
  /\ held # NoChannel
  /\ held' = NoChannel
  /\ UNCHANGED <<gui, round, parts, engine, active_, socket, receiver, capturing, playing,
                 channels_to_mix, buffers>>

PlaybackReturns ==
  /\ playing = "mix" /\ held = NoChannel /\ channels_to_mix = {}
  /\ playing' = "out"
  /\ UNCHANGED <<gui, round, parts, engine, active_, socket, receiver, capturing,
                 channels_to_mix, held, buffers>>

(* The receive thread.                                                     *)
Receiver(from, to) ==
  /\ receiver = from
  /\ receiver' = to
  /\ UNCHANGED <<gui, round, parts, engine, active_, socket, capturing, playing,
                 channels_to_mix, held, buffers>>

ReceivePacket == running_ /\ active_ /\ Receiver("loop", "decode")
Decode        == \E to \in {"push", "loop"} : Receiver("decode", to)
PushPacket    == Receiver("push", "loop")
EndReceiver   == ~running_ /\ Receiver("loop", "ended")

----------------------------------------------------------------------------
Failures == {"nothing", "audio", "encoder", "decoder", "socket", "address"}

Window ==
  \/ \E failed \in Failures : Initialize(failed)
  \/ Start \/ SetCallbacks \/ StartCapture \/ StartPlayback \/ UndoCapture \/ Activate
  \/ \E ch \in Channel : JoinChannel(ch) \/ LeaveChannel(ch)
  \/ Exit

Teardown ==
  \/ Stop \/ StopCapture \/ StopPlayback
  \/ Disconnect \/ JoinReceiver \/ CloseSocket
  \/ ShutdownEngine \/ ClearChannels \/ ResetParts

Capture  == CaptureEnters \/ CaptureEncodes \/ CaptureSends
Mix      == (\E ch \in Channel : TakeBuffer(ch)) \/ PopBuffer \/ PlaybackReturns
Playback == PlaybackEnters \/ Mix
Receive  == ReceivePacket \/ Decode \/ PushPacket \/ EndReceiver

Next == Window \/ Teardown \/ Capture \/ Playback \/ Receive

Spec == Init /\ [][Next]_vars

(* The thread of the window goes on with a shutdown it has begun, and the  *)
(* operating system lets a callback and the receive thread go on.          *)
Fairness ==
  /\ WF_vars(Teardown)
  /\ WF_vars(CaptureEncodes \/ CaptureSends)
  /\ WF_vars(Mix)
  /\ WF_vars(Decode \/ PushPacket) /\ WF_vars(EndReceiver)
FairSpec == Spec /\ Fairness

----------------------------------------------------------------------------
(* No thread uses a part that was destroyed, or not made: the capture      *)
(* callback the encoder and then the socket, the receive thread the        *)
(* decoder, and both callbacks run inside the engine.                      *)
NoUseAfterFree ==
  /\ capturing = "encode" => {"audio_engine_", "encoder_"} \subseteq parts
  /\ capturing = "send" => {"audio_engine_", "network_"} \subseteq parts
  /\ playing = "mix" => "audio_engine_" \in parts
  /\ receiver \in {"loop", "decode", "push"} => {"decoder_", "network_"} \subseteq parts

(* A stopped session neither sends nor plays: when stop() is through, both *)
(* streams rest and no callback is in the middle of a frame.               *)
SilentWhenStopped ==
  gui \in {"disconnect", "join", "close", "engine", "clear", "reset", "done"} =>
    ~capture_running_ /\ ~playback_running_ /\ capturing = "out" /\ playing = "out"

(* The callbacks, plain std::functions, are only set while no stream runs  *)
(* that could be calling them, also when a start before failed half way.   *)
CallbacksSetAtRest ==
  gui = "setCallbacks" => ~capture_running_ /\ ~playback_running_

(* At the end nothing is left: threads, streams, PortAudio, and the socket *)
(* but for one whose address was refused, which nothing closes.            *)
EverythingReleased ==
  gui = "done" =>
    /\ receiver = "none" /\ ~initialized_ /\ parts = {} /\ buffers = {}
    /\ socket_ # "open" /\ ~connected_

(* A shutdown that has begun returns: no thread it waits for waits for it. *)
ShutdownReturns == (gui = "stop") ~> (gui = "done")
=============================================================================
