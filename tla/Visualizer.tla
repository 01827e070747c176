----------------------------- MODULE Visualizer -----------------------------
(***************************************************************************)
(* The visualizer (visualizer/src) between the preview encoder and the     *)
(* browsers.  One task per WebSocket client, handle_client, takes          *)
(* set_preview_size requests; they share the two atomics of                *)
(* RuntimePreviewConfig, swapped one after the other, the bounds that      *)
(* stream_info advertises, and a channel of resizes.  The ipc thread,      *)
(* ipc_poll_loop, forwards resizes to the encoder and packets to the       *)
(* clients, from the first keyframe of a session on.                       *)
(***************************************************************************)
EXTENDS PreviewTopics, FiniteSets

CONSTANTS
  Client,
  Request,        \* the <<width, height>> that clients ask for
  MaxLoad         \* bound: the requests so far and the clients there

ASSUME VisualizerAssumption == Request \subseteq Nat \X Nat /\ MaxLoad \in Nat

VARIABLES
  client,                 \* place of each client's task
  want,                   \* the size its task is setting
  changed,                \* its SizeUpdate.changed
  active_width, active_height,
  bounds,                 \* active_preview_width and _height of stream_info
  connected_clients,
  resize_rx,
  viz,                    \* ipc_poll_loop: "starting", "running" or "exited"
  seen_keyframe,
  screen,                 \* the size of the packet broadcast last
  requests,               \* requests so far
  keyed,                  \* history: the group of the keyframe broadcast last, or 0
  forwarded               \* history: the size forwarded last, in a set, or {}

clientTasks == <<client, want, changed>>
previewConfig == <<active_width, active_height, connected_clients>>
gate == <<seen_keyframe, screen, keyed>>
resizes == <<resize_rx, forwarded>>
visualizerVars == <<clientTasks, previewConfig, bounds, resizes, viz, gate, requests>>

DefaultSize == PreviewSize(320, 240)

Asked == {PreviewSize(r[1], r[2]) : r \in Request} \cup {DefaultSize}

ClientPlace == {"away", "serving", "width", "height", "bounds", "forward",
                "leaving.width", "leaving.height", "leaving.bounds"}

Load == requests + Cardinality({c \in Client : client[c] # "away"})

(* A client counts until its task leaves. *)
Counted(c) == client[c] \in {"serving", "width", "height", "bounds", "forward"}

VisualizerInit ==
  /\ resize_rx = <<>> /\ forwarded = {}
  /\ client = [c \in Client |-> "away"]
  /\ want = [c \in Client |-> DefaultSize]
  /\ changed = [c \in Client |-> FALSE]
  /\ active_width = DefaultSize.width /\ active_height = DefaultSize.height
  /\ bounds = DefaultSize
  /\ connected_clients = 0
  /\ viz = "starting" /\ seen_keyframe = FALSE
  /\ screen = DefaultSize
  /\ requests = 0 /\ keyed = 0

-----------------------------------------------------------------------------
(* handle_client *)

untouched == <<topics, viz, gate>>

Goto(c, place) == client' = [client EXCEPT ![c] = place]

(* The task holds no size between two requests. *)
Release(c) ==
  /\ want' = [want EXCEPT ![c] = DefaultSize]
  /\ changed' = [changed EXCEPT ![c] = FALSE]

(* Subscribed, through the handshake and greeted with stream_info (and with  *)
(* cached_configs, which nothing fills); a greeting that fails leaves no     *)
(* trace, for the client is counted after it.                                *)
Connect(c) ==
  /\ viz = "running"
  /\ client[c] = "away" /\ Load < MaxLoad
  /\ Goto(c, "serving")
  /\ connected_clients' = connected_clients + 1
  /\ UNCHANGED <<untouched, want, changed, active_width, active_height, bounds, resizes,
                 requests>>

(* set_preview_size: its arguments are clamped first. *)
AskForSize(c) ==
  /\ client[c] = "serving" /\ Load < MaxLoad
  /\ requests' = requests + 1
  /\ \E r \in Request : want' = [want EXCEPT ![c] = PreviewSize(r[1], r[2])]
  /\ Goto(c, "width")
  /\ UNCHANGED <<untouched, changed, previewConfig, bounds, resizes>>

(* set_requested_size swaps the two atomics one after the other; the reset   *)
(* of the last one out does too, and looks at no changed.                    *)
SwapWidth(c) ==
  /\ client[c] \in {"width", "leaving.width"}
  /\ changed' = [changed EXCEPT ![c] = client[c] = "width" /\ active_width # want[c].width]
  /\ active_width' = want[c].width
  /\ Goto(c, IF client[c] = "width" THEN "height" ELSE "leaving.height")
  /\ UNCHANGED <<untouched, want, active_height, connected_clients, bounds, resizes,
                 requests>>

SwapHeight(c) ==
  /\ client[c] \in {"height", "leaving.height"}
  /\ changed' = [changed EXCEPT ![c] =
                   @ \/ (client[c] = "height" /\ active_height # want[c].height)]
  /\ active_height' = want[c].height
  /\ Goto(c, IF client[c] = "height" THEN "bounds" ELSE "leaving.bounds")
  /\ UNCHANGED <<untouched, want, active_width, connected_clients, bounds, resizes,
                 requests>>

(* The bounds are set under the mutex of stream_info; only a changed size is *)
(* forwarded.                                                                *)
SetBounds(c) ==
  /\ client[c] = "bounds"
  /\ bounds' = want[c]
  /\ IF changed[c] THEN Goto(c, "forward") /\ UNCHANGED <<want, changed>>
                   ELSE Goto(c, "serving") /\ Release(c)
  /\ UNCHANGED <<untouched, previewConfig, resizes, requests>>

(* Mutant: what is forwarded is read from the atomics. *)
ForwardActive(c) ==
  /\ client[c] = "forward"
  /\ resize_rx' = Append(resize_rx, [width |-> active_width, height |-> active_height])
  /\ forwarded' = {want[c]}
  /\ Goto(c, "serving") /\ Release(c)
  /\ UNCHANGED <<untouched, previewConfig, bounds, requests>>

Forward(c) ==
  /\ client[c] = "forward"
  /\ resize_rx' = Append(resize_rx, want[c]) /\ forwarded' = {want[c]}
  /\ Goto(c, "serving") /\ Release(c)
  /\ UNCHANGED <<untouched, previewConfig, bounds, requests>>

(* Mutant: a client that leaves is not counted off unless it is the last. *)
LeaveUncounted(c) ==
  /\ client[c] = "serving"
  /\ connected_clients' = IF connected_clients = 1 THEN 0 ELSE connected_clients
  /\ Goto(c, IF connected_clients = 1 THEN "leaving.width" ELSE "away")
  /\ UNCHANGED <<untouched, want, changed, active_width, active_height, bounds, resizes,
                 requests>>

(* client_disconnected: the last one out goes on to reset_to_default. *)
Leave(c) ==
  /\ client[c] = "serving"
  /\ connected_clients' = IF connected_clients = 0 THEN 0 ELSE connected_clients - 1
  /\ Goto(c, IF connected_clients = 1 THEN "leaving.width" ELSE "away")
  /\ UNCHANGED <<untouched, want, changed, active_width, active_height, bounds, resizes,
                 requests>>

(* The default bounds are advertised; nothing is forwarded to the encoder. *)
ResetBounds(c) ==
  /\ client[c] = "leaving.bounds"
  /\ bounds' = want[c]
  /\ Goto(c, "away") /\ Release(c)
  /\ UNCHANGED <<untouched, previewConfig, resizes, requests>>

TaskStep(c) ==
  SwapWidth(c) \/ SwapHeight(c) \/ SetBounds(c) \/ Forward(c) \/ ResetBounds(c)

-----------------------------------------------------------------------------
(* ipc_poll_loop: a pass looks for Shutdown, forwards resizes, broadcasts     *)
(* packets.  The three share nothing, so their order is left open.           *)

tasksOnly == <<clientTasks, previewConfig, bounds, requests>>

(* IpcPoller::new subscribes: what was published before is not received. *)
Subscribe ==
  /\ viz = "starting"
  /\ viz' = "running" /\ listening' = TRUE
  /\ UNCHANGED <<tasksOnly, sizeRing, packetRing, over, resizes, gate>>

(* A camera with a fixed preview is skipped. *)
ForwardResize ==
  /\ viz = "running" /\ resize_rx # <<>>
  /\ sizeRing' = IF Resizable THEN RingSend(sizeRing, Head(resize_rx), Depth) ELSE sizeRing
  /\ resize_rx' = Tail(resize_rx)
  /\ UNCHANGED <<tasksOnly, packetRing, listening, over, forwarded, viz, gate>>

Take ==
  /\ viz = "running" /\ packetRing # <<>>
  /\ packetRing' = Tail(packetRing)
  /\ UNCHANGED <<tasksOnly, sizeRing, listening, over, resizes, viz>>

(* Mutant: EndOfStream leaves the gate open. *)
TakeEndQuietly ==
  /\ Take
  /\ Head(packetRing).kind = "EndOfStream"
  /\ UNCHANGED gate

(* A session ends: the next packet has to be a keyframe. *)
TakeEndOfStream ==
  /\ Take
  /\ Head(packetRing).kind = "EndOfStream"
  /\ seen_keyframe' = FALSE
  /\ UNCHANGED <<screen, keyed>>

SkipDelta ==
  /\ Take
  /\ Head(packetRing).kind = "Delta" /\ ~seen_keyframe
  /\ UNCHANGED gate

(* Broadcast to the clients that have subscribed. *)
BroadcastPacket ==
  /\ Take
  /\ LET p == Head(packetRing)
     IN  /\ p.kind = "Key" \/ (p.kind = "Delta" /\ seen_keyframe)
         /\ seen_keyframe' = TRUE
         /\ screen' = p.size
         /\ keyed' = IF p.kind = "Key" THEN p.group ELSE keyed

TakePacket == TakeEndOfStream \/ SkipDelta \/ BroadcastPacket

(* poll_shutdown saw Shutdown: the loop sets the flag that wait_for_shutdown *)
(* looks for, and main returns, with every task.                             *)
VisualizerExits ==
  /\ viz = "running" /\ over
  /\ viz' = "exited"
  /\ client' = [c \in Client |-> "away"]
  /\ want' = [c \in Client |-> DefaultSize] /\ changed' = [c \in Client |-> FALSE]
  /\ packetRing' = <<>> /\ listening' = FALSE /\ resize_rx' = <<>>
  /\ UNCHANGED <<sizeRing, over, forwarded, previewConfig, bounds, requests, gate>>
============================================================================
