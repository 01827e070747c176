-------------------------- MODULE RecordingProofs ---------------------------
(***************************************************************************)
(* Proof that the recording encoder implements StreamSpec, for every codec, *)
(* every size of its queues and any number of episodes and frames.         *)
(***************************************************************************)
EXTENDS Recording, SequenceTheorems, TLAPS

Stamp == 0 .. MaxEpisodes

WorkMessage == [type : ControlEventType \cup {"DroppedFrame"}, episode_index : Episode]

PacketType ==
  [kind : {"Packet", "EndOfStream"}, episode : Episode, sequence : Nat, key : BOOLEAN,
   captured : Stamp]

Typed ==
  /\ inbox \in Seq(WorkMessage) /\ workQ \in Seq(WorkMessage)
  /\ frameRing \in Seq(Stamp) /\ frameQ \in Seq(Stamp)
  /\ started \in Stamp /\ (state \in {"Recording", "Pending"} => started # 0)
  /\ session \in Episode \cup {None} /\ pending_episode \in Episode \cup {None}
  /\ next_sequence \in Nat /\ force_keyframe \in BOOLEAN
  /\ packets \in Seq(PacketType)

(* The episodes whose RecordingStart waits in a queue. *)
StartAt(q, i) == i \in DOMAIN q /\ q[i].type = "RecordingStart"
Starts(q) == {q[i].episode_index : i \in {j \in DOMAIN q : StartAt(q, j)}}
Rising(q) ==
  \A i, j \in DOMAIN q :
    (StartAt(q, i) /\ StartAt(q, j) /\ i < j) => q[i].episode_index < q[j].episode_index

(* x is later than everything the worker has begun. *)
Later(x) ==
  /\ pending_episode # None => pending_episode < x
  /\ packets # <<>> => packets[Len(packets)].episode < x

(* The starts that wait, in the worker's queue and then in the ring, are in *)
(* order and later than what the worker has begun.                          *)
Chain ==
  /\ Rising(workQ) /\ Rising(inbox)
  /\ \A x \in Starts(workQ), y \in Starts(inbox) : x < y
  /\ \A x \in Starts(workQ) \cup Starts(inbox) : x < started /\ Later(x)
  /\ Later(started)

(* The session is where its stream is. *)
Aligned ==
  /\ session # None =>
       /\ pending_episode = session
       /\ Promise!MayCarry(session) /\ next_sequence = Promise!NextSequence
       /\ next_sequence = 0 => force_keyframe
  /\ session = None => ~Promise!StreamOpen
  /\ (session = None /\ pending_episode # None /\ ~WorkerGone) => Promise!MayCarry(pending_episode)

Inductive == Typed /\ Chain /\ Aligned

-----------------------------------------------------------------------------
(* Queues. *)

(* The first of a queue is taken. *)
LEMMA TailFacts ==
  ASSUME NEW q \in Seq(WorkMessage), q # <<>>
  PROVE  /\ Tail(q) \in Seq(WorkMessage) /\ Head(q) \in WorkMessage
         /\ Starts(Tail(q)) \subseteq Starts(q)
         /\ Rising(q) => Rising(Tail(q))
         /\ Head(q).type = "RecordingStart" =>
              /\ Head(q).episode_index \in Starts(q)
              /\ Rising(q) => \A x \in Starts(Tail(q)) : Head(q).episode_index < x
<1> HIDE DEF WorkMessage
<1>1. /\ Tail(q) \in Seq(WorkMessage) /\ Head(q) \in WorkMessage /\ Head(q) = q[1]
      /\ 1 \in DOMAIN q
      /\ \A i \in DOMAIN Tail(q) : i + 1 \in DOMAIN q /\ Tail(q)[i] = q[i + 1] /\ i \in Nat \ {0}
  OBVIOUS
<1>2. \A i \in DOMAIN Tail(q) : StartAt(Tail(q), i) => StartAt(q, i + 1)
  BY <1>1 DEF StartAt
<1>3. Starts(Tail(q)) \subseteq Starts(q)
  BY <1>1, <1>2 DEF Starts
<1>4. Rising(q) => Rising(Tail(q))
  <2> SUFFICES ASSUME Rising(q), NEW i \in DOMAIN Tail(q), NEW j \in DOMAIN Tail(q),
                      StartAt(Tail(q), i), StartAt(Tail(q), j), i < j
               PROVE  Tail(q)[i].episode_index < Tail(q)[j].episode_index
    BY DEF Rising
  <2>1. StartAt(q, i + 1) /\ StartAt(q, j + 1) /\ i + 1 < j + 1
    BY <1>1, <1>2
  <2> QED
    BY <1>1, <2>1 DEF Rising
<1>5. ASSUME Head(q).type = "RecordingStart"
      PROVE  /\ Head(q).episode_index \in Starts(q)
             /\ Rising(q) => \A x \in Starts(Tail(q)) : Head(q).episode_index < x
  <2>1. StartAt(q, 1)
    BY <1>1, <1>5 DEF StartAt
  <2>2. Head(q).episode_index \in Starts(q)
    BY <1>1, <2>1 DEF Starts
  <2>3. ASSUME Rising(q), NEW x \in Starts(Tail(q)) PROVE Head(q).episode_index < x
    <3>1. PICK i \in DOMAIN Tail(q) : StartAt(Tail(q), i) /\ x = Tail(q)[i].episode_index
      BY DEF Starts
    <3>2. StartAt(q, i + 1) /\ 1 < i + 1 /\ x = q[i + 1].episode_index
      BY <1>1, <1>2, <3>1
    <3> QED
      BY <1>1, <2>1, <2>3, <3>2 DEF Rising
  <2> QED
    BY <2>2, <2>3
<1> QED
  BY <1>1, <1>3, <1>4, <1>5

(* A message is queued. *)
LEMMA AppendFacts ==
  ASSUME NEW q \in Seq(WorkMessage), NEW m \in WorkMessage
  PROVE  /\ Append(q, m) \in Seq(WorkMessage)
         /\ m.type # "RecordingStart" => Starts(Append(q, m)) \subseteq Starts(q)
         /\ Starts(Append(q, m)) \subseteq Starts(q) \cup {m.episode_index}
         /\ (Rising(q) /\ (m.type = "RecordingStart" => \A x \in Starts(q) : x < m.episode_index))
              => Rising(Append(q, m))
<1> DEFINE r == Append(q, m)
<1>1. /\ r \in Seq(WorkMessage) /\ DOMAIN r = DOMAIN q \cup {Len(q) + 1} /\ r[Len(q) + 1] = m
      /\ \A i \in DOMAIN q : r[i] = q[i] /\ i < Len(q) + 1 /\ i \in Nat
      /\ Len(q) \in Nat
  <2> HIDE DEF WorkMessage
  <2> QED
    OBVIOUS
<1> HIDE DEF r, WorkMessage
<1>2. \A i \in DOMAIN r : StartAt(r, i) => StartAt(q, i) \/ (i = Len(q) + 1 /\ m.type = "RecordingStart")
  BY <1>1 DEF StartAt
<1>3. /\ m.type # "RecordingStart" => Starts(r) \subseteq Starts(q)
      /\ Starts(r) \subseteq Starts(q) \cup {m.episode_index}
  <2> SUFFICES ASSUME NEW x \in Starts(r)
               PROVE  x \in Starts(q) \/ (m.type = "RecordingStart" /\ x = m.episode_index)
    OBVIOUS
  <2>1. PICK i \in DOMAIN r : StartAt(r, i) /\ x = r[i].episode_index
    BY DEF Starts
  <2>2. CASE StartAt(q, i)
    <3>1. i \in DOMAIN q /\ x = q[i].episode_index
      BY <1>1, <2>1, <2>2 DEF StartAt
    <3> QED
      BY <2>2, <3>1 DEF Starts
  <2>3. CASE i = Len(q) + 1 /\ m.type = "RecordingStart"
    BY <1>1, <2>1, <2>3
  <2> QED
    BY <1>2, <2>1, <2>2, <2>3
<1>4. ASSUME Rising(q), m.type = "RecordingStart" => \A x \in Starts(q) : x < m.episode_index
      PROVE  Rising(r)
  <2> SUFFICES ASSUME NEW i \in DOMAIN r, NEW j \in DOMAIN r, StartAt(r, i), StartAt(r, j), i < j
               PROVE  r[i].episode_index < r[j].episode_index
    BY DEF Rising
  <2>1. i \in DOMAIN q /\ StartAt(q, i) /\ r[i] = q[i]
    BY <1>1, <1>2
  <2>2. CASE StartAt(q, j)
    <3>1. j \in DOMAIN q /\ r[j] = q[j]
      BY <1>1, <2>2 DEF StartAt
    <3> QED
      BY <1>4, <2>1, <2>2, <3>1 DEF Rising
  <2>3. CASE j = Len(q) + 1 /\ m.type = "RecordingStart"
    <3>1. q[i].episode_index \in Starts(q)
      BY <2>1 DEF Starts
    <3> QED
      BY <1>1, <1>4, <2>1, <2>3, <3>1
  <2> QED
    BY <1>2, <2>2, <2>3
<1> QED
  BY <1>1, <1>3, <1>4 DEF r

(* A message is published to the encoder's ring, perhaps over the oldest. *)
LEMMA SendFacts ==
  ASSUME NEW q \in Seq(WorkMessage), NEW m \in WorkMessage
  PROVE  /\ Send(q, m) \in Seq(WorkMessage)
         /\ m.type # "RecordingStart" => Starts(Send(q, m)) \subseteq Starts(q)
         /\ Starts(Send(q, m)) \subseteq Starts(q) \cup {m.episode_index}
         /\ (Rising(q) /\ (m.type = "RecordingStart" => \A x \in Starts(q) : x < m.episode_index))
              => Rising(Send(q, m))
<1>1. CASE Len(q) < BufferSize
  BY <1>1, AppendFacts DEF Send
<1>2. CASE ~(Len(q) < BufferSize)
  <2>1. q # <<>>
    BY <1>2, BufferSizeAssumption
  <2>2. Tail(q) \in Seq(WorkMessage) /\ Starts(Tail(q)) \subseteq Starts(q) /\ (Rising(q) => Rising(Tail(q)))
    BY <2>1, TailFacts
  <2>3. Send(q, m) = Append(Tail(q), m)
    BY <1>2 DEF Send
  <2> DEFINE t == Tail(q)
  <2> HIDE DEF t, WorkMessage
  <2>4. /\ Append(t, m) \in Seq(WorkMessage)
        /\ m.type # "RecordingStart" => Starts(Append(t, m)) \subseteq Starts(t)
        /\ Starts(Append(t, m)) \subseteq Starts(t) \cup {m.episode_index}
        /\ (Rising(t) /\ (m.type = "RecordingStart" => \A x \in Starts(t) : x < m.episode_index))
             => Rising(Append(t, m))
    BY <2>2, AppendFacts DEF t
  <2> QED
    BY <2>2, <2>3, <2>4 DEF t
<1> QED
  BY <1>1, <1>2

(* What the main loop queues for the worker without a start. *)
LEMMA OtherMessages ==
  /\ Msg("DroppedFrame", 0) \in WorkMessage /\ Msg("DroppedFrame", 0).type # "RecordingStart"
  /\ Msg("RecordingStop", 0) \in WorkMessage /\ Msg("RecordingStop", 0).type # "RecordingStart"
  /\ Shutdown \in WorkMessage /\ Shutdown.type # "RecordingStart"
BY MaxEpisodesAssumption DEF Msg, Shutdown, WorkMessage, ControlEventType, Episode

(* The requests at the end of an iteration hold no start. *)
LEMMA RequestedFacts ==
  ASSUME NEW q \in Seq(WorkMessage)
  PROVE  /\ q \o Requested \in Seq(WorkMessage)
         /\ Starts(q \o Requested) \subseteq Starts(q)
         /\ Rising(q) => Rising(q \o Requested)
<1> DEFINE a == Msg("RecordingStop", 0)
           b == Shutdown
<1>1. /\ a \in WorkMessage /\ a.type # "RecordingStart"
      /\ b \in WorkMessage /\ b.type # "RecordingStart"
  BY OtherMessages
<1>2. Requested = (IF request_stop THEN <<a>> ELSE <<>>) \o (IF request_shutdown THEN <<b>> ELSE <<>>)
  BY DEF Requested
<1> HIDE DEF a, b, WorkMessage
<1>3. \/ q \o Requested = q
      \/ q \o Requested = Append(q, a)
      \/ q \o Requested = Append(q, b)
      \/ q \o Requested = Append(Append(q, a), b)
  <2>1. q \o <<>> = q /\ q \o <<a>> = Append(q, a) /\ q \o <<b>> = Append(q, b)
    BY <1>1
  <2>2. q \o (<<a>> \o <<b>>) = Append(Append(q, a), b)
    BY <1>1
  <2>3. <<>> \o <<>> = <<>> /\ <<a>> \o <<>> = <<a>> /\ <<>> \o <<b>> = <<b>>
    BY <1>1
  <2>4. CASE request_stop /\ request_shutdown
    BY <1>2, <2>2, <2>4
  <2>5. CASE request_stop /\ ~request_shutdown
    BY <1>2, <2>1, <2>3, <2>5
  <2>6. CASE ~request_stop /\ request_shutdown
    BY <1>2, <2>1, <2>3, <2>6
  <2>7. CASE ~request_stop /\ ~request_shutdown
    BY <1>2, <2>1, <2>3, <2>7
  <2> QED
    BY <2>4, <2>5, <2>6, <2>7
<1>4. \A m \in {a, b} : /\ Append(q, m) \in Seq(WorkMessage)
                        /\ Starts(Append(q, m)) \subseteq Starts(q)
                        /\ Rising(q) => Rising(Append(q, m))
  BY <1>1, AppendFacts
<1>5. /\ Append(Append(q, a), b) \in Seq(WorkMessage)
      /\ Starts(Append(Append(q, a), b)) \subseteq Starts(Append(q, a))
      /\ Rising(Append(q, a)) => Rising(Append(Append(q, a), b))
  <2> DEFINE r == Append(q, a)
  <2>1. r \in Seq(WorkMessage)
    BY <1>4
  <2> HIDE DEF r
  <2>2. /\ Append(r, b) \in Seq(WorkMessage) /\ Starts(Append(r, b)) \subseteq Starts(r)
        /\ Rising(r) => Rising(Append(r, b))
    BY <1>1, <2>1, AppendFacts
  <2> QED
    BY <2>2 DEF r
<1> QED
  BY <1>3, <1>4, <1>5

-----------------------------------------------------------------------------
(* The main loop moves the starts on, in order, and adds none. *)
LEMMA MainChain ==
  ASSUME Typed, Chain, MainStep
  PROVE  /\ inbox' \in Seq(WorkMessage) /\ workQ' \in Seq(WorkMessage)
         /\ frameRing' \in Seq(Stamp) /\ frameQ' \in Seq(Stamp)
         /\ Rising(inbox') /\ Rising(workQ')
         /\ \A x \in Starts(workQ'), y \in Starts(inbox') : x < y
         /\ Starts(workQ') \cup Starts(inbox') \subseteq Starts(workQ) \cup Starts(inbox)
         /\ UNCHANGED workerVars
<1>0. /\ inbox \in Seq(WorkMessage) /\ workQ \in Seq(WorkMessage)
      /\ frameRing \in Seq(Stamp) /\ frameQ \in Seq(Stamp)
      /\ Rising(workQ) /\ Rising(inbox)
      /\ \A x \in Starts(workQ), y \in Starts(inbox) : x < y
  BY DEF Typed, Chain
<1> HIDE DEF WorkMessage, Stamp
<1>1. CASE UNCHANGED <<inbox, workQ, frameRing, frameQ, workerVars>>
  BY <1>0, <1>1
<1>2. CASE inbox # <<>> /\ inbox' = Tail(inbox) /\ UNCHANGED <<workQ, frameRing, frameQ, workerVars>>
  <2>1. inbox' \in Seq(WorkMessage) /\ Starts(inbox') \subseteq Starts(inbox) /\ Rising(inbox')
    BY <1>0, <1>2, TailFacts
  <2> QED
    BY <1>0, <1>2, <2>1
<1>3. CASE OnRecordingStart
  <2>1. /\ inbox # <<>> /\ inbox' = Tail(inbox) /\ Head(inbox).type = "RecordingStart"
        /\ UNCHANGED <<frameRing, frameQ, workerVars>>
    BY <1>3 DEF OnRecordingStart, Controlled, MainExits
  <2>2. CASE UNCHANGED workQ
    BY <1>2, <2>1, <2>2
  <2>3. CASE workQ' = Append(workQ, Head(inbox))
    <3> DEFINE m == Head(inbox)
               x == m.episode_index
    <3>1. /\ inbox' \in Seq(WorkMessage) /\ m \in WorkMessage /\ Rising(inbox')
          /\ Starts(inbox') \subseteq Starts(inbox) /\ x \in Starts(inbox)
          /\ \A y \in Starts(inbox') : x < y
      BY <1>0, <2>1, TailFacts
    <3>2. m.type = "RecordingStart"
      BY <2>1
    <3> HIDE DEF m
    <3>3. /\ workQ' \in Seq(WorkMessage) /\ Starts(workQ') \subseteq Starts(workQ) \cup {x}
          /\ Rising(workQ')
      BY <1>0, <2>3, <3>1, <3>2, AppendFacts DEF m
    <3> QED
      BY <1>0, <2>1, <3>1, <3>3
  <2> QED
    BY <1>3, <2>2, <2>3 DEF OnRecordingStart, MainExits
<1>4. CASE OnFrame
  <2>1. /\ frameRing # <<>> /\ frameRing' = Tail(frameRing) /\ UNCHANGED <<inbox, workerVars>>
        /\ \/ UNCHANGED <<frameQ, workQ>>
           \/ frameQ' = Append(frameQ, Head(frameRing)) /\ UNCHANGED workQ
           \/ workQ' = Append(workQ, Msg("DroppedFrame", 0)) /\ UNCHANGED frameQ
    BY <1>4 DEF OnFrame, MainExits, ForwardFrame
  <2>2. frameRing' \in Seq(Stamp) /\ Append(frameQ, Head(frameRing)) \in Seq(Stamp)
    BY <1>0, <2>1
  <2> DEFINE m == Msg("DroppedFrame", 0)
  <2>3. m \in WorkMessage /\ m.type # "RecordingStart"
    BY OtherMessages
  <2> HIDE DEF m
  <2>4. /\ Append(workQ, m) \in Seq(WorkMessage) /\ Rising(Append(workQ, m))
        /\ Starts(Append(workQ, m)) \subseteq Starts(workQ)
    BY <1>0, <2>3, AppendFacts
  <2> QED
    BY <1>0, <2>1, <2>2, <2>4 DEF m
<1>5. CASE SignalWorker
  <2>1. UNCHANGED <<inbox, frameRing, frameQ, workerVars>> /\ workQ' \in {workQ, workQ \o Requested}
    BY <1>5 DEF SignalWorker, MainExits
  <2>2. /\ workQ' \in Seq(WorkMessage) /\ Starts(workQ') \subseteq Starts(workQ)
        /\ Rising(workQ')
    BY <1>0, <2>1, RequestedFacts
  <2> QED
    BY <1>0, <2>1, <2>2
<1>6. CASE OnWorkerEvent \/ EventsDrained \/ ControlDrained
  BY <1>1, <1>6 DEF OnWorkerEvent, EventsDrained, ControlDrained, AdvanceMain
<1>7. CASE OnRecordingStop \/ OnShutdown \/ OnDecision
  BY <1>2, <1>7 DEF OnRecordingStop, OnShutdown, OnDecision, Controlled
<1> QED
  BY <1>3, <1>4, <1>5, <1>6, <1>7 DEF MainStep

(* The session publishes starts in order. *)
LEMMA SessionChain ==
  ASSUME Typed, Chain, StartRecording \/ StopRecording \/ Decide \/ EndSession
  PROVE  /\ inbox' \in Seq(WorkMessage) /\ started' \in Stamp
         /\ (state' \in {"Recording", "Pending"} => started' # 0)
         /\ Rising(inbox') /\ Starts(inbox') \subseteq Starts(inbox) \cup {started}
         /\ started' # started => started' = started + 1
         /\ started' = started => Starts(inbox') \subseteq Starts(inbox)
         /\ UNCHANGED <<frameRing, encoderVars>>
<1>0. /\ inbox \in Seq(WorkMessage) /\ Rising(inbox) /\ started \in Stamp
      /\ \A x \in Starts(inbox) : x < started
  BY DEF Typed, Chain
<1>1. ASSUME NEW m \in WorkMessage, inbox' = Send(inbox, m),
             m.type = "RecordingStart" => m.episode_index = started
      PROVE  /\ inbox' \in Seq(WorkMessage) /\ Rising(inbox')
             /\ Starts(inbox') \subseteq Starts(inbox) \cup {started}
             /\ m.type # "RecordingStart" => Starts(inbox') \subseteq Starts(inbox)
  <2> HIDE DEF WorkMessage
  <2> QED
    BY <1>0, <1>1, SendFacts
<1>2. CASE StartRecording
  <2> DEFINE m == Msg("RecordingStart", started)
  <2>1. started \in Episode /\ started' = started + 1 /\ started' \in Stamp /\ started' # 0
    BY <1>0, <1>2, MaxEpisodesAssumption DEF StartRecording, Stamp, Episode
  <2>2. m \in WorkMessage /\ m.episode_index = started
    BY <2>1 DEF Msg, WorkMessage, ControlEventType
  <2>3. inbox' = Send(inbox, m) /\ UNCHANGED <<frameRing, encoderVars>>
    BY <1>2 DEF StartRecording, PublishEvent
  <2> HIDE DEF m
  <2>4. started' # started
    BY <2>1 DEF Episode
  <2> QED
    BY <1>1, <2>1, <2>2, <2>3, <2>4
<1>3. ASSUME NEW t \in {"RecordingStop", "EpisodeKeep", "Shutdown"}, NEW e \in Episode,
             PublishEvent(t, e), UNCHANGED started,
             state' \in {"Recording", "Pending"} => started # 0
      PROVE  /\ inbox' \in Seq(WorkMessage) /\ started' \in Stamp
             /\ (state' \in {"Recording", "Pending"} => started' # 0)
             /\ Rising(inbox') /\ Starts(inbox') \subseteq Starts(inbox)
             /\ UNCHANGED <<frameRing, encoderVars>>
  <2> DEFINE m == Msg(t, e)
  <2>1. m \in WorkMessage /\ m.type # "RecordingStart"
    BY DEF Msg, WorkMessage, ControlEventType
  <2>2. inbox' = Send(inbox, m) /\ UNCHANGED <<frameRing, encoderVars>>
    BY <1>3 DEF PublishEvent
  <2> HIDE DEF m
  <2> QED
    BY <1>0, <1>1, <1>3, <2>1, <2>2
<1>4. CASE StopRecording \/ Decide
  <2>1. started # 0 /\ UNCHANGED started
    BY <1>4 DEF StopRecording, Decide, Typed
  <2>2. started - 1 \in Episode
    BY <1>0, <2>1, MaxEpisodesAssumption DEF Stamp, Episode
  <2> QED
    BY <1>3, <1>4, <2>1, <2>2 DEF StopRecording, Decide
<1>5. CASE EndSession
  <2>1. 0 \in Episode
    BY MaxEpisodesAssumption DEF Episode
  <2> QED
    BY <1>3, <1>5, <2>1 DEF EndSession
<1> QED
  BY <1>2, <1>4, <1>5

-----------------------------------------------------------------------------
(* The stream. *)

(* Where the topic stands after one more packet. *)
LEMMA TopicGrows ==
  ASSUME Typed, NEW p \in PacketType, packets' = Append(packets, p)
  PROVE  /\ packets' \in Seq(PacketType) /\ packets' # <<>>
         /\ packets'[Len(packets')] = p
         /\ Promise!StreamOpen' <=> p.kind = "Packet"
         /\ Promise!NextSequence' = IF p.kind = "Packet" THEN p.sequence + 1 ELSE 0
         /\ \A e : Promise!MayCarry(e)' <=>
                     IF p.kind = "Packet" THEN e = p.episode ELSE e > p.episode
<1>1. /\ packets' \in Seq(PacketType) /\ packets' # <<>>
      /\ packets'[Len(packets')] = p
  <2>1. packets \in Seq(PacketType)
    BY DEF Typed
  <2> HIDE DEF PacketType
  <2> QED
    BY <2>1, AppendProperties
<1>2. Promise!Last' = p
  BY <1>1 DEF Promise!Last
<1>3. Promise!StreamOpen' <=> p.kind = "Packet"
  BY <1>1, <1>2 DEF Promise!StreamOpen
<1>4. Promise!NextSequence' = IF p.kind = "Packet" THEN p.sequence + 1 ELSE 0
  BY <1>2, <1>3 DEF Promise!NextSequence
<1>5. ASSUME NEW e
      PROVE  Promise!MayCarry(e)' <=> IF p.kind = "Packet" THEN e = p.episode ELSE e > p.episode
  BY <1>1, <1>2, <1>3 DEF Promise!MayCarry
<1> QED
  BY <1>1, <1>3, <1>4, <1>5

(* Finishing a session closes its stream. *)
LEMMA SessionFinished ==
  ASSUME Typed, Chain, Aligned, FinishSession
  PROVE  /\ packets' \in Seq(PacketType) /\ ~Promise!StreamOpen'
         /\ packets' = packets \/ Promise!Next
         /\ packets' # packets => /\ session # None /\ pending_episode = session
                                  /\ packets'[Len(packets')].episode = session
<1>1. CASE session = None
  <2>1. packets' = packets /\ ~Promise!StreamOpen
    BY <1>1 DEF FinishSession, Aligned
  <2> QED
    BY <2>1 DEF Typed, Promise!StreamOpen, Promise!Last
<1>2. CASE session # None
  <2> DEFINE p == PacketOf("EndOfStream", session, next_sequence, FALSE, 0)
  <2>1. packets' = Append(packets, p)
    BY <1>2 DEF FinishSession
  <2>2. session \in Episode /\ next_sequence \in Nat /\ 0 \in Stamp
    BY <1>2, MaxEpisodesAssumption DEF Typed, Stamp
  <2>3. /\ p \in PacketType /\ p.kind = "EndOfStream" /\ p.episode = session
        /\ p = [kind |-> "EndOfStream", episode |-> session, sequence |-> next_sequence,
                key |-> FALSE, captured |-> 0]
    BY <2>2 DEF PacketOf, PacketType
  <2> HIDE DEF p
  <2>4. /\ packets' \in Seq(PacketType) /\ ~Promise!StreamOpen'
        /\ packets'[Len(packets')].episode = session
    BY <2>1, <2>3, TopicGrows
  <2>5. pending_episode = session /\ Promise!MayCarry(session) /\ next_sequence = Promise!NextSequence
    BY <1>2 DEF Aligned
  <2>6. Promise!Next
    <3>1. packets' = Append(packets, [kind |-> "EndOfStream", episode |-> session,
                                      sequence |-> Promise!NextSequence, key |-> FALSE, captured |-> 0])
      BY <2>1, <2>3, <2>5
    <3> QED
      BY <2>2, <2>5, <3>1 DEF Promise!Next, Stamp
  <2> QED
    BY <1>2, <2>4, <2>5, <2>6
<1> QED
  BY <1>1, <1>2

(* Encoding a frame goes on with the stream of its session, or opens it. *)
LEMMA FrameEncoded ==
  ASSUME Typed, NEW frame \in Stamp, NEW e \in Episode, NEW n \in Nat, NEW forced \in BOOLEAN,
         Promise!MayCarry(e), n = Promise!NextSequence, n = 0 => forced,
         Encode(frame, e, n, forced)
  PROVE  /\ packets' \in Seq(PacketType) /\ next_sequence' \in Nat /\ force_keyframe' \in BOOLEAN
         /\ packets' = packets \/ Promise!Next
         /\ packets' # packets => packets'[Len(packets')].episode = e
         /\ (Promise!MayCarry(e))' /\ next_sequence' = Promise!NextSequence'
         /\ next_sequence' = 0 => force_keyframe'
<1>1. CASE TooOld(frame, e)
  <2>1. next_sequence' = n /\ force_keyframe' = forced /\ packets' = packets
    BY <1>1 DEF Encode
  <2>2. (Promise!MayCarry(e))' /\ Promise!NextSequence' = Promise!NextSequence
    BY <2>1 DEF Promise!MayCarry, Promise!NextSequence, Promise!StreamOpen, Promise!Last
  <2> QED
    BY <2>1, <2>2 DEF Typed
<1>2. CASE ~TooOld(frame, e)
  <2>1. PICK key \in KeyChoice(forced) :
          /\ packets' = Append(packets, PacketOf("Packet", e, n, key, frame))
          /\ next_sequence' = n + 1 /\ force_keyframe' = FALSE
    BY <1>2 DEF Encode
  <2>2. key \in BOOLEAN /\ (Codec = "libav" /\ forced => key = TRUE)
    BY CodecAssumption DEF KeyChoice, LibavKeys, RvlKeys, PassthroughKeys
  <2> DEFINE p == PacketOf("Packet", e, n, key, frame)
  <2>3. /\ p \in PacketType /\ p.kind = "Packet" /\ p.episode = e /\ p.sequence = n
        /\ p = [kind |-> "Packet", episode |-> e, sequence |-> n, key |-> key, captured |-> frame]
    BY <2>2 DEF PacketOf, PacketType
  <2> HIDE DEF p
  <2>4. packets' = Append(packets, p)
    BY <2>1 DEF p
  <2>5. /\ packets' \in Seq(PacketType) /\ packets'[Len(packets')].episode = e
        /\ (Promise!MayCarry(e))' /\ Promise!NextSequence' = n + 1
    BY <2>3, <2>4, TopicGrows
  <2>6. Codec = "libav" => frame > e
    BY <1>2 DEF TooOld, Stamp, Episode
  <2>7. Promise!Next
    <3>1. packets' = Append(packets, [kind |-> "Packet", episode |-> e,
                                      sequence |-> Promise!NextSequence, key |-> key, captured |-> frame])
      BY <2>3, <2>4
    <3>2. Codec = "libav" => Promise!Belongs(e, frame) /\ (Promise!NextSequence = 0 => key)
      BY <2>2, <2>6 DEF Promise!Belongs
    <3> QED
      BY <2>2, <3>1, <3>2 DEF Promise!Next, Stamp
  <2>8. next_sequence' \in Nat /\ next_sequence' # 0
    BY <2>1
  <2>9. force_keyframe' \in BOOLEAN
    BY <2>1
  <2> QED
    BY <2>1, <2>5, <2>7, <2>8, <2>9
<1> QED
  BY <1>1, <1>2

-----------------------------------------------------------------------------
(* The worker. *)

Fields == <<session, pending_episode, next_sequence, force_keyframe, packets>>

(* The stream's place depends on the packets alone. *)
LEMMA PlaceStays ==
  ASSUME UNCHANGED packets
  PROVE  /\ Promise!StreamOpen' <=> Promise!StreamOpen
         /\ Promise!NextSequence' = Promise!NextSequence
         /\ \A e : (Promise!MayCarry(e))' <=> Promise!MayCarry(e)
BY DEF Promise!MayCarry, Promise!NextSequence, Promise!StreamOpen, Promise!Last

(* A step that touches neither the session nor the topic keeps the session  *)
(* aligned.                                                                 *)
LEMMA AlignedStays ==
  ASSUME Aligned, UNCHANGED Fields, WorkerGone => WorkerGone'
  PROVE  Aligned'
<1>1. UNCHANGED <<session, pending_episode, next_sequence, force_keyframe, packets>>
  BY DEF Fields
<1> QED
  BY <1>1, PlaceStays DEF Aligned

(* What is later than all the worker has begun stays so while the worker    *)
(* goes on with it.                                                         *)
LEMMA LaterStays ==
  ASSUME NEW x, Later(x), pending_episode' \in {pending_episode, None},
         packets' # packets =>
           pending_episode # None /\ packets'[Len(packets')].episode = pending_episode
  PROVE  (Later(x))'
BY DEF Later

(* The starts that wait stay in order when the worker takes a message. *)
LEMMA ChainStays ==
  ASSUME Typed, Chain, UNCHANGED <<inbox, started>>,
         workQ' = workQ \/ (workQ # <<>> /\ workQ' = Tail(workQ)),
         \A x \in Starts(workQ') \cup Starts(inbox) \cup {started} : Later(x) => (Later(x))'
  PROVE  Chain' /\ workQ' \in Seq(WorkMessage)
<1>1. workQ \in Seq(WorkMessage)
  BY DEF Typed
<1>2. workQ' \in Seq(WorkMessage) /\ Starts(workQ') \subseteq Starts(workQ) /\ Rising(workQ')
  <2> HIDE DEF WorkMessage
  <2> QED
    BY <1>1, TailFacts DEF Chain
<1>3. Later(started)' /\ \A x \in Starts(workQ') \cup Starts(inbox) : x < started /\ (Later(x))'
  <2>1. (Later(started))' <=> \A y \in {started} : (Later(y))'
    BY DEF Later
  <2> QED
    BY <1>2, <2>1 DEF Chain
<1>4. \A x \in Starts(workQ'), y \in Starts(inbox') : x < y
  BY <1>2 DEF Chain
<1> QED
  BY <1>2, <1>3, <1>4 DEF Chain, Later

(* RecordingStart: the session before is finished, the next one waits for a *)
(* frame.                                                                   *)
LEMMA StartSound ==
  ASSUME Inductive, WorkerStart, UNCHANGED sessionState
  PROVE  Inductive' /\ (packets' = packets \/ Promise!Next)
<1>0. Typed /\ Chain /\ Aligned /\ FinishSession
  BY DEF Inductive, WorkerStart
<1>1. /\ workQ # <<>> /\ workQ' = Tail(workQ) /\ Head(workQ).type = "RecordingStart"
      /\ session' = None /\ pending_episode' = Head(workQ).episode_index
      /\ UNCHANGED <<inbox, frameRing, frameQ, next_sequence, force_keyframe, state, started>>
  BY DEF WorkerStart, TakeControl, sessionState
<1> DEFINE h == Head(workQ).episode_index
<1>2. /\ h \in Starts(workQ) /\ (\A x \in Starts(workQ') : h < x) /\ h \in Episode
      /\ \A x \in Starts(workQ') : x \in Starts(workQ)
  <2>1. workQ \in Seq(WorkMessage)
    BY <1>0 DEF Typed
  <2>2. Head(workQ) \in WorkMessage /\ h \in Starts(workQ) /\ \A x \in Starts(workQ') : h < x /\ x \in Starts(workQ)
    <3> HIDE DEF WorkMessage
    <3> QED
      BY <1>0, <1>1, <2>1, TailFacts DEF Chain
  <2> QED
    BY <2>2 DEF WorkMessage
<1>3. /\ packets' \in Seq(PacketType) /\ ~Promise!StreamOpen' /\ (packets' = packets \/ Promise!Next)
      /\ packets' # packets => /\ session # None /\ pending_episode = session
                               /\ packets'[Len(packets')].episode = session
  BY <1>0, SessionFinished
<1>4. h < started /\ (\A x \in Starts(inbox) : h < x) /\ Later(h)
  BY <1>0, <1>2 DEF Chain
<1>5. \A x : Later(x) => (packets' # <<>> => packets'[Len(packets')].episode < x)
  BY <1>3 DEF Later
<1>6. \A x \in Starts(workQ') \cup Starts(inbox) \cup {started} : Later(x) => (Later(x))'
  <2> SUFFICES ASSUME NEW x \in Starts(workQ') \cup Starts(inbox) \cup {started}, Later(x)
               PROVE  (Later(x))'
    OBVIOUS
  <2>1. h < x
    BY <1>2, <1>4
  <2> QED
    BY <1>1, <1>5, <2>1 DEF Later
<1>7. Chain' /\ workQ' \in Seq(WorkMessage)
  BY <1>0, <1>1, <1>6, ChainStays
<1>8. packets' # <<>> => packets'[Len(packets')].episode < h
  BY <1>4, <1>5
<1>9. Typed'
  BY <1>0, <1>1, <1>2, <1>3, <1>7 DEF Typed
<1>10. Aligned'
  <2>1. packets' # <<>> => pending_episode' > packets'[Len(packets')].episode
    <3>1. packets' # <<>> => packets'[Len(packets')].episode \in Nat
      <4>1. packets' # <<>> => packets'[Len(packets')] \in PacketType
        <5> HIDE DEF PacketType
        <5> QED
          BY <1>3
      <4> QED
        BY <4>1 DEF PacketType, Episode
    <3> QED
      BY <1>1, <1>2, <1>8, <3>1 DEF Episode
  <2>2. Promise!MayCarry(pending_episode)'
    BY <1>3, <2>1 DEF Promise!MayCarry, Promise!Last
  <2> QED
    BY <1>1, <1>3, <2>2 DEF Aligned
<1> QED
  BY <1>3, <1>7, <1>9, <1>10 DEF Inductive

(* Shutdown, or a stop once the frames are through: the session is          *)
(* finished.                                                                *)
LEMMA EndSound ==
  ASSUME Inductive, FinishSession, session' = None, UNCHANGED <<inbox, frameRing, frameQ>>,
         UNCHANGED sessionState, UNCHANGED <<next_sequence, force_keyframe>>,
         workQ' = workQ \/ (workQ # <<>> /\ workQ' = Tail(workQ)),
         \/ pending_episode' = pending_episode /\ WorkerGone'
         \/ pending_episode' = None
  PROVE  Inductive' /\ (packets' = packets \/ Promise!Next)
<1>0. Typed /\ Chain /\ Aligned /\ UNCHANGED <<state, started>>
  BY DEF Inductive, sessionState
<1>1. /\ packets' \in Seq(PacketType) /\ ~Promise!StreamOpen' /\ (packets' = packets \/ Promise!Next)
      /\ packets' # packets => /\ session # None /\ pending_episode = session
                               /\ packets'[Len(packets')].episode = session
  BY <1>0, SessionFinished
<1>2. \A x : Later(x) => (Later(x))'
  BY <1>1, LaterStays
<1>3. Chain' /\ workQ' \in Seq(WorkMessage)
  BY <1>0, <1>2, ChainStays
<1>4. Typed'
  BY <1>0, <1>1, <1>3 DEF Typed
<1>5. Aligned'
  BY <1>1 DEF Aligned
<1> QED
  BY <1>1, <1>3, <1>4, <1>5 DEF Inductive

(* A frame is encoded by the open session, opens the one that waits, or is  *)
(* dropped.                                                                 *)
LEMMA FrameSound ==
  ASSUME Inductive, WorkerFrame, UNCHANGED sessionState
  PROVE  Inductive' /\ (packets' = packets \/ Promise!Next)
<1> DEFINE frame == Head(frameQ)
<1>0. Typed /\ Chain /\ Aligned
  BY DEF Inductive
<1>1. /\ HandleFrame(frame) /\ frameQ # <<>> /\ frameQ' = Tail(frameQ) /\ ~WorkerGone
      /\ UNCHANGED <<inbox, frameRing, workQ, state, started, pending_episode>>
      /\ session' = FrameOwner
  BY DEF WorkerFrame, HandleFrame, WorkerGone, sessionState
<1>2. frame \in Stamp /\ frameQ' \in Seq(Stamp)
  <2>1. frameQ \in Seq(Stamp)
    BY <1>0 DEF Typed
  <2> HIDE DEF Stamp
  <2> QED
    BY <1>1, <2>1
<1> HIDE DEF frame
<1>3. ASSUME NEW e \in Episode, e # None, pending_episode = e, session' = e,
             NEW n \in Nat, NEW forced \in BOOLEAN,
             Promise!MayCarry(e), n = Promise!NextSequence, n = 0 => forced,
             Encode(frame, e, n, forced)
      PROVE  Inductive' /\ (packets' = packets \/ Promise!Next)
  <2>1. /\ packets' \in Seq(PacketType) /\ next_sequence' \in Nat /\ force_keyframe' \in BOOLEAN
        /\ packets' = packets \/ Promise!Next
        /\ packets' # packets => packets'[Len(packets')].episode = e
        /\ (Promise!MayCarry(e))' /\ next_sequence' = Promise!NextSequence'
        /\ next_sequence' = 0 => force_keyframe'
    BY <1>0, <1>2, <1>3, FrameEncoded
  <2>2. \A x : Later(x) => (Later(x))'
    BY <1>1, <1>3, <2>1, LaterStays
  <2>3. Chain' /\ workQ' \in Seq(WorkMessage)
    BY <1>0, <1>1, <2>2, ChainStays
  <2>4. Typed'
    BY <1>0, <1>1, <1>2, <1>3, <2>1, <2>3 DEF Typed
  <2>5. Promise!MayCarry(session)'
    BY <1>3, <2>1 DEF Promise!MayCarry
  <2>6. Aligned'
    BY <1>1, <1>3, <2>1, <2>5 DEF Aligned
  <2> QED
    BY <2>1, <2>3, <2>4, <2>6 DEF Inductive
<1>4. CASE FrameOwner = None
  <2>1. UNCHANGED Fields
    <3>1. session = None
      BY <1>0, <1>4 DEF FrameOwner
    <3> QED
      BY <1>1, <1>4, <3>1 DEF HandleFrame, Fields
  <2>2. Aligned'
    BY <1>0, <1>1, <2>1, AlignedStays
  <2>3. \A x : Later(x) => (Later(x))'
    BY <2>1 DEF Fields, Later
  <2>4. Chain' /\ workQ' \in Seq(WorkMessage)
    BY <1>0, <1>1, <2>3, ChainStays
  <2>5. Typed'
    BY <1>0, <1>1, <1>2, <2>1, <2>4 DEF Typed, Fields
  <2> QED
    BY <2>1, <2>2, <2>4, <2>5 DEF Inductive, Fields
<1>5. CASE FrameOwner # None /\ session = None
  <2>1. pending_episode # None /\ session' = pending_episode /\ pending_episode \in Episode
    BY <1>0, <1>1, <1>5 DEF FrameOwner, Typed
  <2>2. Encode(frame, pending_episode, 0, TRUE)
    BY <1>1, <1>5, <2>1 DEF HandleFrame, FrameOwner
  <2>3. Promise!MayCarry(pending_episode) /\ Promise!NextSequence = 0
    BY <1>0, <1>1, <1>5, <2>1 DEF Aligned, Promise!NextSequence
  <2> QED
    BY <1>3, <2>1, <2>2, <2>3
<1>6. CASE session # None
  <2>1. /\ session \in Episode /\ session' = session /\ next_sequence \in Nat
        /\ force_keyframe \in BOOLEAN
    BY <1>0, <1>1, <1>6 DEF FrameOwner, Typed
  <2>2. Encode(frame, session, next_sequence, force_keyframe)
    BY <1>1, <1>6 DEF HandleFrame, FrameOwner
  <2>3. /\ pending_episode = session /\ Promise!MayCarry(session)
        /\ next_sequence = Promise!NextSequence /\ (next_sequence = 0 => force_keyframe)
    BY <1>0, <1>6 DEF Aligned
  <2> QED
    BY <1>3, <1>6, <2>1, <2>2, <2>3
<1> QED
  BY <1>4, <1>5, <1>6

(* The other steps of the worker, its failures among them, leave the        *)
(* session and the topic as they are.                                       *)
LEMMA QuietSound ==
  ASSUME Inductive, UNCHANGED <<Fields, inbox, frameRing>>, UNCHANGED sessionState,
         workQ' = workQ \/ (workQ # <<>> /\ workQ' = Tail(workQ)),
         frameQ' = frameQ \/ (frameQ # <<>> /\ frameQ' = Tail(frameQ)),
         WorkerGone => WorkerGone'
  PROVE  Inductive' /\ UNCHANGED packets
<1>0. Typed /\ Chain /\ Aligned /\ UNCHANGED <<inbox, frameRing, state, started>> /\ UNCHANGED Fields
  BY DEF Inductive, sessionState
<1>1. Aligned'
  BY <1>0, AlignedStays
<1>2. \A x : Later(x) => (Later(x))'
  BY <1>0 DEF Fields, Later
<1>3. Chain' /\ workQ' \in Seq(WorkMessage)
  BY <1>0, <1>2, ChainStays
<1>4. frameQ' \in Seq(Stamp)
  <2>1. frameQ \in Seq(Stamp)
    BY <1>0 DEF Typed
  <2> HIDE DEF Stamp
  <2> QED
    BY <2>1
<1>5. Typed'
  BY <1>0, <1>3, <1>4 DEF Typed, Fields
<1> QED
  BY <1>0, <1>1, <1>3, <1>5 DEF Inductive, Fields

(* Every step of the encoder's worker thread. *)
LEMMA WorkerSound ==
  ASSUME Inductive, WorkerStep \/ EncodeFails \/ FinishFails, UNCHANGED sessionState
  PROVE  Inductive' /\ (packets' = packets \/ Promise!Next)
<1>1. CASE WorkerStart
  BY <1>1, StartSound
<1>2. CASE WorkerFrame
  BY <1>2, FrameSound
<1>3. CASE WorkerShutdown
  <2>1. /\ FinishSession /\ session' = None /\ WorkerGone' /\ pending_episode' = pending_episode
        /\ UNCHANGED <<inbox, frameRing, frameQ, next_sequence, force_keyframe>>
        /\ workQ # <<>> /\ workQ' = Tail(workQ)
    BY <1>3 DEF WorkerShutdown, TakeControl, WorkerGone
  <2> QED
    BY <2>1, EndSound
<1>4. CASE WorkerTimeout /\ stop_after_drain
  <2>1. /\ FinishSession /\ session' = None /\ pending_episode' = None
        /\ UNCHANGED <<inbox, frameRing, frameQ, next_sequence, force_keyframe, workQ>>
    BY <1>4 DEF WorkerTimeout
  <2> QED
    BY <2>1, EndSound
<1>5. CASE WorkerTimeout /\ ~stop_after_drain
  <2>1. UNCHANGED <<Fields, inbox, frameRing, frameQ, workQ>> /\ ~WorkerGone
    BY <1>5 DEF WorkerTimeout, Fields, WorkerGone
  <2> QED
    BY <2>1, QuietSound
<1>6. CASE WorkerStop \/ WorkerDropped
  <2>1. /\ UNCHANGED <<Fields, inbox, frameRing, frameQ>> /\ ~WorkerGone
        /\ workQ # <<>> /\ workQ' = Tail(workQ)
    BY <1>6 DEF WorkerStop, WorkerDropped, TakeControl, Fields, WorkerGone, workerVars, sessionVars
  <2> QED
    BY <2>1, QuietSound
<1>7. CASE WorkerControlDrained \/ WorkerFramesDrained
  <2>1. UNCHANGED <<Fields, inbox, frameRing, frameQ, workQ>> /\ ~WorkerGone
    BY <1>7 DEF WorkerControlDrained, WorkerFramesDrained, Fields, WorkerGone, sessionVars
  <2> QED
    BY <2>1, QuietSound
<1>8. CASE EncodeFails \/ FinishFails
  <2>1. /\ UNCHANGED <<Fields, inbox, frameRing, workQ>> /\ ~WorkerGone
        /\ frameQ' = frameQ \/ (frameQ # <<>> /\ frameQ' = Tail(frameQ))
    BY <1>8 DEF EncodeFails, FinishFails, Fields, WorkerGone, sessionVars
  <2> QED
    BY <2>1, QuietSound
<1> QED
  BY <1>1, <1>2, <1>3, <1>4, <1>5, <1>6, <1>7, <1>8 DEF WorkerStep

-----------------------------------------------------------------------------
(* The whole path. *)

(* A step outside the worker publishes no packet, and what it queues for    *)
(* the worker is later than what the worker has begun.                      *)
LEMMA OutsideSound ==
  ASSUME Inductive,
         \/ StartRecording \/ StopRecording \/ Decide \/ EndSession
         \/ Capture \/ EncoderMain \/ UNCHANGED vars
  PROVE  Inductive' /\ UNCHANGED packets
<1>0. Typed /\ Chain /\ Aligned
  BY DEF Inductive
<1>1. UNCHANGED <<workerVars>>
  BY <1>0, MainChain DEF StartRecording, StopRecording, Decide, EndSession, PublishEvent, Capture,
     EncoderMain, vars, encoderVars
<1>2. UNCHANGED Fields /\ (WorkerGone <=> WorkerGone')
  BY <1>1 DEF workerVars, sessionVars, Fields, WorkerGone
<1>3. Aligned'
  BY <1>0, <1>2, AlignedStays
<1>4. \A x : Later(x) <=> (Later(x))'
  BY <1>2 DEF Fields, Later
<1>5. CASE EncoderMain
  <2>1. MainStep /\ UNCHANGED <<state, started>>
    BY <1>5 DEF EncoderMain, sessionState
  <2>2. /\ inbox' \in Seq(WorkMessage) /\ workQ' \in Seq(WorkMessage)
        /\ frameRing' \in Seq(Stamp) /\ frameQ' \in Seq(Stamp)
        /\ Rising(inbox') /\ Rising(workQ')
        /\ \A x \in Starts(workQ'), y \in Starts(inbox') : x < y
        /\ Starts(workQ') \cup Starts(inbox') \subseteq Starts(workQ) \cup Starts(inbox)
    BY <1>0, <2>1, MainChain
  <2>3. Typed'
    BY <1>0, <1>2, <2>1, <2>2 DEF Typed, Fields
  <2>4. /\ \A x \in Starts(workQ') \cup Starts(inbox') : x < started' /\ (Later(x))'
        /\ \A x \in {started} : (Later(x))'
    BY <1>0, <1>4, <2>1, <2>2 DEF Chain
  <2>5. Chain'
    BY <2>1, <2>2, <2>4 DEF Chain, Later
  <2> QED
    BY <1>2, <1>3, <2>3, <2>5 DEF Inductive, Fields
<1>6. CASE StartRecording \/ StopRecording \/ Decide \/ EndSession
  <2>1. /\ inbox' \in Seq(WorkMessage) /\ started' \in Stamp
        /\ (state' \in {"Recording", "Pending"} => started' # 0)
        /\ Rising(inbox') /\ Starts(inbox') \subseteq Starts(inbox) \cup {started}
        /\ started' # started => started' = started + 1
        /\ started' = started => Starts(inbox') \subseteq Starts(inbox)
        /\ UNCHANGED <<frameRing, encoderVars>>
    BY <1>0, <1>6, SessionChain
  <2>2. UNCHANGED <<frameRing, frameQ, workQ>>
    BY <2>1 DEF encoderVars
  <2>3. Typed'
    BY <1>0, <1>2, <2>1, <2>2 DEF Typed, Fields
  <2>4. started \in Nat
    BY <1>0, MaxEpisodesAssumption DEF Typed, Stamp
  <2>5. /\ \A x \in Starts(workQ) : x \in Nat /\ x < started
        /\ \A x \in Starts(inbox) : x \in Nat /\ x < started
    <3>1. \A q \in {workQ, inbox} : \A x \in Starts(q) : x \in Nat
      <4> SUFFICES ASSUME NEW q \in Seq(WorkMessage), NEW x \in Starts(q) PROVE x \in Nat
        BY <1>0 DEF Typed
      <4>1. PICK i \in DOMAIN q : x = q[i].episode_index
        BY DEF Starts
      <4>2. q[i] \in WorkMessage
        <5> HIDE DEF WorkMessage
        <5> QED
          BY <4>1
      <4> QED
        BY <4>1, <4>2 DEF WorkMessage, Episode
    <3> QED
      BY <1>0, <3>1 DEF Chain
  <2>6. \A x \in Starts(inbox') : x \in Starts(inbox) \/ (x = started /\ started' = started + 1)
    BY <2>1
  <2>7. started' = started \/ started' = started + 1
    BY <2>1
  <2>8. /\ \A x \in Starts(workQ') \cup Starts(inbox') : x < started' /\ Later(x)
        /\ \A x \in Starts(workQ'), y \in Starts(inbox') : x < y
    <3>1. \A x \in Starts(workQ) \cup Starts(inbox) \cup {started} : Later(x)
      BY <1>0 DEF Chain
    <3>2. \A x \in Starts(workQ), y \in Starts(inbox) : x < y
      BY <1>0 DEF Chain
    <3> QED
      BY <2>2, <2>4, <2>5, <2>6, <2>7, <3>1, <3>2
  <2>9. \A x \in {started'} : Later(x)
    <3>1. Later(started) /\ started \in Nat
      BY <1>0, <2>4 DEF Chain
    <3>2. pending_episode # None => pending_episode \in Nat
      BY <1>0 DEF Typed, Episode
    <3>3. packets # <<>> => packets[Len(packets)].episode \in Nat
      <4>1. packets # <<>> => packets[Len(packets)] \in PacketType
        <5> HIDE DEF PacketType
        <5> QED
          BY <1>0 DEF Typed
      <4> QED
        BY <4>1 DEF PacketType, Episode
    <3> QED
      BY <2>7, <3>1, <3>2, <3>3 DEF Later
  <2>10. Chain'
    <3>1. (Later(started))'
      BY <1>4, <2>9, <1>2 DEF Later, Fields
    <3>2. Rising(workQ)'
      BY <1>0, <2>2 DEF Chain
    <3>3. \A x \in Starts(workQ') \cup Starts(inbox') : x < started' /\ (Later(x))'
      BY <1>4, <2>8
    <3> QED
      BY <2>1, <2>8, <3>1, <3>2, <3>3 DEF Chain, Later
  <2> QED
    BY <1>2, <1>3, <2>3, <2>10 DEF Inductive, Fields
<1>7. CASE Capture \/ UNCHANGED vars
  <2>1. UNCHANGED <<inbox, workQ, frameQ, state, started>>
    BY <1>7 DEF Capture, vars, encoderVars, sessionState
  <2>2. frameRing' \in Seq(Stamp)
    <3>1. frameRing \in Seq(Stamp) /\ started \in Stamp
      BY <1>0 DEF Typed
    <3>2. CASE UNCHANGED vars
      BY <3>1, <3>2 DEF vars
    <3>3. CASE Capture
      <4> HIDE DEF Stamp
      <4>1. frameRing' = Append(frameRing, started)
              \/ (frameRing # <<>> /\ frameRing' = Append(Tail(frameRing), started))
        BY <3>1, <3>3, FrameAssumption DEF Capture
      <4> QED
        BY <3>1, <4>1
    <3> QED
      BY <1>7, <3>2, <3>3
  <2>3. Typed'
    BY <1>0, <1>2, <2>1, <2>2 DEF Typed, Fields
  <2>4. Chain'
    BY <1>0, <1>2, <2>1 DEF Chain, Later, Fields
  <2> QED
    BY <1>2, <1>3, <2>3, <2>4 DEF Inductive, Fields
<1> QED
  BY <1>5, <1>6, <1>7

(* The invariant is inductive, and every step keeps the promise. *)
LEMMA NextSound ==
  ASSUME Inductive, [Next]_vars
  PROVE  Inductive' /\ [Promise!Next]_packets
<1>1. CASE EncoderWorker \/ EncoderFault
  BY <1>1, WorkerSound DEF EncoderWorker, EncoderFault
<1>2. CASE StartRecording \/ StopRecording \/ Decide \/ EndSession
             \/ Capture \/ EncoderMain \/ UNCHANGED vars
  BY <1>2, OutsideSound
<1> QED
  BY <1>1, <1>2 DEF Next, Finished

(* It holds initially. *)
LEMMA InitSound == Init => Inductive
<1> SUFFICES ASSUME Init PROVE Inductive
  OBVIOUS
<1>1. /\ inbox = <<>> /\ workQ = <<>> /\ frameRing = <<>> /\ frameQ = <<>> /\ packets = <<>>
      /\ session = None /\ pending_episode = None /\ next_sequence = 0 /\ force_keyframe = FALSE
      /\ state = "Idle" /\ started = 0
  BY DEF Init, EncoderInit
<1>2. Typed
  <2>1. \A S : <<>> \in Seq(S)
    OBVIOUS
  <2>2. 0 \in Stamp /\ next_sequence \in Nat
    BY <1>1, MaxEpisodesAssumption DEF Stamp
  <2>3. force_keyframe \in BOOLEAN
    BY <1>1, Zenon
  <2> QED
    BY <1>1, <2>1, <2>2, <2>3, Zenon DEF Typed
<1>3. Chain
  BY <1>1 DEF Chain, Rising, Starts, StartAt, Later
<1>4. Aligned
  BY <1>1 DEF Aligned, Promise!StreamOpen
<1> QED
  BY <1>2, <1>3, <1>4 DEF Inductive

(* The recording path keeps to the inductive invariant. *)
THEOREM InductiveHolds == Spec => []Inductive
<1>1. Inductive /\ [Next]_vars => Inductive'
  BY NextSound
<1> QED
  BY <1>1, InitSound, PTL DEF Spec

(* The encoder implements StreamSpec: one stream per episode, in order,     *)
(* numbered from 0 without a gap, closed before the next one opens, and,    *)
(* when it is really encoded, opened with a keyframe and made only of       *)
(* frames captured after its start (worker_main, with whatever the queues   *)
(* between the camera, the session and the worker held).                    *)
THEOREM KeepsStreamPromise == Spec => StreamsAsPromised
<1>1. Init => Promise!Init
  BY DEF Init, EncoderInit, Promise!Init
<1>2. Inductive /\ [Next]_vars => [Promise!Next]_packets
  BY NextSound
<1> QED
  BY <1>1, <1>2, InductiveHolds, PTL DEF Spec, StreamsAsPromised, Promise!Spec
=============================================================================
