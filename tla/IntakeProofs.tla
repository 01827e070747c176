---------------------------- MODULE IntakeProofs ----------------------------
(***************************************************************************)
(* Proofs about the assembler's intake: however late it learns of an       *)
(* episode, and however many episodes and packets there are, it takes no   *)
(* stream for a failed one and keeps each stream it joined without a hole. *)
(***************************************************************************)
EXTENDS Intake, SequenceTheorems, TLAPS

PacketType ==
  [kind : {"Packet", "EndOfStream"}, episode : Episode, sequence : Nat, key : BOOLEAN,
   captured : {0}]

BufferType ==
  [format : Format, expected : Nat, seen_keyframe : BOOLEAN, eos : BOOLEAN, failed : BOOLEAN,
   kept : SUBSET Nat]

Typed ==
  /\ inbox \in Seq(Message)
  /\ state \in {"Idle", "Recording", "Pending"}
  /\ started \in 0 .. MaxEpisodes /\ (state # "Idle" => started # 0)
  /\ packets \in Seq(PacketType)
  /\ drain \in {"control", "packets"}
  /\ known \subseteq Episode /\ keep_requested \subseteq known
  /\ buffer \in [Episode -> BufferType]
  /\ consumed \in 0 .. Len(packets)

(* The packets of an episode stand together on the topic, numbered one by   *)
(* one, its EndOfStream the last.                                           *)
InOrder(i, j) ==
  /\ packets[i].episode <= packets[j].episode
  /\ packets[i].episode = packets[j].episode =>
       /\ packets[i].kind = "Packet"
       /\ packets[j].sequence = packets[i].sequence + (j - i)

Ordered == \A i, j \in DOMAIN packets : i < j => InOrder(i, j)

(* The buffer of a known episode expects the number after the last one it   *)
(* accepted, which no packet of the episode was read after; without a       *)
(* keyframe it has accepted nothing but the EndOfStream.                    *)
UpToDate(e) ==
  buffer[e].expected # 0 =>
    \E i \in 1 .. consumed :
      /\ packets[i].episode = e /\ buffer[e].expected = packets[i].sequence + 1
      /\ ~buffer[e].seen_keyframe => packets[i].kind = "EndOfStream"
      /\ \A k \in i + 1 .. consumed : ~(packets[k].episode = e /\ packets[k].kind = "Packet")

(* What is kept begins with a keyframe and has no hole. *)
Gapless(e) ==
  /\ ~buffer[e].seen_keyframe => buffer[e].kept = {}
  /\ \A i \in 1 .. consumed :
       (/\ packets[i].kind = "Packet" /\ packets[i].episode = e
        /\ \E k \in buffer[e].kept : k <= packets[i].sequence)
         => packets[i].sequence \in buffer[e].kept

Inductive ==
  /\ Typed /\ Ordered
  /\ \A e \in known : ~buffer[e].failed /\ UpToDate(e) /\ Gapless(e)

-----------------------------------------------------------------------------
(* Messages and packets. *)

(* A message of a controller event is one. *)
LEMMA MsgTyped ==
  ASSUME NEW t \in ControlEventType, NEW e \in Episode
  PROVE  Msg(t, e) \in Message
BY DEF Msg, Message

(* A ring of messages stays one. *)
LEMMA SendTyped ==
  ASSUME NEW q \in Seq(Message), NEW sample \in Message
  PROVE  Send(q, sample) \in Seq(Message)
<1> HIDE DEF Message
<1>1. CASE Len(q) < BufferSize
  BY <1>1, AppendProperties DEF Send
<1>2. CASE ~(Len(q) < BufferSize)
  <2>1. q # <<>>
    BY <1>2, BufferSizeAssumption
  <2>2. Tail(q) \in Seq(Message)
    BY <2>1, HeadTailProperties
  <2> QED
    BY <1>2, <2>2, AppendProperties DEF Send
<1> QED
  BY <1>1, <1>2

(* A packet has the fields of one. *)
LEMMA PacketTyped ==
  ASSUME Typed, NEW i \in DOMAIN packets
  PROVE  /\ packets[i].kind \in {"Packet", "EndOfStream"} /\ packets[i].episode \in Episode
         /\ packets[i].sequence \in Nat /\ packets[i].key \in BOOLEAN /\ i \in Nat \ {0}
         /\ packets[i].episode \in Nat /\ packets[i] \in PacketType
<1>1. packets \in Seq(PacketType)
  BY DEF Typed
<1>2. packets[i] \in PacketType /\ i \in Nat \ {0}
  <2> HIDE DEF PacketType
  <2> QED
    BY <1>1, ElementOfSeq
<1> QED
  BY <1>2 DEF PacketType, Episode

(* What the encoder publishes: one packet, which goes on with the last      *)
(* stream or opens that of a later episode.                                 *)
LEMMA Published ==
  ASSUME Typed, EncoderPublishes
  PROVE  /\ packets' \in Seq(PacketType)
         /\ Len(packets') = Len(packets) + 1 /\ Len(packets) \in Nat
         /\ \A i \in DOMAIN packets : packets'[i] = packets[i]
         /\ DOMAIN packets' = DOMAIN packets \cup {Len(packets) + 1}
         /\ packets # <<>> =>
              LET last == packets[Len(packets)]
                  new == packets'[Len(packets) + 1]
              IN  IF last.kind = "Packet"
                  THEN new.episode = last.episode /\ new.sequence = last.sequence + 1
                  ELSE new.episode > last.episode
<1>1. PICK kind \in {"Packet", "EndOfStream"}, e \in Episode, key \in BOOLEAN, t \in {0} :
        /\ Topic!MayCarry(e)
        /\ packets' = Append(packets, [kind |-> kind, episode |-> e, sequence |-> Topic!NextSequence,
                                       key |-> key, captured |-> t])
  BY DEF EncoderPublishes, Topic!Next
<1> DEFINE new == [kind |-> kind, episode |-> e, sequence |-> Topic!NextSequence,
                   key |-> key, captured |-> t]
<1>2. packets \in Seq(PacketType) /\ Len(packets) \in Nat
  BY DEF Typed
<1>3. Topic!NextSequence \in Nat
  <2>1. packets # <<>> => Len(packets) \in DOMAIN packets
    BY <1>2
  <2> QED
    BY <2>1, PacketTyped DEF Topic!NextSequence, Topic!StreamOpen, Topic!Last
<1>4. new \in PacketType
  BY <1>3 DEF PacketType
<1>5. new.episode = e /\ new.sequence = Topic!NextSequence
  OBVIOUS
<1> HIDE DEF new, PacketType
<1>6. /\ packets' \in Seq(PacketType)
      /\ Len(packets') = Len(packets) + 1
      /\ \A i \in DOMAIN packets : packets'[i] = packets[i]
      /\ DOMAIN packets' = DOMAIN packets \cup {Len(packets) + 1}
      /\ packets'[Len(packets) + 1] = new
  <2>1. packets' = Append(packets, new)
    BY <1>1 DEF new
  <2> QED
    BY <1>2, <1>4, <2>1
<1> QED
  BY <1>1, <1>2, <1>5, <1>6 DEF Topic!MayCarry, Topic!NextSequence, Topic!StreamOpen, Topic!Last

(* Streams stay in order. *)
LEMMA OrderedStep == Typed /\ Ordered /\ [Next]_vars => Ordered'
<1> SUFFICES ASSUME Typed, Ordered, [Next]_vars PROVE Ordered'
  OBVIOUS
<1>1. CASE EncoderPublishes
  <2>0. PICK n \in Nat : n = Len(packets)
    BY <1>1, Published
  <2>1. /\ n \in Nat /\ DOMAIN packets' = DOMAIN packets \cup {n + 1} /\ DOMAIN packets = 1 .. n
        /\ \A i \in DOMAIN packets : packets'[i] = packets[i]
    BY <1>1, <2>0, Published DEF Typed
  <2>2. packets # <<>> =>
          /\ packets[n].kind = "Packet" => /\ packets'[n + 1].episode = packets[n].episode
                                           /\ packets'[n + 1].sequence = packets[n].sequence + 1
          /\ packets[n].kind # "Packet" => packets'[n + 1].episode > packets[n].episode
    BY <1>1, <2>0, Published
  <2>3. packets'[n + 1].episode \in Nat
    <3>1. packets'[n + 1] \in PacketType
      <4> HIDE DEF PacketType
      <4> QED
        BY <1>1, <2>0, <2>1, Published, ElementOfSeq
    <3> QED
      BY <3>1 DEF PacketType, Episode
  <2>4. ASSUME NEW i \in DOMAIN packets PROVE InOrder(i, n + 1)'
    <3>1. n \in DOMAIN packets /\ packets # <<>> /\ i \in Nat /\ i <= n
      BY <2>1
    <3>2. packets[n].episode \in Nat /\ packets[i].episode \in Nat /\ packets[i].sequence \in Nat
          /\ packets[n].sequence \in Nat
      BY <3>1, PacketTyped
    <3>3. i # n => InOrder(i, n)
      BY <2>1, <3>1 DEF Ordered
    <3>4. packets'[i] = packets[i]
      BY <2>1
    <3>5. CASE i = n
      BY <2>1, <2>2, <2>3, <3>1, <3>2, <3>4, <3>5 DEF InOrder
    <3>6. CASE i # n
      <4>1. InOrder(i, n)
        BY <3>3, <3>6
      <4>2. CASE packets[n].kind = "Packet"
        BY <2>1, <2>2, <3>1, <3>2, <3>4, <4>1, <4>2 DEF InOrder
      <4>3. CASE packets[n].kind # "Packet"
        <5>1. packets'[i].episode < packets'[n + 1].episode
          BY <2>2, <2>3, <3>1, <3>2, <3>4, <4>1, <4>3 DEF InOrder
        <5>2. packets'[i].episode \in Nat
          BY <3>2, <3>4
        <5> QED
          BY <2>3, <5>1, <5>2 DEF InOrder
      <4> QED
        BY <4>2, <4>3
    <3> QED
      BY <3>5, <3>6
  <2>5. ASSUME NEW i \in DOMAIN packets', NEW j \in DOMAIN packets', i < j
        PROVE  InOrder(i, j)'
    <3>1. i \in DOMAIN packets
      BY <2>1, <2>5
    <3>2. CASE j \in DOMAIN packets
      BY <2>1, <2>5, <3>1, <3>2 DEF Ordered, InOrder
    <3>3. CASE j = n + 1
      BY <2>4, <3>1, <3>3 DEF InOrder
    <3> QED
      BY <2>1, <3>2, <3>3
  <2> QED
    BY <2>5 DEF Ordered
<1>2. CASE UNCHANGED packets
  BY <1>2 DEF Ordered, InOrder
<1> QED
  BY <1>1, <1>2 DEF Next, vars, StartRecording, StopOrDecide, Step, OnControlEvent, ControlDrained,
     Advance, OnPacket, Leave, PacketsDrained

-----------------------------------------------------------------------------
(* The buffer. *)

(* Reading a packet in sequence: the buffer does not fail, and either skips *)
(* the packet, or accepts it, or closes.                                    *)
LEMMA Observed ==
  ASSUME NEW b \in BufferType, NEW p \in PacketType
  PROVE  /\ Observe(b, p) \in BufferType
         /\ (~b.failed /\ InSequence(b, p.sequence)) =>
              /\ ~Observe(b, p).failed
              /\ \/ Observe(b, p) = b /\ ~b.seen_keyframe /\ p.kind = "Packet"
                 \/ /\ Observe(b, p).expected = p.sequence + 1
                    /\ Observe(b, p).seen_keyframe /\ p.kind = "Packet"
                    /\ Observe(b, p).kept = b.kept \cup {p.sequence}
                 \/ /\ Observe(b, p).expected \in {b.expected, p.sequence + 1}
                    /\ p.kind = "EndOfStream"
                    /\ Observe(b, p).seen_keyframe = b.seen_keyframe
                    /\ Observe(b, p).kept = b.kept
<1>1. /\ p.kind \in {"Packet", "EndOfStream"} /\ p.sequence \in Nat /\ p.key \in BOOLEAN
      /\ b.format \in Format /\ b.expected \in Nat /\ b.seen_keyframe \in BOOLEAN
      /\ b.eos \in BOOLEAN /\ b.failed \in BOOLEAN /\ b.kept \in SUBSET Nat
  BY DEF BufferType, PacketType
<1>2. CASE p.kind = "Packet"
  <2>1. Observe(b, p) = ObservePacket(b, p)
    BY <1>2 DEF Observe
  <2>2. CASE b.failed \/ (~b.seen_keyframe /\ ~p.key)
    BY <1>1, <1>2, <2>1, <2>2 DEF ObservePacket
  <2>3. CASE ~(b.failed \/ (~b.seen_keyframe /\ ~p.key)) /\ InSequence(b, p.sequence)
    <3> DEFINE n == p.sequence + 1
               k == b.kept \cup {p.sequence}
               c == [b EXCEPT !.seen_keyframe = TRUE, !.expected = n, !.kept = k]
    <3>1. n \in Nat /\ k \in SUBSET Nat
      BY <1>1
    <3>2. Observe(b, p) = c
      BY <2>1, <2>3 DEF ObservePacket
    <3> HIDE DEF n, k
    <3>3. c \in BufferType
      BY <3>1 DEF BufferType
    <3>4. c.failed = b.failed /\ c.expected = n /\ c.seen_keyframe /\ c.kept = k
      BY DEF BufferType
    <3> HIDE DEF c
    <3> QED
      BY <1>2, <2>3, <3>2, <3>3, <3>4 DEF n, k
  <2>4. CASE ~(b.failed \/ (~b.seen_keyframe /\ ~p.key)) /\ ~InSequence(b, p.sequence)
    <3>1. [b EXCEPT !.seen_keyframe = TRUE, !.failed = TRUE] \in BufferType
      BY <1>1 DEF BufferType
    <3> QED
      BY <2>1, <2>4, <3>1 DEF ObservePacket
  <2> QED
    BY <2>2, <2>3, <2>4
<1>3. CASE p.kind = "EndOfStream"
  <2>1. Observe(b, p) = ObserveEos(b, p)
    BY <1>3 DEF Observe
  <2>2. CASE b.format = "mcap"
    <3>1. /\ [b EXCEPT !.eos = TRUE] \in BufferType
          /\ [b EXCEPT !.eos = TRUE].failed = b.failed
          /\ [b EXCEPT !.eos = TRUE].expected = b.expected
          /\ [b EXCEPT !.eos = TRUE].seen_keyframe = b.seen_keyframe
          /\ [b EXCEPT !.eos = TRUE].kept = b.kept
      BY <1>1 DEF BufferType
    <3> QED
      BY <1>3, <2>1, <2>2, <3>1 DEF ObserveEos
  <2>3. CASE b.format # "mcap" /\ b.failed
    BY <2>1, <2>3 DEF ObserveEos
  <2>4. CASE b.format # "mcap" /\ ~b.failed /\ InSequence(b, p.sequence)
    <3> DEFINE n == p.sequence + 1
               c == [b EXCEPT !.eos = TRUE, !.expected = n]
    <3>1. n \in Nat
      BY <1>1
    <3>2. Observe(b, p) = c
      BY <2>1, <2>4 DEF ObserveEos
    <3> HIDE DEF n
    <3>3. c \in BufferType
      BY <3>1 DEF BufferType
    <3>4. /\ c.failed = b.failed /\ c.expected = n
          /\ c.seen_keyframe = b.seen_keyframe /\ c.kept = b.kept
      BY DEF BufferType
    <3> HIDE DEF c
    <3> QED
      BY <1>3, <2>4, <3>2, <3>3, <3>4 DEF n
  <2>5. CASE b.format # "mcap" /\ ~b.failed /\ ~InSequence(b, p.sequence)
    <3>1. [b EXCEPT !.failed = TRUE] \in BufferType
      BY <1>1 DEF BufferType
    <3> QED
      BY <2>1, <2>5, <3>1 DEF ObserveEos
  <2> QED
    BY <2>2, <2>3, <2>4, <2>5
<1> QED
  BY <1>1, <1>2, <1>3

(* An empty buffer. *)
LEMMA EmptyTyped ==
  ASSUME NEW f \in Format
  PROVE  /\ EmptyBuffer(f) \in BufferType
         /\ EmptyBuffer(f).expected = 0 /\ ~EmptyBuffer(f).failed /\ EmptyBuffer(f).kept = {}
BY DEF EmptyBuffer, BufferType

(* What a control event does to a buffer: nothing, or it is a new one. *)
LEMMA ControlEvent ==
  ASSUME Typed, OnControlEvent
  PROVE  /\ inbox' \in Seq(Message)
         /\ known' \subseteq Episode /\ keep_requested' \subseteq known'
         /\ buffer' \in [Episode -> BufferType]
         /\ \A e \in known' :
              \/ e \in known /\ buffer'[e] = buffer[e]
              \/ buffer'[e] = EmptyBuffer(buffer[e].format)
         /\ UNCHANGED <<state, started, packets, drain, consumed>>
<1>1. inbox \in Seq(Message) /\ inbox # <<>> /\ inbox' = Tail(inbox)
  BY DEF OnControlEvent, Typed
<1>2. Head(inbox) \in Message /\ inbox' \in Seq(Message)
  <2> HIDE DEF Message
  <2> QED
    BY <1>1, HeadTailProperties
<1> DEFINE e == Head(inbox).episode_index
           starts == IF Head(inbox).type = "RecordingStart" THEN {e} ELSE {}
           ends == IF Head(inbox).type = "EpisodeDiscard" THEN {e} ELSE {}
           keeps == IF Head(inbox).type = "EpisodeKeep" THEN {e} \cap known ELSE {}
<1>3. e \in Episode
  BY <1>2 DEF Message
<1>4. /\ known' = (known \cup starts) \ ends
      /\ keep_requested' = (keep_requested \cup keeps) \ (starts \cup ends)
      /\ buffer' = [d \in Episode |-> IF d \in starts THEN EmptyBuffer(buffer[d].format) ELSE buffer[d]]
      /\ UNCHANGED <<state, started, packets, drain, consumed>>
  BY DEF OnControlEvent
<1>5. starts \subseteq Episode /\ keeps \subseteq known
  BY <1>3
<1> HIDE DEF e, starts, ends, keeps
<1>6. known' \subseteq Episode /\ keep_requested' \subseteq known'
  BY <1>4, <1>5 DEF Typed
<1>7. \A d \in Episode : buffer[d] \in BufferType /\ EmptyBuffer(buffer[d].format) \in BufferType
  <2>1. \A d \in Episode : buffer[d] \in BufferType
    BY DEF Typed
  <2>2. \A d \in Episode : buffer[d].format \in Format
    BY <2>1 DEF BufferType
  <2> QED
    BY <2>1, <2>2, EmptyTyped
<1>8. buffer' \in [Episode -> BufferType]
  BY <1>4, <1>7
<1>9. \A d \in known' : \/ d \in known /\ buffer'[d] = buffer[d]
                        \/ buffer'[d] = EmptyBuffer(buffer[d].format)
  BY <1>4, <1>6
<1> QED
  BY <1>2, <1>4, <1>6, <1>8, <1>9

(* What reading a packet does. *)
LEMMA PacketRead ==
  ASSUME Typed, OnPacket
  PROVE  /\ consumed' = consumed + 1 /\ consumed' \in DOMAIN packets /\ consumed \in Nat
         /\ buffer' \in [Episode -> BufferType]
         /\ UNCHANGED <<packets, known>>
         /\ packets[consumed + 1] \in PacketType
         /\ \A e \in known :
              buffer'[e] = IF e = packets[consumed + 1].episode
                           THEN Observe(buffer[e], packets[consumed + 1]) ELSE buffer[e]
<1>1. consumed' = consumed + 1 /\ consumed < Len(packets) /\ UNCHANGED <<packets, known>>
  BY DEF OnPacket
<1>2. consumed' \in DOMAIN packets /\ consumed \in Nat /\ consumed + 1 \in DOMAIN packets
  BY <1>1 DEF Typed
<1> DEFINE packet == packets[consumed + 1]
<1>3. packet \in PacketType /\ packet.episode \in Episode
  BY <1>2, PacketTyped
<1>4. buffer' = IF packet.episode \in known
                THEN [buffer EXCEPT ![packet.episode] = Observe(@, packet)] ELSE buffer
  BY DEF OnPacket
<1> HIDE DEF packet
<1>5. buffer \in [Episode -> BufferType] /\ known \subseteq Episode
  BY DEF Typed
<1>6. Observe(buffer[packet.episode], packet) \in BufferType
  BY <1>3, <1>5, Observed
<1>7. buffer' \in [Episode -> BufferType]
  BY <1>3, <1>4, <1>5, <1>6
<1>8. \A e \in known : buffer'[e] = IF e = packet.episode THEN Observe(buffer[e], packet) ELSE buffer[e]
  BY <1>4, <1>5
<1> QED
  BY <1>1, <1>2, <1>3, <1>7, <1>8 DEF packet

-----------------------------------------------------------------------------
(* The steps. *)

(* Each step keeps the types. *)
LEMMA TypedStep == Typed /\ [Next]_vars => Typed'
<1> SUFFICES ASSUME Typed, [Next]_vars PROVE Typed'
  OBVIOUS
<1>1. CASE UNCHANGED vars
  BY <1>1 DEF Typed, vars, assemblerVars
<1>2. ASSUME NEW from, NEW type \in ControlEventType, NEW e \in Episode,
             NEW to \in {"Idle", "Recording", "Pending"},
             Step(from, type, e, to), started' \in 0 .. MaxEpisodes,
             to # "Idle" => started' # 0
      PROVE  Typed'
  <2>1. inbox' \in Seq(Message)
    BY <1>2, MsgTyped, SendTyped DEF Step, Typed
  <2> QED
    BY <1>2, <2>1 DEF Step, Typed, assemblerVars
<1>3. CASE StartRecording
  <2>1. started \in Episode /\ started' \in 0 .. MaxEpisodes /\ started' # 0
    BY <1>3, MaxEpisodesAssumption DEF StartRecording, Typed, Episode
  <2> QED
    BY <1>2, <1>3, <2>1 DEF StartRecording, ControlEventType
<1>4. CASE StopOrDecide
  <2>1. state # "Idle" /\ UNCHANGED started
    BY <1>4 DEF StopOrDecide, Step
  <2>2. started - 1 \in Episode /\ started' \in 0 .. MaxEpisodes /\ started' # 0
    BY <2>1, MaxEpisodesAssumption DEF Typed, Episode
  <2> QED
    BY <1>2, <1>4, <2>2 DEF StopOrDecide, ControlEventType
<1>5. CASE EncoderPublishes
  <2>1. packets' \in Seq(PacketType) /\ Len(packets') = Len(packets) + 1 /\ Len(packets) \in Nat
    BY <1>5, Published
  <2>2. UNCHANGED <<inbox, state, started, assemblerVars>>
    BY <1>5 DEF EncoderPublishes
  <2>3. consumed' \in 0 .. Len(packets')
    BY <2>1, <2>2 DEF Typed, assemblerVars
  <2> QED
    BY <2>1, <2>2, <2>3 DEF Typed, assemblerVars
<1>6. CASE OnControlEvent
  BY <1>6, ControlEvent DEF Typed
<1>7. CASE ControlDrained \/ PacketsDrained
  BY <1>7 DEF ControlDrained, PacketsDrained, Advance, Typed
<1>8. CASE OnPacket
  <2>1. consumed' \in 0 .. Len(packets')
    BY <1>8, PacketRead DEF Typed
  <2>2. buffer' \in [Episode -> BufferType]
    BY <1>8, PacketRead
  <2> QED
    BY <1>8, <2>1, <2>2 DEF OnPacket, Typed
<1>9. CASE \E e \in Episode : Leave(e)
  BY <1>9 DEF Leave, Typed
<1> QED
  BY <1>1, <1>3, <1>4, <1>5, <1>6, <1>7, <1>8, <1>9 DEF Next

(* The next packet of an episode whose buffer has accepted one is the one   *)
(* the buffer expects.                                                      *)
LEMMA NextInSequence ==
  ASSUME Typed, Ordered, NEW e \in known, UpToDate(e), consumed + 1 \in DOMAIN packets,
         packets[consumed + 1].episode = e
  PROVE  InSequence(buffer[e], packets[consumed + 1].sequence)
<1>0. consumed \in Nat /\ packets \in Seq(PacketType) /\ DOMAIN packets = 1 .. Len(packets)
      /\ Len(packets) \in Nat
  BY DEF Typed
<1>1. CASE buffer[e].expected = 0
  BY <1>1 DEF InSequence
<1>2. CASE buffer[e].expected # 0
  <2>1. PICK i \in 1 .. consumed :
          /\ packets[i].episode = e /\ buffer[e].expected = packets[i].sequence + 1
          /\ \A k \in i + 1 .. consumed : ~(packets[k].episode = e /\ packets[k].kind = "Packet")
    BY <1>2 DEF UpToDate
  <2>2. i \in DOMAIN packets /\ i < consumed + 1 /\ i \in Nat
    BY <1>0
  <2>3. packets[consumed + 1].sequence = packets[i].sequence + (consumed + 1 - i)
    <3>1. InOrder(i, consumed + 1)
      BY <2>2 DEF Ordered
    <3>2. packets[i].episode = packets[consumed + 1].episode
      BY <2>1
    <3> QED
      BY <1>0, <2>2, <3>1, <3>2, PacketTyped DEF InOrder
  <2>4. i = consumed
    <3> SUFFICES ASSUME i < consumed PROVE FALSE
      BY <1>0, <2>2
    <3>1. consumed \in DOMAIN packets /\ consumed < consumed + 1 /\ consumed \in i + 1 .. consumed
      BY <1>0, <2>2
    <3>2. InOrder(i, consumed) /\ InOrder(consumed, consumed + 1)
      BY <2>2, <3>1 DEF Ordered
    <3>3. packets[consumed].episode = e
      <4>1. packets[consumed].episode \in Nat /\ packets[i].episode \in Nat /\ e \in Nat
        BY <2>1, <2>2, <3>1, PacketTyped
      <4> QED
        BY <2>1, <3>2, <4>1 DEF InOrder
    <3>4. packets[consumed].kind = "Packet"
      BY <3>2, <3>3 DEF InOrder
    <3> QED
      BY <2>1, <3>1, <3>3, <3>4
  <2>5. packets[i].sequence \in Nat
    BY <2>2, PacketTyped
  <2>6. packets[consumed + 1].sequence = buffer[e].expected
    BY <1>0, <2>1, <2>3, <2>4, <2>5
  <2> QED
    BY <2>6 DEF InSequence
<1> QED
  BY <1>1, <1>2

(* No buffer of a known episode fails, falls behind or gets a hole. *)
LEMMA BufferStep ==
  ASSUME Inductive, [Next]_vars, NEW e \in known'
  PROVE  ~buffer'[e].failed /\ UpToDate(e)' /\ Gapless(e)'
<1>0. /\ Typed /\ Ordered
      /\ \A d \in known : ~buffer[d].failed /\ UpToDate(d) /\ Gapless(d)
      /\ known \subseteq Episode /\ consumed \in 0 .. Len(packets) /\ packets \in Seq(PacketType)
  BY DEF Inductive, Typed
<1>1. CASE e \in known /\ buffer'[e] = buffer[e] /\ UNCHANGED consumed
           /\ \A i \in 1 .. consumed : packets'[i] = packets[i]
  BY <1>0, <1>1 DEF UpToDate, Gapless
<1>2. CASE OnControlEvent
  <2>1. \/ e \in known /\ buffer'[e] = buffer[e]
        \/ buffer'[e] = EmptyBuffer(buffer[e].format)
    BY <1>0, <1>2, ControlEvent
  <2>2. UNCHANGED <<packets, consumed>> /\ e \in Episode
    BY <1>0, <1>2, ControlEvent
  <2>3. CASE buffer'[e] = EmptyBuffer(buffer[e].format)
    <3>1. buffer[e] \in BufferType
      BY <1>0, <2>2 DEF Typed
    <3>2. buffer[e].format \in Format
      BY <3>1 DEF BufferType
    <3>3. buffer'[e].expected = 0 /\ ~buffer'[e].failed /\ buffer'[e].kept = {}
      BY <2>3, <3>2, EmptyTyped
    <3> QED
      BY <3>3 DEF UpToDate, Gapless
  <2> QED
    BY <1>1, <2>1, <2>2, <2>3
<1>3. CASE OnPacket
  <2> DEFINE n == consumed + 1
             packet == packets[n]
             b == buffer[e]
             c == buffer'[e]
  <2>1. /\ consumed' = n /\ n \in DOMAIN packets /\ consumed \in Nat
        /\ UNCHANGED <<packets, known>> /\ packet \in PacketType
        /\ c = IF e = packet.episode THEN Observe(b, packet) ELSE b
    BY <1>0, <1>3, PacketRead
  <2>2. /\ e \in known /\ ~b.failed /\ UpToDate(e) /\ Gapless(e) /\ b \in BufferType
        /\ b.kept \subseteq Nat /\ b.expected \in Nat
    <3>1. e \in known /\ b \in BufferType
      BY <1>0, <2>1 DEF Typed
    <3> QED
      BY <1>0, <3>1 DEF BufferType
  <2>3. packet.sequence \in Nat /\ packet.kind \in {"Packet", "EndOfStream"}
    BY <2>1 DEF PacketType
  <2>4. CASE e # packet.episode
    <3>1. c = b
      BY <2>1, <2>4
    <3>2. UpToDate(e)'
      <4> SUFFICES ASSUME b.expected # 0
                   PROVE  \E i \in 1 .. n :
                            /\ packets[i].episode = e /\ b.expected = packets[i].sequence + 1
                            /\ ~b.seen_keyframe => packets[i].kind = "EndOfStream"
                            /\ \A k \in i + 1 .. n :
                                 ~(packets[k].episode = e /\ packets[k].kind = "Packet")
        BY <2>1, <3>1 DEF UpToDate
      <4>1. PICK i \in 1 .. consumed :
              /\ packets[i].episode = e /\ b.expected = packets[i].sequence + 1
              /\ ~b.seen_keyframe => packets[i].kind = "EndOfStream"
              /\ \A k \in i + 1 .. consumed :
                   ~(packets[k].episode = e /\ packets[k].kind = "Packet")
        BY <2>2 DEF UpToDate
      <4>2. i \in 1 .. n
        BY <2>1
      <4>3. \A k \in i + 1 .. n : k \in i + 1 .. consumed \/ k = n
        BY <2>1
      <4>4. \A k \in i + 1 .. n : ~(packets[k].episode = e /\ packets[k].kind = "Packet")
        BY <2>4, <4>1, <4>3
      <4> QED
        BY <4>1, <4>2, <4>4
    <3>3. Gapless(e)'
      <4>1. \A i \in 1 .. n : i \in 1 .. consumed \/ i = n
        BY <2>1
      <4> QED
        BY <2>1, <2>2, <2>4, <3>1, <4>1 DEF Gapless
    <3> QED
      BY <2>2, <3>1, <3>2, <3>3
  <2>5. CASE e = packet.episode
    <3>1. InSequence(b, packet.sequence)
      BY <1>0, <2>1, <2>2, <2>5, NextInSequence
    <3>2. c = Observe(b, packet)
      BY <2>1, <2>5
    <3>3. /\ ~c.failed
          /\ \/ c = b /\ ~b.seen_keyframe /\ packet.kind = "Packet"
             \/ /\ c.expected = packet.sequence + 1
                /\ c.seen_keyframe /\ packet.kind = "Packet"
                /\ c.kept = b.kept \cup {packet.sequence}
             \/ /\ c.expected \in {b.expected, packet.sequence + 1}
                /\ packet.kind = "EndOfStream"
                /\ c.seen_keyframe = b.seen_keyframe
                /\ c.kept = b.kept
      <4> HIDE DEF b, c, packet
      <4> QED
        BY <2>1, <2>2, <3>1, <3>2, Observed
    <3>4. ~b.seen_keyframe => b.kept = {}
      BY <2>2 DEF Gapless
    <3>5. Gapless(e)'
      <4>1. ~c.seen_keyframe => c.kept = {}
        BY <3>3, <3>4
      <4>2. ASSUME NEW i \in 1 .. n, packets[i].kind = "Packet", packets[i].episode = e,
                   NEW k \in c.kept, k <= packets[i].sequence
            PROVE  packets[i].sequence \in c.kept
        <5>1. CASE i = n
          BY <3>3, <3>4, <4>2, <5>1
        <5>2. CASE i \in 1 .. consumed
          <6>1. i < n /\ i \in DOMAIN packets /\ i \in Nat
            BY <1>0, <2>1, <5>2
          <6>2. packet.sequence = packets[i].sequence + (n - i)
            BY <2>1, <2>5, <4>2, <6>1 DEF Ordered, InOrder, Inductive
          <6>3. packets[i].sequence \in Nat
            BY <1>0, <6>1, PacketTyped
          <6>4. packet.sequence > packets[i].sequence
            BY <2>1, <2>3, <6>1, <6>2, <6>3
          <6>5. k # packet.sequence
            BY <2>3, <4>2, <6>3, <6>4
          <6>6. k \in b.kept
            BY <3>3, <6>5
          <6>7. packets[i].sequence \in b.kept
            BY <2>2, <4>2, <5>2, <6>6 DEF Gapless
          <6> QED
            BY <3>3, <6>7
        <5> QED
          BY <2>1, <5>1, <5>2
      <4> QED
        BY <2>1, <4>1, <4>2 DEF Gapless
    <3>6. UpToDate(e)'
      <4> SUFFICES ASSUME c.expected # 0
                   PROVE  \E i \in 1 .. n :
                            /\ packets[i].episode = e /\ c.expected = packets[i].sequence + 1
                            /\ ~c.seen_keyframe => packets[i].kind = "EndOfStream"
                            /\ \A k \in i + 1 .. n :
                                 ~(packets[k].episode = e /\ packets[k].kind = "Packet")
        BY <2>1 DEF UpToDate
      <4>0. ~b.seen_keyframe /\ packet.kind = "Packet" => b.expected = 0
        <5> SUFFICES ASSUME ~b.seen_keyframe, packet.kind = "Packet", b.expected # 0 PROVE FALSE
          OBVIOUS
        <5>1. PICK i \in 1 .. consumed : packets[i].episode = e /\ packets[i].kind = "EndOfStream"
          BY <2>2 DEF UpToDate
        <5>2. i < n /\ i \in DOMAIN packets
          BY <1>0, <2>1
        <5>3. InOrder(i, n)
          BY <1>0, <2>1, <5>2 DEF Ordered
        <5> QED
          BY <2>5, <5>1, <5>3 DEF InOrder
      <4>1. CASE c.expected = packet.sequence + 1
        <5>1. n \in 1 .. n /\ n + 1 .. n = {}
          BY <2>1
        <5>2. ~c.seen_keyframe => packets[n].kind = "EndOfStream"
          BY <2>3, <3>3, <4>0, <4>1
        <5> QED
          BY <2>5, <4>1, <5>1, <5>2
      <4>2. CASE c.expected = b.expected /\ packet.kind = "EndOfStream"
        <5>1. PICK i \in 1 .. consumed :
                /\ packets[i].episode = e /\ b.expected = packets[i].sequence + 1
                /\ ~b.seen_keyframe => packets[i].kind = "EndOfStream"
                /\ \A k \in i + 1 .. consumed :
                     ~(packets[k].episode = e /\ packets[k].kind = "Packet")
          BY <2>2, <4>2 DEF UpToDate
        <5>2. i \in 1 .. n /\ \A k \in i + 1 .. n : k \in i + 1 .. consumed \/ k = n
          BY <2>1
        <5>3. \A k \in i + 1 .. n : ~(packets[k].episode = e /\ packets[k].kind = "Packet")
          BY <4>2, <5>1, <5>2
        <5> QED
          BY <3>3, <4>2, <5>1, <5>2, <5>3
      <4>3. CASE c = b /\ ~b.seen_keyframe /\ packet.kind = "Packet"
        BY <3>3, <4>0, <4>3
      <4> QED
        BY <3>3, <4>1, <4>2, <4>3
    <3> QED
      BY <3>3, <3>5, <3>6
  <2> QED
    BY <2>4, <2>5
<1>4. CASE EncoderPublishes
  <2>1. UNCHANGED <<known, buffer, consumed>>
    BY <1>4 DEF EncoderPublishes, assemblerVars
  <2>2. \A i \in 1 .. consumed : packets'[i] = packets[i]
    BY <1>0, <1>4, Published
  <2> QED
    BY <1>1, <2>1, <2>2
<1>5. CASE UNCHANGED <<packets, buffer, consumed>> /\ known' \subseteq known
  BY <1>1, <1>5
<1> QED
  BY <1>2, <1>3, <1>4, <1>5 DEF Next, vars, assemblerVars, StartRecording, StopOrDecide, Step,
     ControlDrained, PacketsDrained, Advance, Leave

-----------------------------------------------------------------------------
(* The theorems. *)

(* Every behaviour keeps the inductive invariant. *)
THEOREM InductiveHolds == Spec => []Inductive
<1>1. Init => Inductive
  <2> SUFFICES ASSUME Init PROVE Inductive
    OBVIOUS
  <2>1. PICK f \in Format : buffer = [e \in Episode |-> EmptyBuffer(f)]
    BY DEF Init
  <2>2. buffer \in [Episode -> BufferType]
    BY <2>1, EmptyTyped
  <2>3. packets = <<>> /\ known = {}
    BY DEF Init, Topic!Init
  <2>4. Typed
    BY <2>2, <2>3, MaxEpisodesAssumption DEF Init, Typed
  <2> QED
    BY <2>3, <2>4 DEF Inductive, Ordered
<1>2. Inductive /\ [Next]_vars => Inductive'
  BY BufferStep, TypedStep, OrderedStep DEF Inductive
<1> QED
  BY <1>1, <1>2, PTL DEF Spec

(* The assembler never takes a stream for a failed one, however             *)
(* late it learned of the episode: on a topic that loses nothing, what it   *)
(* missed lies before the first number it accepts.                          *)
THEOREM NeverFailsFalsely == Spec => []NoFalseFailure
<1>1. Inductive => NoFalseFailure
  BY DEF Inductive, NoFalseFailure
<1> QED
  BY <1>1, InductiveHolds, PTL

(* A complete buffer holds every packet that was read from the first kept   *)
(* one on (the packet buffers of episode-lerobot and episode-mcap).         *)
THEOREM CompleteHasNoGap == Spec => []CompleteIsGapless
<1>1. Inductive => CompleteIsGapless
  BY DEF Inductive, CompleteIsGapless, Gapless
<1> QED
  BY <1>1, InductiveHolds, PTL
=============================================================================
