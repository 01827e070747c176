--------------------------- MODULE PacketStream ---------------------------
(***************************************************************************)
(* The assemblers' buffer of one camera's packets of one episode:          *)
(* RecordingStreamBuffer of episode-lerobot and CameraStreamBuffer of      *)
(* episode-mcap.  `expected` is 0 until a sequence number was accepted     *)
(* (last_sequence = None, or expected_seq = 0) and one past the last       *)
(* accepted number afterwards.  Of the packets kept only their sequence    *)
(* numbers matter here.                                                    *)
(***************************************************************************)
EXTENDS Naturals

Format == {"lerobot", "mcap"}    \* the two assemblers

EmptyBuffer(f) ==
  [format |-> f, expected |-> 0, seen_keyframe |-> FALSE, eos |-> FALSE, failed |-> FALSE, kept |-> {}]

(* Mutant: a stream must be seen from its first packet on. *)
InSequenceFromZero(buffer, sequence) == sequence = buffer.expected

(* update_sequence: the first number is taken as it comes. *)
InSequence(buffer, sequence) == buffer.expected \in {0, sequence}

(* Mutant: the gate for the first keyframe stays closed to the other packets. *)
KeepsKeyframesOnly(buffer, packet) ==
  IF buffer.failed \/ (~buffer.seen_keyframe /\ ~packet.key) THEN buffer
  ELSE IF InSequence(buffer, packet.sequence)
  THEN [buffer EXCEPT !.seen_keyframe = TRUE, !.expected = packet.sequence + 1,
                      !.kept = IF packet.key THEN @ \cup {packet.sequence} ELSE @]
  ELSE [buffer EXCEPT !.seen_keyframe = TRUE, !.failed = TRUE]

ObservePacket(buffer, packet) ==
  IF buffer.failed \/ (~buffer.seen_keyframe /\ ~packet.key) THEN buffer
  ELSE IF InSequence(buffer, packet.sequence)
  THEN [buffer EXCEPT !.seen_keyframe = TRUE, !.expected = packet.sequence + 1,
                      !.kept = @ \cup {packet.sequence}]
  ELSE [buffer EXCEPT !.seen_keyframe = TRUE, !.failed = TRUE]

(* episode-mcap takes EndOfStream at any time and does not look at its       *)
(* sequence number.                                                          *)
ObserveEos(buffer, packet) ==
  IF buffer.format = "mcap" THEN [buffer EXCEPT !.eos = TRUE]
  ELSE IF buffer.failed THEN buffer
  ELSE IF InSequence(buffer, packet.sequence)
  THEN [buffer EXCEPT !.eos = TRUE, !.expected = packet.sequence + 1]
  ELSE [buffer EXCEPT !.failed = TRUE]

Observe(buffer, packet) ==
  IF packet.kind = "Packet" THEN ObservePacket(buffer, packet) ELSE ObserveEos(buffer, packet)

Complete(buffer) == ~buffer.failed /\ buffer.eos /\ buffer.seen_keyframe
============================================================================
