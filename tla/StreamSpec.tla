---------------------------- MODULE StreamSpec ----------------------------
(***************************************************************************)
(* What a recording encoder promises on its packet topic, and what the     *)
(* assembler relies on: one stream per episode, in increasing index order, *)
(* numbered from 0 without a gap, closed by one EndOfStream before the     *)
(* next stream opens.  A stream that is really encoded opens with a        *)
(* keyframe, which is what the assembler waits for, and carries only       *)
(* frames captured after the RecordingStart of its episode; rvl and        *)
(* passthrough streams take the frames as they come.  An episode may have  *)
(* no stream at all.                                                       *)
(***************************************************************************)
EXTENDS Naturals, Sequences

CONSTANTS
  Episodes,     \* episode indices
  Stamps,       \* capture times of frames: the recordings started before them
  Encoded       \* the session is one of libav

VARIABLE packets    \* everything published so far

Last == packets[Len(packets)]

StreamOpen == packets # <<>> /\ Last.kind = "Packet"

Init == packets = <<>>

(* The open stream goes on, or the stream of a later episode opens. *)
MayCarry(e) ==
  IF StreamOpen THEN e = Last.episode ELSE packets # <<>> => e > Last.episode

NextSequence == IF StreamOpen THEN Last.sequence + 1 ELSE 0

(* RecordingStart of episode e is the start number e + 1. *)
Belongs(e, t) == t > e

Next ==
  \E kind \in {"Packet", "EndOfStream"}, e \in Episodes, key \in BOOLEAN, t \in Stamps :
    /\ MayCarry(e)
    /\ (Encoded /\ kind = "Packet") => Belongs(e, t) /\ (NextSequence = 0 => key)
    /\ packets' = Append(packets, [kind |-> kind, episode |-> e, sequence |-> NextSequence,
                                   key |-> key, captured |-> t])

Spec == Init /\ [][Next]_packets
============================================================================
