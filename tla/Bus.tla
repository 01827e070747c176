-------------------------------- MODULE Bus --------------------------------
(***************************************************************************)
(* The message bus between controller, assembler and storage: one ring for *)
(* each subscriber of each episode service.  A publication reaches every   *)
(* subscriber's ring in one step; how late a subscriber reads its ring is  *)
(* left to the interleaving.                                               *)
(***************************************************************************)
EXTENDS Messages

VARIABLE ring    \* the subscribers' rings, oldest sample first

(* One port per (subscriber, service) pair of the episode pipeline. *)
ControlPort == {"assembler.control", "storage.control"}
StoredPort == {"controller.stored", "assembler.stored"}
Port == ControlPort \cup StoredPort \cup
        {"controller.command", "controller.backpressure", "controller.dropped",
         "storage.ready"}

(* The ports a process reads. *)
ControllerPort == {"controller.command", "controller.backpressure", "controller.stored",
                   "controller.dropped"}
AssemblerPort == {"assembler.control", "assembler.stored"}
StoragePort == {"storage.control", "storage.ready"}

-----------------------------------------------------------------------------
BusInit == ring = [p \in Port |-> <<>>]

(* The rings r after `sample` was published to the subscribers at `ports`. *)
Publish(r, ports, sample) ==
  [p \in Port |-> IF p \in ports THEN Send(r[p], sample) ELSE r[p]]

Waiting(p) == ring[p] # <<>>

(* The rings r after subscriber.receive() at port p. *)
Receive(r, p) == [r EXCEPT ![p] = Tail(@)]

(* The rings r after the reader of `ports` is gone: what waits is lost. *)
Forget(r, ports) == [p \in Port |-> IF p \in ports THEN <<>> ELSE r[p]]
============================================================================
