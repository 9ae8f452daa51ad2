--------------------------- MODULE DocumentLedger ---------------------------
(* What the seeder promises for each generated document, without channels,    *)
(* workers, attempts or counters: a document goes one way through its stages, *)
(* in the order of generation as far as the channel, and ends in one outcome  *)
(* that the phase of the shutdown allows.                                     *)
EXTENDS Naturals

CONSTANTS Cores,    \* the cores written to
          MaxDocs   \* bound of the model: no core generates more documents

VARIABLES phase,    \* where the shutdown is
          stage     \* stage[c][d]: where document d of core c is

vars == <<phase, stage>>

Doc    == 1..MaxDocs
Stages == {"none", "batched", "queued", "sending", "sent", "failed", "canceled", "dropped"}

At(c, s) == {d \in Doc : stage[c][d] = s}

Init == /\ phase = "running"
        /\ stage = [c \in Cores |-> [d \in Doc |-> "none"]]

(* The documents D of core c, all at stage "from", go to stage "to" together. *)
Move(c, D, from, to) ==
    /\ D # {} /\ D \subseteq At(c, from)
    /\ stage' = [stage EXCEPT ![c] = [d \in Doc |-> IF d \in D THEN to ELSE @[d]]]
    /\ UNCHANGED phase

Producing == phase \in {"running", "stopping"}
Working   == phase # "finished"

(* The next document is the first one that does not exist yet. *)
Generate(c) ==
    /\ Producing
    /\ \E d \in Doc : /\ \A e \in At(c, "none") : d <= e
                      /\ Move(c, {d}, "none", "batched")

Enqueue(c) == Producing /\ Move(c, At(c, "batched"), "batched", "queued")

(* Documents are given up unsent by the shutdown only. *)
Drop(c) == phase = "stopping" /\ Move(c, At(c, "batched"), "batched", "dropped")

(* A worker takes the oldest documents of the channel. *)
Take(c) ==
    /\ Working
    /\ \E last \in At(c, "queued") :
          Move(c, {d \in At(c, "queued") : d <= last}, "queued", "sending")

(* A batch ends; cancellation is what the shutdown timeout does, and after it *)
(* nothing is judged a failure.                                               *)
Conclude(c, outcome) ==
    /\ \/ outcome = "sent" /\ Working
       \/ outcome = "failed" /\ Working /\ phase # "forcing"
       \/ outcome = "canceled" /\ phase = "forcing"
    /\ \E first, last \in At(c, "sending") :
          Move(c, {d \in At(c, "sending") : first <= d /\ d <= last}, "sending", outcome)

Stop == phase = "running" /\ phase' = "stopping" /\ UNCHANGED stage

Drain == /\ phase = "stopping"
         /\ \A c \in Cores : At(c, "batched") = {}
         /\ phase' = "draining"
         /\ UNCHANGED stage

Force == phase = "draining" /\ phase' = "forcing" /\ UNCHANGED stage

Finish == /\ phase \in {"draining", "forcing"}
          /\ \A c \in Cores : At(c, "sending") = {}
          /\ phase = "draining" => \A c \in Cores : At(c, "queued") = {}
          /\ phase' = "finished"
          /\ UNCHANGED stage

Next == \/ \E c \in Cores :
             \/ Generate(c) \/ Enqueue(c) \/ Drop(c) \/ Take(c)
             \/ \E outcome \in {"sent", "failed", "canceled"} : Conclude(c, outcome)
        \/ Stop \/ Drain \/ Force \/ Finish

Spec == Init /\ [][Next]_vars
=============================================================================
