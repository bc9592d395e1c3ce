------------------------- MODULE ProducerDaemonQueue -------------------------
(***************************************************************************)
(* What the producer daemon promises, without its buffers, lock or         *)
(* goroutines: one FIFO of the messages handed to Write and not yet taken  *)
(* by an output worker.  Messages join at the back; a worker takes a       *)
(* non-empty prefix; a contiguous run may be dropped (a marshaller error   *)
(* or a batch pushed into the closed channel), and is then recorded as     *)
(* lost; a worker's batch ends in the sink or is lost.  Nothing is         *)
(* duplicated, nothing reordered before it reaches a worker, and nothing   *)
(* disappears without being recorded.                                      *)
(***************************************************************************)
EXTENDS Naturals, Sequences

CONSTANTS
  Workers,   \* the output workers
  MaxMsgs    \* messages are 1..MaxMsgs, in the order they are handed over

VARIABLES
  next,      \* the next message to be handed over
  pending,   \* accepted, not yet taken by a worker, in formation order
  held,      \* per worker: the messages it is writing to the sink
  sunk,      \* accepted by the sink
  lost       \* dropped

qvars == <<next, pending, held, sunk, lost>>

(* Remove a non-empty contiguous run of s and record it as lost. *)
DropRun(s) ==
  \E i \in 1..Len(s), j \in 1..Len(s) :
    /\ i <= j
    /\ pending' = SubSeq(s, 1, i - 1) \o SubSeq(s, j + 1, Len(s))
    /\ lost' = lost \o SubSeq(s, i, j)

QInit ==
  /\ next = 1
  /\ pending = <<>>
  /\ held = [w \in Workers |-> <<>>]
  /\ sunk = <<>>
  /\ lost = <<>>

(* k new messages join the back; the same step may drop a run. *)
Accept ==
  \E k \in 1..MaxMsgs :
    /\ next + k <= MaxMsgs + 1
    /\ next' = next + k
    /\ LET s == pending \o [i \in 1..k |-> next + i - 1] IN
         \/ pending' = s /\ UNCHANGED lost
         \/ DropRun(s)
    /\ UNCHANGED <<held, sunk>>

Drop ==
  /\ DropRun(pending)
  /\ UNCHANGED <<next, held, sunk>>

Take(w) ==
  /\ held[w] = <<>>
  /\ \E n \in 1..Len(pending) :
       /\ held' = [held EXCEPT ![w] = SubSeq(pending, 1, n)]
       /\ pending' = SubSeq(pending, n + 1, Len(pending))
  /\ UNCHANGED <<next, sunk, lost>>

Finish(w) ==
  /\ held[w] # <<>>
  /\ \/ sunk' = sunk \o held[w] /\ UNCHANGED lost
     \/ lost' = lost \o held[w] /\ UNCHANGED sunk
  /\ held' = [held EXCEPT ![w] = <<>>]
  /\ UNCHANGED <<next, pending>>

QNext == Accept \/ Drop \/ \E w \in Workers : Take(w) \/ Finish(w)

QSpec == QInit /\ [][QNext]_qvars

=============================================================================
