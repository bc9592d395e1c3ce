----------------------- MODULE ProducerDaemonRegistry -----------------------
(***************************************************************************)
(* The package-level registry of producer daemons (src/unnamed/part_006,   *)
(* lines 24-25 and 56-103): ProvideProducerDaemon looks a name up in       *)
(* producerDaemons under producerDaemonLock and constructs the daemon on a *)
(* miss; NewProducerDaemon fails when the output cannot be created.        *)
(* ResetProducerDaemons empties the map.  A caller's call is split at the  *)
(* points where it reads and writes the map, so the lock is what keeps     *)
(* two callers from both constructing.                                     *)
(***************************************************************************)
EXTENDS Integers, FiniteSets

CONSTANTS
  Callers,      \* goroutines calling ProvideProducerDaemon
  Names,        \* daemon names
  MaxDaemons    \* bound: daemons constructed over the whole behaviour

ASSUME MaxDaemons \in Nat

Absent == 0                  \* no map entry
NilDaemon == -1              \* an entry holding a nil *ProducerDaemon
Daemons == 1..MaxDaemons     \* the daemons NewProducerDaemon returns
NoResult == [daemon |-> Absent, err |-> FALSE]

VARIABLES
  producerDaemons,  \* name -> entry
  lockHolder,       \* holder of producerDaemonLock, or "none"
  pc,               \* per caller: "idle", "lookup", "construct"
  arg,              \* per caller: the name it asked for
  result,           \* per caller: what its last call returned
  made,             \* daemons constructed so far
  issued            \* per name: non-nil daemons returned since the last reset

vars == <<producerDaemons, lockHolder, pc, arg, result, made, issued>>

Return(c, d, failed) ==
  /\ result' = [result EXCEPT ![c] = [daemon |-> d, err |-> failed]]
  /\ issued' = IF d > 0 /\ ~failed
               THEN [issued EXCEPT ![arg[c]] = @ \cup {d}] ELSE issued
  /\ pc' = [pc EXCEPT ![c] = "idle"]
  /\ lockHolder' = "none"

Init ==
  /\ producerDaemons = [n \in Names |-> Absent]
  /\ lockHolder = "none"
  /\ pc = [c \in Callers |-> "idle"]
  /\ arg = [c \in Callers |-> CHOOSE n \in Names : TRUE]
  /\ result = [c \in Callers |-> NoResult]
  /\ made = 0
  /\ issued = [n \in Names |-> {}]

(* Mutant: the call does not wait for producerDaemonLock. *)
ProvideNoLock(c) ==
  /\ pc[c] = "idle"
  /\ \E n \in Names : arg' = [arg EXCEPT ![c] = n]
  /\ pc' = [pc EXCEPT ![c] = "lookup"]
  /\ UNCHANGED <<producerDaemons, lockHolder, result, made, issued>>

(* ProvideProducerDaemon(name): producerDaemonLock.Lock(). *)
Provide(c) ==
  /\ pc[c] = "idle"
  /\ lockHolder = "none"
  /\ \E n \in Names : arg' = [arg EXCEPT ![c] = n]
  /\ lockHolder' = c
  /\ pc' = [pc EXCEPT ![c] = "lookup"]
  /\ UNCHANGED <<producerDaemons, result, made, issued>>

(* A hit returns the stored entry -- even a nil one -- with a nil error. *)
Lookup(c) ==
  /\ pc[c] = "lookup"
  /\ \/ /\ producerDaemons[arg[c]] # Absent
        /\ Return(c, producerDaemons[arg[c]], FALSE)
        /\ UNCHANGED <<producerDaemons, arg, made>>
     \/ /\ producerDaemons[arg[c]] = Absent
        /\ pc' = [pc EXCEPT ![c] = "construct"]
        /\ UNCHANGED <<producerDaemons, lockHolder, arg, result, made, issued>>

(* producerDaemons[name], err = NewProducerDaemon(...): the entry is     *)
(* written before err is checked, so a failure stores nil.               *)
Construct(c) ==
  /\ pc[c] = "construct"
  /\ \/ /\ made < MaxDaemons
        /\ made' = made + 1
        /\ producerDaemons' = [producerDaemons EXCEPT ![arg[c]] = made + 1]
        /\ Return(c, made + 1, FALSE)
     \/ /\ producerDaemons' = [producerDaemons EXCEPT ![arg[c]] = NilDaemon]
        /\ Return(c, NilDaemon, TRUE)
        /\ UNCHANGED made
  /\ UNCHANGED arg

(* ResetProducerDaemons, under producerDaemonLock. *)
Reset ==
  /\ lockHolder = "none"
  /\ producerDaemons' = [n \in Names |-> Absent]
  /\ issued' = [n \in Names |-> {}]
  /\ UNCHANGED <<lockHolder, pc, arg, result, made>>

Next ==
  \/ \E c \in Callers : Provide(c) \/ Lookup(c) \/ Construct(c)
  \/ Reset

Spec == Init /\ [][Next]_vars

-----------------------------------------------------------------------------
TypeOK ==
  /\ producerDaemons \in [Names -> {Absent, NilDaemon} \cup Daemons]
  /\ lockHolder \in Callers \cup {"none"}
  /\ pc \in [Callers -> {"idle", "lookup", "construct"}]
  /\ arg \in [Callers -> Names]
  /\ result \in [Callers -> [daemon : {Absent, NilDaemon} \cup Daemons,
                             err : BOOLEAN]]
  /\ made \in 0..MaxDaemons
  /\ issued \in [Names -> SUBSET Daemons]

(* Between two resets, every call that gets a daemon for a name gets the *)
(* same one, however the callers interleave: the lookup and the store of *)
(* a construction are never split by another caller's construction.     *)
OneDaemonPerName == \A n \in Names : Cardinality(issued[n]) <= 1

(* Spec, design notes: a lookup-or-create returns an instance -- a call  *)
(* that returns a nil error returns a daemon.                            *)
NilErrorMeansDaemon ==
  \A c \in Callers : ~result[c].err => result[c].daemon # NilDaemon

=============================================================================
