------------------------------ MODULE VolumeLife ------------------------------
(***************************************************************************)
(* What the pool promises of its volumes, without threads, files or stops. *)
(* A volume is new; it may be offered, once; when it leaves the offer, or  *)
(* is given up before it was offered, it is spent and is never offered     *)
(* again.  A client is given one volume, and only a spent one: what it     *)
(* uses cannot be offered to anybody else, not even after a restart.       *)
(***************************************************************************)
CONSTANTS
  Volume,    \* the volumes
  NoVolume,  \* no volume
  Client     \* those who ask for one

VARIABLES
  offered,   \* the volumes that are, or after a restart would be, idle
  spent,     \* those that have been withdrawn or given up
  given      \* given[c]: the volume c was given

vars == <<offered, spent, given>>

Init ==
  /\ offered \subseteq Volume
  /\ spent = {}
  /\ given = [c \in Client |-> NoVolume]

Offer(v) ==
  /\ v \notin offered \cup spent
  /\ offered' = offered \cup {v}
  /\ UNCHANGED <<spent, given>>

\* Volumes go one by one, or, when the daemon stops, several at once.
Retire(S) ==
  /\ S \cap spent = {}
  /\ offered' = offered \ S
  /\ spent' = spent \cup S
  /\ UNCHANGED given

Give(c, v) ==
  /\ v \in spent
  /\ given[c] = NoVolume
  /\ given' = [given EXCEPT ![c] = v]
  /\ UNCHANGED <<offered, spent>>

Next ==
  \/ \E v \in Volume : Offer(v)
  \/ \E S \in SUBSET Volume : Retire(S)
  \/ \E c \in Client, v \in Volume : Give(c, v)

Spec == Init /\ [][Next]_vars
=============================================================================
