------------------------------ MODULE WorkPool -------------------------------
(***************************************************************************)
(* What the processes of RunPotentialParamsQueue promise together, with no *)
(* file, lock or buffer in sight: a pool of parameter sets from which each *)
(* process claims sets, runs the ones it claimed, each at most once, and   *)
(* records the ones it ran.  A claimed set never returns to the pool: what *)
(* a dead process had claimed, or had run and not recorded, is lost, and   *)
(* it may leave a record cut short that spoils one more.                   *)
(***************************************************************************)
EXTENDS FiniteSets

CONSTANTS Worker, Params

VARIABLES
  waiting,   \* in the pool
  claimed,   \* by process: claimed and not yet run
  ran,       \* by process: run and not yet recorded
  recorded,  \* recorded as done
  cut        \* whether a process died in the middle of a record

poolVars == <<waiting, claimed, ran, recorded, cut>>

PoolInit ==
  /\ waiting = Params
  /\ claimed = [w \in Worker |-> {}]
  /\ ran = [w \in Worker |-> {}]
  /\ recorded = {}
  /\ cut = FALSE

(* A process takes more work only when it has run all it claimed. *)
Claim(w) ==
  /\ claimed[w] = {}
  /\ \E S \in (SUBSET waiting) \ {{}} :
       /\ waiting' = waiting \ S
       /\ claimed' = [claimed EXCEPT ![w] = S]
  /\ UNCHANGED <<ran, recorded, cut>>

Run(w) ==
  \E p \in claimed[w] :
    /\ claimed' = [claimed EXCEPT ![w] = @ \ {p}]
    /\ ran' = [ran EXCEPT ![w] = @ \cup {p}]
    /\ UNCHANGED <<waiting, recorded, cut>>

(* A process records only when it has run all it claimed.  Behind a record that
   was cut short one of the sets cannot be read. *)
Record(w) ==
  /\ claimed[w] = {}
  /\ \E S \in (SUBSET ran[w]) \ {{}} :
       /\ \/ ~cut /\ recorded' = recorded \cup S
          \/ cut /\ \E p \in S : recorded' = recorded \cup (S \ {p})
       /\ ran' = [ran EXCEPT ![w] = @ \ S]
  /\ cut' = FALSE
  /\ UNCHANGED <<waiting, claimed>>

(* Only a process that was about to record can leave a record cut short. *)
Lose(w) ==
  /\ claimed' = [claimed EXCEPT ![w] = {}]
  /\ ran' = [ran EXCEPT ![w] = {}]
  /\ \/ cut' = cut
     \/ claimed[w] = {} /\ ran[w] # {} /\ cut' = TRUE
  /\ UNCHANGED <<waiting, recorded>>

PoolNext == \E w \in Worker : Claim(w) \/ Run(w) \/ Record(w) \/ Lose(w)

PoolSpec == PoolInit /\ [][PoolNext]_poolVars
==============================================================================
