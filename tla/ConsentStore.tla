---------------------------- MODULE ConsentStore ----------------------------
(***************************************************************************)
(* The destinations the user has approved: the file, and the grants of the  *)
(* running process that remote turns are checked against                    *)
(* (internal/ai/consent.go). The file is written whole and only by calls    *)
(* that hold the mutex; memory follows when all of the write has succeeded. *)
(***************************************************************************)
EXTENDS Naturals

CONSTANTS
  Destinations,
  ConsentFaults     \* bound on failed calls, ends of the process, power losses and edits of the file

ASSUME ConsentBound == ConsentFaults \in Nat

VARIABLES
  stored,           \* the file as processes see it: its grants, and whether it can be used
  durable,          \* the file as of the last sync of its directory
  store,            \* "closed" (no process), "open", "unavailable" (loadErr)
  granted,          \* grants in memory
  mishaps           \* counter of the bound

consentVars == <<stored, durable, store, granted, mishaps>>

File(grants, ok) == [grants |-> grants, ok |-> ok]
Mishap == mishaps < ConsentFaults /\ mishaps' = mishaps + 1

Open_NoSync ==
  /\ store = "closed"
  /\ IF stored.ok THEN store' = "open" /\ granted' = stored.grants
     ELSE store' = "unavailable" /\ granted' = {}
  /\ UNCHANGED <<stored, durable, mishaps>>

(* OpenConsentStore: the directory is synced before the file is read, and a *)
(* file that is not valid makes the store unavailable.                      *)
Open ==
  /\ store = "closed"
  /\ durable' = stored
  /\ IF stored.ok THEN store' = "open" /\ granted' = stored.grants
     ELSE store' = "unavailable" /\ granted' = {}
  /\ UNCHANGED <<stored, mishaps>>

(* The directory, its sync or the read of the file fails.                   *)
OpenFails ==
  /\ store = "closed" /\ Mishap
  /\ durable' \in {durable, stored} /\ store' = "unavailable"
  /\ UNCHANGED <<stored, granted>>

(***************************************************************************)
(* Grant and GrantMany merge a batch with the grants in memory and persist  *)
(* the whole set (persistGrantsLocked).                                     *)
(***************************************************************************)
Merged(batch) == granted \cup batch
Persists(batch) == store = "open" /\ ~(batch \subseteq granted)

Grant(batch) ==
  /\ Persists(batch)
  /\ stored' = File(Merged(batch), TRUE) /\ durable' = stored' /\ granted' = Merged(batch)
  /\ UNCHANGED <<store, mishaps>>

(* An error before the rename; of the sync after it; or of the check of the *)
(* file, which may be readable for others.                                  *)
GrantFails(batch) ==
  /\ Persists(batch) /\ Mishap
  /\ \/ UNCHANGED <<stored, durable>>
     \/ stored' = File(Merged(batch), TRUE) /\ UNCHANGED durable
     \/ \E ok \in BOOLEAN : stored' = File(Merged(batch), ok) /\ durable' = stored'
  /\ UNCHANGED <<store, granted>>

(* The process ends; in a call, the rename may be done and not be synced.   *)
Dies ==
  /\ store # "closed" /\ Mishap
  /\ \/ UNCHANGED stored
     \/ \E batch \in SUBSET Destinations : Persists(batch) /\ stored' = File(Merged(batch), TRUE)
  /\ store' = "closed" /\ granted' = {}
  /\ UNCHANGED durable

PowerFails ==
  /\ Mishap
  /\ stored' \in {stored, durable} /\ durable' = stored'
  /\ store' = "closed" /\ granted' = {}

(* The user removes or spoils the file while no process runs.               *)
EditedByHand ==
  /\ store = "closed" /\ Mishap
  /\ stored' \in {File({}, TRUE), File({}, FALSE)} /\ durable' = stored'
  /\ UNCHANGED <<store, granted>>

ConsentInit ==
  /\ stored = File({}, TRUE) /\ durable = stored
  /\ store = "closed" /\ granted = {} /\ mishaps = 0

ConsentNext ==
  \/ Open \/ OpenFails \/ Dies \/ PowerFails \/ EditedByHand
  \/ \E batch \in SUBSET Destinations : Grant(batch) \/ GrantFails(batch)

ConsentSpec == ConsentInit /\ [][ConsentNext]_consentVars

(***************************************************************************)
(* Properties.                                                              *)
(***************************************************************************)
(* Every destination the process sends to is in the file, on the disk even  *)
(* if power is lost now: no turn goes out under a consent that a restart    *)
(* would not know. A store that is not open authorizes nothing.             *)
Backed ==
  /\ granted \subseteq stored.grants \cap durable.grants
  /\ granted # {} => store = "open"
=============================================================================
