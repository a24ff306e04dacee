---------------------------- MODULE PodDirectory ----------------------------
(***************************************************************************)
(* What readers of the pod cache may rely on, whatever the cluster, the    *)
(* watch and the informer do: a lookup finds a pod that has, or has had,   *)
(* the address.  It may miss at any time.  PodCache implements this, and   *)
(* Connections reads it.                                                   *)
(***************************************************************************)
CONSTANTS
  Pods,     \* names of pods in the namespace that is watched
  IPs,      \* addresses
  Nobody    \* a lookup that misses

ASSUME NobodyAssumption == Nobody \notin Pods

VARIABLES
  cache,   \* cache[i]: the pod a lookup of i finds
  held     \* history: which pod has had which address

directoryVars == <<cache, held>>

\* Each lookup is one read under the lock, of the map as it is then.
LookupEnriched(i) == cache[i]

DirectoryInit ==
  /\ cache = [i \in IPs |-> Nobody]
  /\ held \in SUBSET (Pods \X IPs)

\* A pod gets an address.
Gain(p, i) ==
  /\ held' = held \cup {<<p, i>>}
  /\ UNCHANGED cache

Learn(p, i) ==
  /\ <<p, i>> \in held
  /\ cache' = [cache EXCEPT ![i] = p]
  /\ UNCHANGED held

Forget(i) ==
  /\ cache' = [cache EXCEPT ![i] = Nobody]
  /\ UNCHANGED held

DirectoryNext ==
  \E i \in IPs : Forget(i) \/ \E p \in Pods : Gain(p, i) \/ Learn(p, i)

DirectorySpec == DirectoryInit /\ [][DirectoryNext]_directoryVars

=============================================================================
