------------------------------ MODULE Registry ------------------------------
(***************************************************************************)
(* What the operator of a gateway with a database may rely on, restarts    *)
(* included: the key registry changes only by what the console asks for    *)
(* and by what requests do to the health of a key.  A restart may add a    *)
(* key of the config file that is missing; it replaces and loses nothing.  *)
(***************************************************************************)
EXTENDS KeyStore

CONSTANTS
  FileKeys,    \* keys of the config file
  Uploads      \* the records POST may store

VARIABLE reg   \* the registry: a store

Purpose(r) == <<r.provider, r.pool, r.model>>

Init == reg = EmptyStore

Upload(k, r) == reg' = Put(reg, k, r)

Remove(k) == k \in DOMAIN reg /\ reg' = Delete(reg, k)

(* Health and status of a key change, what it is for does not. *)
Assess(k) ==
  /\ k \in DOMAIN reg
  /\ DOMAIN reg' = DOMAIN reg
  /\ \A j \in DOMAIN reg \ {k} : reg'[j] = reg[j]
  /\ Purpose(reg'[k]) = Purpose(reg[k])

(* The only thing a restart does. *)
Seed(k) ==
  /\ k \in FileKeys \ DOMAIN reg
  /\ DOMAIN reg' = DOMAIN reg \cup {k}
  /\ \A j \in DOMAIN reg : reg'[j] = reg[j]

Next ==
  \E k \in Keys :
    \/ \E r \in Uploads : Upload(k, r)
    \/ Remove(k)
    \/ Assess(k)
    \/ Seed(k)

Spec == Init /\ [][Next]_reg

=============================================================================
