----------------------------- MODULE RenoMap -----------------------------
(***************************************************************************)
(* What the hash table promises its clients (storage.h: UPSERT is "similar *)
(* to SET in Memcached and Redis"): a map from keys to values.  A client   *)
(* whose call was accepted has it in flight; the call takes effect on the  *)
(* map in one step, the last of the call, and nothing else changes the     *)
(* map: tidying and relocating are invisible.  Only a client that fails    *)
(* loses the call it has in flight, and it never makes another.            *)
(***************************************************************************)
CONSTANTS
  Clients,   \* the callers
  Keys,      \* the keys of the map
  Values,    \* the values clients store
  NoValue    \* what the map holds for a key that is not in it

VARIABLES
  store,     \* the map
  call,      \* the accepted write each client has in flight, or none
  failed     \* the clients that have failed

vars == <<store, call, failed>>

NoCall == <<>>
Calls  == Keys \X (Values \cup {NoValue})    \* storing NoValue is a delete

Init ==
  /\ store = [k \in Keys |-> NoValue]
  /\ call  = [c \in Clients |-> NoCall]
  /\ failed = {}

Accept(c) ==
  /\ c \notin failed /\ call[c] = NoCall
  /\ \E w \in Calls : call' = [call EXCEPT ![c] = w]
  /\ UNCHANGED <<store, failed>>

Apply(c) ==
  /\ c \notin failed /\ call[c] # NoCall
  /\ call'  = [call EXCEPT ![c] = NoCall]
  /\ store' = [store EXCEPT ![call[c][1]] = call[c][2]]
  /\ UNCHANGED failed

Fail(c) ==
  /\ c \notin failed
  /\ failed' = failed \cup {c}
  /\ call' = [call EXCEPT ![c] = NoCall]
  /\ UNCHANGED store

Next == \E c \in Clients : Accept(c) \/ Apply(c) \/ Fail(c)

Spec == Init /\ [][Next]_vars
===========================================================================
