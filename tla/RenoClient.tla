----------------------------- MODULE RenoClient -----------------------------
(***************************************************************************)
(* What RenoTable takes a client to be, towards the server's memory: each  *)
(* call begins with a read or a fetch-and-add, which either grants a slot  *)
(* or leaves the client as it was; a granted slot is written once, before  *)
(* the next call begins; a failed queue pair does nothing any more.        *)
(***************************************************************************)
EXTENDS Naturals

VARIABLES
  phase,    \* idle, write (a slot was granted), broken
  begun,    \* how many calls have begun
  landed    \* how many lines it has written

vars == <<phase, begun, landed>>

Init == phase = "idle" /\ begun = 0 /\ landed = 0

Begin ==
  /\ phase = "idle" /\ phase' \in {"idle", "write"}
  /\ begun' = begun + 1 /\ UNCHANGED landed

Land == phase = "write" /\ phase' = "idle" /\ landed' = landed + 1 /\ UNCHANGED begun

Fail == phase # "broken" /\ phase' = "broken" /\ UNCHANGED <<begun, landed>>

Next == Begin \/ Land \/ Fail

Spec == Init /\ [][Next]_vars
=============================================================================
