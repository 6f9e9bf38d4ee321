--------------------------- MODULE RenoTableMap ---------------------------
(***************************************************************************)
(* RenoTable as an implementation of the map RenoMap: the map is what a    *)
(* search finds that nothing interrupts.                                   *)
(***************************************************************************)
EXTENDS RenoTable

(* The lines of the home bucket that a search for k gives way to, and the  *)
(* VALID lines of its group, each from the first to the last.              *)
PendingSlots(k) == {s \in Slots : /\ dline[<<Home[k], s>>].key = k
                                  /\ dline[<<Home[k], s>>].valid \in {UPSERT, DELETE}}

(* The value an uninterrupted search for k returns: the last pending line  *)
(* of the home bucket decides, else the first VALID line of the group.     *)
Lookup(k) ==
  LET pending == PendingSlots(k)
      valid   == SearchOld(k)
      line    == dline[<<Home[k], CHOOSE s \in pending : \A t \in pending : t <= s>>]
  IN  IF pending = {}
        THEN IF valid = NoLine THEN NoValue ELSE dline[valid].value
        ELSE IF line.valid = DELETE THEN NoValue ELSE line.value

(* server_search: one line of the home bucket, as the server's own loop    *)
(* reads it (it knows no RELOC, see ParseHome), then the VALID lines of    *)
(* the neighbours.                                                         *)
ServerLine(found, key, l) ==
  CASE l.key = key /\ l.valid = DELETE -> [found EXCEPT !.exist = DELETE]
    [] l.key = key /\ l.valid = UPSERT ->
         [found EXCEPT !.value = l.value, !.exist = UPSERT]
    [] l.key = key /\ l.valid = VALID /\ found.exist < VALID ->
         [found EXCEPT !.value = l.value, !.exist = VALID]
    [] OTHER -> found

ServerParse(key) ==
  LET found[n \in 0..LineNum] ==
        IF n = 0 THEN NoScan
                 ELSE ServerLine(found[n - 1], key, dline[<<Home[key], n - 1>>])
  IN  found[LineNum]

NeighbourHits(key) ==
  {l \in Lines : /\ l[1] \in (Home[key] + 1)..(Home[key] + BucketNum - 1)
                 /\ dline[l].key = key /\ dline[l].valid = VALID}

FirstOf(hits) == CHOOSE l \in hits : \A m \in hits : Precedes(l, m)

ServerSearch(key) ==
  LET home == ServerParse(key)
  IN  IF home.exist = DELETE THEN NoValue
      ELSE IF home.exist # 0 THEN home.value
      ELSE IF NeighbourHits(key) = {} THEN NoValue
      ELSE dline[FirstOf(NeighbourHits(key))].value

InFlight(c) ==
  IF pc[c] # "write" THEN <<>>
    ELSE <<req[c].key, IF req[c].valid = DELETE THEN NoValue ELSE req[c].value>>

Map == INSTANCE RenoMap WITH store <- [k \in Keys |-> Lookup(k)],
                             call  <- [c \in Clients |-> InFlight(c)],
                             failed <- {c \in Clients : pc[c] = "broken"}

(* With one client the table is a map: a granted write takes effect when   *)
(* it lands, it is lost only if its client fails first, and no step of     *)
(* deal_pending or relocate (api.cpp:279-471), each of which moves,        *)
(* retires and commits lines one at a time, changes what the table holds   *)
(* for any key.                                                            *)
ImplementsMap == Map!Spec

(* A key that has a line is found, wherever the server is in its pass:     *)
(* commit, copy and drop never leave a moment in which the reader, who     *)
(* sees the group line by line (api.cpp:496-549), passes both places.      *)
(* Not so for a reader that saw a pending DELETE: it may have passed the   *)
(* later UPSERT after the server committed it, when it no longer counts.   *)
SearchHits ==
  \A c \in Clients :
    pc[c] = "return" /\ Lookup(req[c].key) # NoValue
      => Answer(c) # NoValue \/ scan[c].exist = DELETE
===========================================================================
