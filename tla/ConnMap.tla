------------------------------- MODULE ConnMap -------------------------------
(***************************************************************************)
(* ConnMap of the UDPMan server (src/src/protocol/udpman/server.rs): the   *)
(* connections in a deque ordered by id, found by binary search, and the   *)
(* choice of the id of a new connection.  A Conn is [id, task]: its id and *)
(* the task that serves it.                                                *)
(***************************************************************************)
EXTENDS Integers, Sequences

CONSTANT MaxId      \* u16::MAX in the code

ASSUME MaxIdAssumption == MaxId \in Nat \ {0}

Ids == 0..MaxId
NoId == -1

\* The order that binary search, get, insert and remove rely on.
StrictlySorted(map) ==
    \A i, j \in 1..Len(map) : i < j => map[i].id < map[j].id

HasId(map, id) == \E i \in 1..Len(map) : map[i].id = id

\* binary_search_by_key: the index of the id, or where it would be inserted.
IndexOf(map, id) == CHOOSE i \in 1..Len(map) : map[i].id = id

InsertionPoint(map, id) ==
    CHOOSE p \in 1..Len(map) + 1 :
        /\ \A i \in 1..p - 1 : map[i].id < id
        /\ \A i \in p..Len(map) : id < map[i].id

InsertAtIndex(map, p, c) ==
    [i \in 1..Len(map) + 1 |->
        IF i < p THEN map[i] ELSE IF i = p THEN c ELSE map[i - 1]]

\* ConnMap::insert replaces the connection of the same id, if there is one.
Insert(map, c) ==
    IF HasId(map, c.id)
    THEN [map EXCEPT ![IndexOf(map, c.id)] = c]
    ELSE InsertAtIndex(map, InsertionPoint(map, c.id), c)

\* ConnMap::remove.
Remove(map, id) ==
    IF HasId(map, id)
    THEN LET p == IndexOf(map, id)
         IN  [i \in 1..Len(map) - 1 |-> IF i < p THEN map[i] ELSE map[i + 1]]
    ELSE map

\* ConnMap::get.
Get(map, id) == map[IndexOf(map, id)]

\* The id of the last connection, 0 when there is none (unwrap_or_default).
MaxKey(map) == IF map = <<>> THEN 0 ELSE map[Len(map)].id

\* The positions where the scan from the beginning finds an id other than the
\* one it expects.
Gaps(map) == {i \in 1..Len(map) : map[i].id # i - 1}

FirstGap(map) == CHOOSE i \in Gaps(map) : \A j \in Gaps(map) : i <= j

\* ConnMap::find_available_id: the id after the last one, and when that overflows
\* the first id the scan does not find.
FindAvailableId(map) ==
    IF MaxKey(map) < MaxId THEN MaxKey(map) + 1
    ELSE IF Gaps(map) = {} THEN NoId
    ELSE FirstGap(map) - 1

=============================================================================
