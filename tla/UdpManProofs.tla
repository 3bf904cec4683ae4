----------------------------- MODULE UdpManProofs -----------------------------
(***************************************************************************)
(* The UDPMan server, and UDPMan end to end, for any number of sockets,    *)
(* sessions, tasks, ids, payloads, losses and duplicates.                  *)
(*                                                                         *)
(* The map comes first, for every MaxId: for a map in strict order binary  *)
(* search positions exist and are unique, insert and remove keep the order *)
(* and touch no other connection, and the id that find_available_id picks  *)
(* is in range and nobody's, and exists unless every id is taken.  Then    *)
(* the server: its map and its tasks stay consistent in any order of       *)
(* messages, task steps, cancellations and deferred removals.              *)
(*                                                                         *)
(* End to end: a connection's task keeps the flow and the id it was        *)
(* started with and, once cancelled or ended, never lives again (Keeps).   *)
(* So "some connection was made for flow f under id i" (Owner) is stable;  *)
(* it holds of every Establish in the network, passes from there to the    *)
(* client that accepts it, since it compares the uuid, and to the Data the *)
(* client sends.  Data that reaches a connection of another flow therefore *)
(* names an id its own connection once had, and as the map holds at most   *)
(* one living task per id, that connection is gone.                        *)
(*                                                                         *)
(* The codec: to_writer puts the parts of a message in a row (Row), the    *)
(* first byte tells parse how long each is (OptRead, AddrRead, ReplyRead), *)
(* so it finds them where they were put.  A part of a message has the same *)
(* first bytes: parse misses a field of it, or finds them all (CutParsed). *)
(***************************************************************************)
EXTENDS UdpMan, SequenceTheorems, WellFoundedInduction, TLAPS

-----------------------------------------------------------------------------
(* The map.                                                                 *)

\* A Conn's id is a u16; what its task is does not matter here.
ConnMaps(T) == Seq([id : Ids, task : T])

\* A set of natural numbers that is not empty has a least element.
LEMMA LeastNatural ==
    ASSUME NEW T, T \subseteq Nat, T # {}
    PROVE  \E x \in T : \A y \in T : x <= y
<1> DEFINE R == OpToRel(<, Nat)
<1>1. IsWellFoundedOn(R, Nat)
  BY NatLessThanWellFounded
<1>2. \A x, y \in Nat : <<y, x>> \in R <=> y < x
  BY DEF OpToRel
<1> HIDE DEF R
<1>3. \E x \in T : \A y \in T : ~(<<y, x>> \in R)
  BY <1>1, WFMin
<1>4. PICK x \in T : \A y \in T : ~(<<y, x>> \in R)
  BY <1>3
<1>5. ASSUME NEW y \in T PROVE x <= y
  <2>1. x \in Nat /\ y \in Nat OBVIOUS
  <2>2. ~(y < x) BY <1>2, <1>4, <2>1
  <2> QED BY <2>1, <2>2
<1> QED BY <1>5

\* The elements of a map are connections and their ids numbers.
LEMMA MapElements ==
    ASSUME NEW T, NEW conns \in ConnMaps(T)
    PROVE  /\ Len(conns) \in Nat
           /\ \A i \in 1..Len(conns) : /\ conns[i] \in [id : Ids, task : T]
                                     /\ conns[i].id \in Ids
                                     /\ conns[i].id \in Int
                                     /\ conns[i].task \in T
<1>1. Len(conns) \in Nat /\ \A i \in 1..Len(conns) : conns[i] \in [id : Ids, task : T]
  <2> DEFINE S == [id : Ids, task : T]
  <2>1. conns \in Seq(S) BY DEF ConnMaps
  <2> HIDE DEF S
  <2>2. Len(conns) \in Nat /\ \A i \in 1..Len(conns) : conns[i] \in S BY <2>1
  <2> QED BY <2>2 DEF S
<1>2. \A r \in [id : Ids, task : T] : r.id \in Ids /\ r.task \in T
  OBVIOUS
<1>3. \A n \in Ids : n \in Int
  BY MaxIdAssumption DEF Ids
<1> QED BY <1>1, <1>2, <1>3

\* binary_search_by_key finds the connection of an id: there is one index for it.
LEMMA IndexOfIsIndex ==
    ASSUME NEW conns, NEW id, HasId(conns, id)
    PROVE  IndexOf(conns, id) \in 1..Len(conns) /\ conns[IndexOf(conns, id)].id = id
BY DEF HasId, IndexOf

\* In a sorted map no second index has the same id.
LEMMA IndexOfIsUnique ==
    ASSUME NEW T, NEW conns \in ConnMaps(T), StrictlySorted(conns), NEW id \in Ids,
           NEW i \in 1..Len(conns), conns[i].id = id
    PROVE  i = IndexOf(conns, id)
<1>1. /\ IndexOf(conns, id) \in 1..Len(conns) /\ conns[IndexOf(conns, id)].id = id
  BY IndexOfIsIndex DEF HasId
<1> DEFINE k == IndexOf(conns, id)
<1> HIDE DEF k
<1>2. ~(i < k) /\ ~(k < i)
  BY <1>1, MaxIdAssumption DEF StrictlySorted, ConnMaps, Ids, k
<1> QED BY <1>1, <1>2 DEF ConnMaps, k

\* Where the id is not in the map, the position binary search reports separates
\* the smaller ids from the larger ones.
LEMMA InsertionPointSeparates ==
    ASSUME NEW T, NEW conns \in ConnMaps(T), StrictlySorted(conns), NEW id \in Ids, ~HasId(conns, id)
    PROVE  /\ InsertionPoint(conns, id) \in 1..Len(conns) + 1
           /\ \A i \in 1..InsertionPoint(conns, id) - 1 : conns[i].id < id
           /\ \A i \in InsertionPoint(conns, id)..Len(conns) : id < conns[i].id
<1> DEFINE larger == {i \in 1..Len(conns) : id < conns[i].id}
           Separates(p) == /\ \A i \in 1..p - 1 : conns[i].id < id
                           /\ \A i \in p..Len(conns) : id < conns[i].id
<1>1. /\ Len(conns) \in Nat
      /\ \A i \in 1..Len(conns) : conns[i].id \in Int /\ conns[i].id # id
      /\ id \in Int
  <2>1. id \in Int BY MaxIdAssumption DEF Ids
  <2> QED BY <2>1, MapElements DEF HasId
<1>2. \E p \in 1..Len(conns) + 1 : Separates(p)
  <2>1. CASE larger = {}
    <3>1. Separates(Len(conns) + 1) BY <1>1, <2>1
    <3>2. Len(conns) + 1 \in 1..Len(conns) + 1 BY <1>1
    <3> HIDE DEF Separates
    <3> QED BY <3>1, <3>2
  <2>2. CASE larger # {}
    <3>1. larger \subseteq Nat BY <1>1
    <3> HIDE DEF larger
    <3>2. PICK p \in larger : \A y \in larger : p <= y
      BY <2>2, <3>1, LeastNatural
    <3> USE DEF larger
    <3>3. p \in 1..Len(conns) + 1 BY <1>1
    <3>4. \A i \in 1..p - 1 : conns[i].id < id BY <1>1, <3>2
    <3>5. \A i \in p..Len(conns) : id < conns[i].id
      BY <1>1 DEF StrictlySorted
    <3> QED BY <3>3, <3>4, <3>5
  <2> QED BY <2>1, <2>2
<1> HIDE DEF larger
<1> QED BY <1>2 DEF InsertionPoint

\* new is map, still in order, with all its connections and c.
GainsConn(conns, c, new) ==
    /\ StrictlySorted(new)
    /\ \A i \in 1..Len(conns) : \E j \in 1..Len(new) : new[j] = conns[i]
    /\ \E j \in 1..Len(new) : new[j] = c
    /\ \A j \in 1..Len(new) : new[j] = c \/ \E i \in 1..Len(conns) : new[j] = conns[i]

\* ConnMap::insert of a connection with a new id keeps the order and every other
\* connection, and adds exactly the new one.
LEMMA InsertNew ==
    ASSUME NEW T, NEW conns \in ConnMaps(T), StrictlySorted(conns),
           NEW c \in [id : Ids, task : T], ~HasId(conns, c.id)
    PROVE  Insert(conns, c) \in ConnMaps(T) /\ GainsConn(conns, c, Insert(conns, c))
<1> DEFINE p == InsertionPoint(conns, c.id)
           new == InsertAtIndex(conns, p, c)
<1>1. Insert(conns, c) = new
  BY DEF Insert
<1>2. /\ p \in 1..Len(conns) + 1
      /\ \A i \in 1..p - 1 : conns[i].id < c.id
      /\ \A i \in p..Len(conns) : c.id < conns[i].id
  BY InsertionPointSeparates
<1> HIDE DEF p
<1>3. Len(conns) \in Nat /\ \A i \in 1..Len(conns) : conns[i] \in [id : Ids, task : T] /\ conns[i].id \in Int
  BY MapElements
<1>4. new = [i \in 1..Len(conns) + 1 |-> IF i < p THEN conns[i] ELSE IF i = p THEN c ELSE conns[i - 1]]
  BY DEF InsertAtIndex
<1> HIDE DEF new
<1>5. \A i \in 1..Len(conns) + 1 : new[i] \in [id : Ids, task : T]
  BY <1>2, <1>3, <1>4
<1>6. new \in ConnMaps(T) /\ Len(new) = Len(conns) + 1
  BY <1>3, <1>4, <1>5 DEF ConnMaps
<1>7. StrictlySorted(new)
  <2> SUFFICES ASSUME NEW i \in 1..Len(conns) + 1, NEW j \in 1..Len(conns) + 1, i < j
               PROVE  new[i].id < new[j].id
    BY <1>6 DEF StrictlySorted
  <2>1. CASE j < p
    BY SMTT(60), <1>2, <1>3, <1>4, <2>1 DEF StrictlySorted
  <2>2. CASE j = p
    BY <1>2, <1>3, <1>4, <2>2
  <2>3. CASE p < j /\ i < p
    <3>1. new[i] = conns[i] /\ new[j] = conns[j - 1] BY <1>2, <1>3, <1>4, <2>3
    <3>2. conns[i].id < c.id /\ c.id < conns[j - 1].id BY <1>2, <1>3, <2>3
    <3>3. conns[i].id \in Int /\ conns[j - 1].id \in Int BY <1>2, <1>3, <2>3
    <3>4. c.id \in Int BY MaxIdAssumption DEF Ids
    <3> QED BY <3>1, <3>2, <3>3, <3>4
  <2>4. CASE i = p
    BY <1>2, <1>3, <1>4, <2>4
  <2>5. CASE p < i
    <3>1. new[i] = conns[i - 1] /\ new[j] = conns[j - 1] BY <1>2, <1>3, <1>4, <2>5
    <3>2. i - 1 \in 1..Len(conns) /\ j - 1 \in 1..Len(conns) /\ i - 1 < j - 1 BY <1>2, <1>3, <2>5
    <3> QED BY <3>1, <3>2 DEF StrictlySorted
  <2> QED BY <1>2, <1>3, <2>1, <2>2, <2>3, <2>4, <2>5
<1>8. \A i \in 1..Len(conns) : \E j \in 1..Len(new) : new[j] = conns[i]
  <2> TAKE i \in 1..Len(conns)
  <2>1. CASE i < p
    BY <1>3, <1>4, <1>6, <2>1
  <2>2. CASE p <= i
    <3>1. i + 1 \in 1..Len(new) /\ new[i + 1] = conns[i] BY <1>2, <1>3, <1>4, <1>6, <2>2
    <3> QED BY <3>1
  <2> QED BY <1>2, <1>3, <2>1, <2>2
<1>9. p \in 1..Len(new) /\ new[p] = c
  BY <1>2, <1>3, <1>4, <1>6
<1>10. \A j \in 1..Len(new) : new[j] = c \/ \E i \in 1..Len(conns) : new[j] = conns[i]
  <2> TAKE j \in 1..Len(new)
  <2>1. CASE j < p
    BY <1>2, <1>3, <1>4, <1>6, <2>1
  <2>2. CASE j = p
    BY <1>9, <2>2
  <2>3. CASE p < j
    <3>1. j - 1 \in 1..Len(conns) /\ new[j] = conns[j - 1] BY <1>2, <1>3, <1>4, <1>6, <2>3
    <3> QED BY <3>1
  <2> QED BY <1>2, <1>3, <1>6, <2>1, <2>2, <2>3
<1> QED BY <1>1, <1>6, <1>7, <1>8, <1>9, <1>10 DEF GainsConn

\* new is map, still in order, without the connection of the id.
LosesId(conns, id, new) ==
    /\ StrictlySorted(new)
    /\ \A j \in 1..Len(new) : new[j].id # id /\ \E i \in 1..Len(conns) : new[j] = conns[i]
    /\ \A i \in 1..Len(conns) : conns[i].id # id => \E j \in 1..Len(new) : new[j] = conns[i]

\* ConnMap::remove takes out the connection of the id and nothing else, and keeps
\* the order.
LEMMA RemoveOne ==
    ASSUME NEW T, NEW conns \in ConnMaps(T), StrictlySorted(conns), NEW id \in Ids
    PROVE  Remove(conns, id) \in ConnMaps(T) /\ LosesId(conns, id, Remove(conns, id))
<1>1. CASE ~HasId(conns, id)
  <2>1. Remove(conns, id) = conns BY <1>1 DEF Remove
  <2> QED BY <1>1, <2>1 DEF HasId, LosesId
<1>2. CASE HasId(conns, id)
  <2> DEFINE p == IndexOf(conns, id)
             new == [i \in 1..Len(conns) - 1 |-> IF i < p THEN conns[i] ELSE conns[i + 1]]
  <2>1. Remove(conns, id) = new
    BY <1>2 DEF Remove
  <2>2. p \in 1..Len(conns) /\ conns[p].id = id
    BY <1>2, IndexOfIsIndex
  <2>3. \A i \in 1..Len(conns) : i # p => conns[i].id # id
    BY IndexOfIsUnique
  <2> HIDE DEF p
  <2>4. Len(conns) \in Nat /\ \A i \in 1..Len(conns) : conns[i] \in [id : Ids, task : T]
    BY MapElements
  <2>5. Len(conns) - 1 \in Nat /\ \A i \in 1..Len(conns) - 1 : new[i] \in [id : Ids, task : T]
    BY <2>2, <2>4
  <2>6. new \in ConnMaps(T) /\ Len(new) = Len(conns) - 1
    BY <2>5 DEF ConnMaps
  <2>7. \A i \in 1..Len(conns) - 1 : new[i] = IF i < p THEN conns[i] ELSE conns[i + 1]
    OBVIOUS
  <2> HIDE DEF new
  <2>8. StrictlySorted(new)
    <3> SUFFICES ASSUME NEW i \in 1..Len(conns) - 1, NEW j \in 1..Len(conns) - 1, i < j
                 PROVE  new[i].id < new[j].id
      BY <2>6 DEF StrictlySorted
    <3> DEFINE from(k) == IF k < p THEN k ELSE k + 1
    <3>1. new[i] = conns[from(i)] /\ new[j] = conns[from(j)] BY <2>7
    <3>2. from(i) \in 1..Len(conns) /\ from(j) \in 1..Len(conns) /\ from(i) < from(j)
      BY <2>2, <2>4
    <3> HIDE DEF from
    <3> QED BY <3>1, <3>2 DEF StrictlySorted
  <2>9. ASSUME NEW j \in 1..Len(new)
        PROVE  new[j].id # id /\ \E i \in 1..Len(conns) : new[j] = conns[i]
    <3>1. CASE j < p
      <4>1. j \in 1..Len(conns) /\ j # p /\ new[j] = conns[j] BY <2>2, <2>4, <2>6, <2>7, <3>1
      <4> QED BY <2>3, <4>1
    <3>2. CASE p <= j
      <4>1. j + 1 \in 1..Len(conns) /\ j + 1 # p /\ new[j] = conns[j + 1]
        BY <2>2, <2>4, <2>6, <2>7, <3>2
      <4> QED BY <2>3, <4>1
    <3> QED BY <2>2, <2>6, <3>1, <3>2
  <2>10. ASSUME NEW i \in 1..Len(conns), conns[i].id # id
         PROVE  \E j \in 1..Len(new) : new[j] = conns[i]
    <3>1. CASE i < p
      <4>1. i \in 1..Len(new) /\ new[i] = conns[i] BY <2>2, <2>4, <2>6, <2>7, <3>1
      <4> QED BY <4>1
    <3>2. CASE p < i
      <4>1. i - 1 \in 1..Len(new) /\ new[i - 1] = conns[i] BY <2>2, <2>4, <2>6, <2>7, <3>2
      <4> QED BY <4>1
    <3> QED BY <2>2, <2>10, <3>1, <3>2
  <2> QED BY <2>1, <2>6, <2>8, <2>9, <2>10 DEF LosesId
<1> QED BY <1>1, <1>2

\* find_available_id: the id is in range and nobody's, and there is none only
\* when every id is taken.
LEMMA AvailableIdIsFree ==
    ASSUME NEW T, NEW conns \in ConnMaps(T), StrictlySorted(conns)
    PROVE  /\ FindAvailableId(conns) # NoId => /\ FindAvailableId(conns) \in Ids
                                             /\ ~HasId(conns, FindAvailableId(conns))
           /\ FindAvailableId(conns) = NoId => \A id \in Ids : HasId(conns, id)
<1>1. /\ Len(conns) \in Nat
      /\ \A i \in 1..Len(conns) : conns[i].id \in Int /\ conns[i].id \in 0..MaxId
      /\ MaxId \in Nat /\ MaxId > 0
  BY MapElements, MaxIdAssumption DEF Ids
<1>2. MaxKey(conns) \in 0..MaxId /\ \A i \in 1..Len(conns) : conns[i].id <= MaxKey(conns)
  <2>1. CASE conns = <<>>
    BY <1>1, <2>1 DEF MaxKey
  <2>2. CASE conns # <<>>
    <3>1. Len(conns) \in 1..Len(conns) /\ MaxKey(conns) = conns[Len(conns)].id
      BY <1>1, <2>2 DEF MaxKey, ConnMaps
    <3>2. \A i \in 1..Len(conns) : i < Len(conns) => conns[i].id < conns[Len(conns)].id
      BY <3>1 DEF StrictlySorted
    <3> QED BY <1>1, <3>1, <3>2
  <2> QED BY <2>1, <2>2
<1>3. CASE MaxKey(conns) < MaxId
  <2>1. FindAvailableId(conns) = MaxKey(conns) + 1 BY <1>3 DEF FindAvailableId
  <2> QED BY <1>1, <1>2, <1>3, <2>1 DEF HasId, NoId, Ids
<1>4. CASE ~(MaxKey(conns) < MaxId) /\ Gaps(conns) = {}
  <2>1. FindAvailableId(conns) = NoId BY <1>4 DEF FindAvailableId
  <2>2. \A i \in 1..Len(conns) : conns[i].id = i - 1 BY <1>4 DEF Gaps
  <2>3. conns # <<>> /\ Len(conns) > 0
    <3>1. conns # <<>> BY <1>1, <1>4 DEF MaxKey
    <3> QED BY <1>1, <3>1 DEF ConnMaps
  <2>4. Len(conns) - 1 = MaxId
    <3>1. MaxKey(conns) = conns[Len(conns)].id BY <2>3 DEF MaxKey
    <3>2. conns[Len(conns)].id = Len(conns) - 1 BY <1>1, <2>2, <2>3
    <3> QED BY <1>1, <1>2, <1>4, <3>1, <3>2
  <2>5. \A id \in Ids : id + 1 \in 1..Len(conns) /\ conns[id + 1].id = id
    BY <1>1, <2>2, <2>4 DEF Ids
  <2> QED BY <2>1, <2>5 DEF HasId
<1>5. CASE ~(MaxKey(conns) < MaxId) /\ Gaps(conns) # {}
  <2> DEFINE p == FirstGap(conns)
  <2>1. FindAvailableId(conns) = p - 1 BY <1>5 DEF FindAvailableId
  <2>2. p \in Gaps(conns) /\ \A j \in Gaps(conns) : p <= j
    <3>1. Gaps(conns) \subseteq Nat BY <1>1 DEF Gaps
    <3>2. \E i \in Gaps(conns) : \A j \in Gaps(conns) : i <= j BY <1>5, <3>1, LeastNatural
    <3> QED BY <3>2 DEF FirstGap
  <2> HIDE DEF p
  <2>3. p \in 1..Len(conns) /\ conns[p].id # p - 1 BY <2>2 DEF Gaps
  <2>4. \A i \in 1..Len(conns) : i < p => conns[i].id = i - 1 BY <1>1, <2>2, <2>3 DEF Gaps
  <2>5. conns[p].id > p - 1
    <3>1. CASE p = 1
      BY <1>1, <2>3, <3>1
    <3>2. CASE p > 1
      <4>1. p - 1 \in 1..Len(conns) /\ conns[p - 1].id = p - 2 BY <1>1, <2>3, <2>4, <3>2
      <4>2. conns[p - 1].id < conns[p].id BY <1>1, <2>3, <4>1 DEF StrictlySorted
      <4> QED BY <1>1, <2>3, <4>1, <4>2
    <3> QED BY <1>1, <2>3, <3>1, <3>2
  <2>6. ASSUME NEW i \in 1..Len(conns) PROVE conns[i].id # p - 1
    <3>1. CASE i < p
      BY <1>1, <2>3, <2>4, <3>1
    <3>2. CASE i = p
      BY <2>3, <3>2
    <3>3. CASE p < i
      <4>1. conns[p].id < conns[i].id BY <2>3, <3>3 DEF StrictlySorted
      <4> QED BY <1>1, <2>3, <2>5, <4>1
    <3> QED BY <1>1, <2>3, <3>1, <3>2, <3>3
  <2>7. p - 1 \in Ids /\ p - 1 # NoId BY <1>1, <2>3, <2>5 DEF Ids, NoId
  <2> QED BY <2>1, <2>6, <2>7 DEF HasId
<1> QED BY <1>1, <1>2, <1>3, <1>4, <1>5

-----------------------------------------------------------------------------
(* The server's invariant.                                                  *)

\* When serve has returned, the map is gone.
StoppedIsEmpty == ~up => map = <<>>

SInv ==
    /\ ServerTypeOK
    /\ MapSorted
    /\ MapHoldsAlive
    /\ StoppedIsEmpty

-----------------------------------------------------------------------------
(* Facts about one state.                                                   *)

\* The server's map is a ConnMap over its tasks.
LEMMA MapTyped == ASSUME ServerTypeOK PROVE map \in ConnMaps(Tasks)
BY DEF ServerTypeOK, ConnMaps

\* The holder of an id is the connection at the only index with that id.
LEMMA HolderAt ==
    ASSUME ServerTypeOK, MapSorted, NEW id \in Ids, NEW i \in 1..Len(map), map[i].id = id
    PROVE  HasId(map, id) /\ Get(map, id) = map[i]
<1>1. HasId(map, id) BY DEF HasId
<1>2. i = IndexOf(map, id) BY MapTyped, IndexOfIsUnique DEF MapSorted
<1> QED BY <1>1, <1>2 DEF Get

\* The holder of an id in the map is a task.
LEMMA HolderTyped ==
    ASSUME ServerTypeOK, NEW id \in Ids, HasId(map, id)
    PROVE  /\ Get(map, id).task \in Tasks
           /\ \E i \in 1..Len(map) : map[i] = Get(map, id) /\ map[i].id = id
<1>1. IndexOf(map, id) \in 1..Len(map) /\ map[IndexOf(map, id)].id = id BY IndexOfIsIndex
<1>2. \A i \in 1..Len(map) : map[i].task \in Tasks BY MapTyped, MapElements
<1> QED BY <1>1, <1>2 DEF Get

\* Cancelling the holder of an id changes nothing but its cancelled flag.
LEMMA CancelHolderIs ==
    ASSUME ServerTypeOK, NEW id \in Ids, NEW t \in Tasks
    PROVE  /\ CancelHolder(id) \in [Tasks -> TaskState]
           /\ CancelHolder(id)[t].id = task[t].id
           /\ CancelHolder(id)[t].phase = task[t].phase
           /\ CancelHolder(id)[t].queue = task[t].queue
           /\ CancelHolder(id)[t].cancelled
                <=> (task[t].cancelled \/ (HasId(map, id) /\ Get(map, id).task = t))
<1> DEFINE C(u) == HasId(map, id) /\ Get(map, id).task = u
<1>1. \A u \in Tasks : task[u] \in TaskState
  BY DEF ServerTypeOK
<1>2. \A u \in Tasks : CancelHolder(id)[u] = IF C(u) THEN [task[u] EXCEPT !.cancelled = TRUE] ELSE task[u]
  BY DEF CancelHolder
<1> HIDE DEF C
<1>3. \A u \in Tasks : CancelHolder(id)[u] \in TaskState
  BY <1>1, <1>2 DEF TaskState
<1>4. CancelHolder(id) \in [Tasks -> TaskState]
  BY <1>3 DEF CancelHolder
<1>5. CASE C(t)
  <2>1. CancelHolder(id)[t] = [task[t] EXCEPT !.cancelled = TRUE] BY <1>2, <1>5
  <2>2. /\ CancelHolder(id)[t].id = task[t].id
        /\ CancelHolder(id)[t].phase = task[t].phase
        /\ CancelHolder(id)[t].queue = task[t].queue
        /\ CancelHolder(id)[t].cancelled = TRUE
    BY <1>1, <2>1 DEF TaskState
  <2> QED BY <1>4, <1>5, <2>2 DEF C
<1>6. CASE ~C(t)
  BY <1>2, <1>4, <1>6 DEF C
<1> QED BY <1>5, <1>6

-----------------------------------------------------------------------------
(* The three ways a step changes the map.                                   *)

MapInv == MapSorted /\ MapHoldsAlive /\ StoppedIsEmpty

\* A step that leaves the map alone and neither starts, ends nor cancels a task
\* that is alive.
LEMMA KeepsMap ==
    ASSUME SInv, UNCHANGED <<up, map>>,
           \A t \in Tasks : task'[t].id = task[t].id /\ (Alive(t)' <=> Alive(t))
    PROVE  MapInv'
<1>1. \A i \in 1..Len(map) : map[i].task \in Tasks
  BY MapTyped, MapElements DEF SInv
<1>2. MapSorted' /\ StoppedIsEmpty'
  BY DEF SInv, MapSorted, StoppedIsEmpty, StrictlySorted
<1>3. MapHoldsAlive'
  BY <1>1 DEF SInv, MapHoldsAlive, InMap
<1> QED BY <1>2, <1>3 DEF MapInv

\* A step that removes an id from the map and cancels or ends its holder.
LEMMA RemovesId ==
    ASSUME SInv, UNCHANGED up, NEW id \in Ids, map' = Remove(map, id),
           \A t \in Tasks :
             /\ task'[t].id = task[t].id
             /\ Alive(t)' <=> (Alive(t) /\ ~(HasId(map, id) /\ Get(map, id).task = t))
    PROVE  MapInv'
<1>1. /\ map \in ConnMaps(Tasks) /\ StrictlySorted(map)
      /\ ServerTypeOK /\ MapSorted /\ MapHoldsAlive
  BY MapTyped DEF SInv, MapSorted
<1>2. \A i \in 1..Len(map) : map[i].task \in Tasks
  BY <1>1, MapElements
<1>3. /\ StrictlySorted(map')
      /\ \A j \in 1..Len(map') : map'[j].id # id /\ \E i \in 1..Len(map) : map'[j] = map[i]
      /\ \A i \in 1..Len(map) : map[i].id # id => \E j \in 1..Len(map') : map'[j] = map[i]
  <2>1. LosesId(map, id, Remove(map, id)) BY <1>1, RemoveOne
  <2>2. LosesId(map, id, map') BY <2>1
  <2> QED BY <2>2 DEF LosesId
<1>4. MapSorted'
  BY <1>3 DEF MapSorted, StrictlySorted
<1>5. StoppedIsEmpty'
  <2> SUFFICES ASSUME ~up PROVE map' = <<>>
    BY DEF StoppedIsEmpty
  <2>1. map = <<>> BY DEF SInv, StoppedIsEmpty
  <2>2. ~HasId(map, id) BY <2>1 DEF HasId
  <2> QED BY <2>1, <2>2 DEF Remove
<1>6. ASSUME NEW j \in 1..Len(map')
      PROVE  (Alive(map[j].task) /\ task[map[j].task].id = map[j].id)'
  <2>1. PICK i \in 1..Len(map) : map'[j] = map[i] /\ map[i].id # id
    BY <1>3
  <2>2. Alive(map[i].task) /\ task[map[i].task].id = map[i].id /\ map[i].task \in Tasks
    BY <1>1, <1>2 DEF MapHoldsAlive
  <2>3. ~(HasId(map, id) /\ Get(map, id).task = map[i].task)
    <3> SUFFICES ASSUME HasId(map, id), Get(map, id).task = map[i].task PROVE FALSE
      OBVIOUS
    <3>1. PICK k \in 1..Len(map) : map[k] = Get(map, id) /\ map[k].id = id
      BY <1>1, HolderTyped
    <3>2. task[map[k].task].id = id BY <1>1, <3>1 DEF MapHoldsAlive
    <3> QED BY <2>1, <2>2, <3>1, <3>2
  <2> QED BY <2>1, <2>2, <2>3
<1>7. ASSUME NEW t \in Tasks, Alive(t)'
      PROVE  InMap(t)'
  <2>1. Alive(t) /\ ~(HasId(map, id) /\ Get(map, id).task = t) BY <1>7
  <2>2. PICK i \in 1..Len(map) : map[i].task = t BY <1>1, <2>1 DEF MapHoldsAlive, InMap
  <2>3. map[i].id # id
    <3> SUFFICES ASSUME map[i].id = id PROVE FALSE
      OBVIOUS
    <3>1. HasId(map, id) /\ Get(map, id) = map[i] BY <1>1, HolderAt
    <3> QED BY <2>1, <2>2, <3>1
  <2>4. \E j \in 1..Len(map') : map'[j] = map[i] BY <1>3, <2>3
  <2> QED BY <2>2, <2>4 DEF InMap
<1>8. MapHoldsAlive'
  BY <1>6, <1>7 DEF MapHoldsAlive
<1> QED BY <1>4, <1>5, <1>8 DEF MapInv

\* A step that inserts a connection under a free id and starts its task.
LEMMA InsertsConn ==
    ASSUME SInv, up, UNCHANGED up, NEW t \in Tasks, ~Alive(t), NEW id \in Ids, ~HasId(map, id),
           map' = Insert(map, [id |-> id, task |-> t]),
           task'[t].id = id, Alive(t)',
           \A u \in Tasks \ {t} : task'[u].id = task[u].id /\ (Alive(u)' <=> Alive(u))
    PROVE  MapInv' /\ \A i \in 1..Len(map) : \E j \in 1..Len(map') : map'[j] = map[i]
<1> DEFINE c == [id |-> id, task |-> t]
<1>1. /\ map \in ConnMaps(Tasks) /\ StrictlySorted(map) /\ MapHoldsAlive
      /\ c \in [id : Ids, task : Tasks] /\ ~HasId(map, c.id) /\ c.id = id /\ c.task = t
  BY MapTyped DEF SInv, MapSorted
<1>2. \A i \in 1..Len(map) : map[i].task \in Tasks
  BY <1>1, MapElements
<1> HIDE DEF c
<1>3. GainsConn(map, c, map')
  <2>1. GainsConn(map, c, Insert(map, c)) BY <1>1, InsertNew
  <2> QED BY <2>1 DEF c
<1>4. MapSorted' /\ StoppedIsEmpty'
  BY <1>3 DEF GainsConn, MapSorted, StrictlySorted, StoppedIsEmpty
<1>5. ASSUME NEW j \in 1..Len(map')
      PROVE  (Alive(map[j].task) /\ task[map[j].task].id = map[j].id)'
  <2>1. CASE map'[j] = c
    BY <1>1, <2>1
  <2>2. CASE \E i \in 1..Len(map) : map'[j] = map[i]
    <3>1. PICK i \in 1..Len(map) : map'[j] = map[i] BY <2>2
    <3>2. Alive(map[i].task) /\ task[map[i].task].id = map[i].id BY <1>1 DEF MapHoldsAlive
    <3>3. map[i].task \in Tasks \ {t} BY <1>2, <3>2
    <3> QED BY <3>1, <3>2, <3>3
  <2> QED BY <1>3, <2>1, <2>2 DEF GainsConn
<1>6. ASSUME NEW u \in Tasks, Alive(u)'
      PROVE  InMap(u)'
  <2>1. CASE u = t
    <3>1. PICK j \in 1..Len(map') : map'[j] = c BY <1>3 DEF GainsConn
    <3> QED BY <1>1, <2>1, <3>1 DEF InMap
  <2>2. CASE u # t
    <3>1. Alive(u) BY <1>6, <2>2
    <3>2. PICK i \in 1..Len(map) : map[i].task = u BY <1>1, <3>1 DEF MapHoldsAlive, InMap
    <3>3. PICK j \in 1..Len(map') : map'[j] = map[i] BY <1>3 DEF GainsConn
    <3> QED BY <3>2, <3>3 DEF InMap
  <2> QED BY <2>1, <2>2
<1>7. MapHoldsAlive'
  BY <1>5, <1>6 DEF MapHoldsAlive
<1> QED BY <1>3, <1>4, <1>7 DEF MapInv, GainsConn

-----------------------------------------------------------------------------
(* The steps of serve and of the tasks.                                     *)

DownTyped ==
    \A m \in down : /\ m.to \in Flows
                    /\ m.id \in Ids \cup {NoId}
                    /\ m.payloads \in Replies

\* A step that replaces the state of one task by r and leaves the map alone.
LEMMA TaskBecomes ==
    ASSUME SInv, NEW t \in Tasks, NEW r \in TaskState,
           task' = [task EXCEPT ![t] = r], UNCHANGED <<up, map>>, DownTyped',
           r.id = task[t].id, Len(r.queue) <= IncomingCap,
           (r.phase \notin {"free", "done"} /\ ~r.cancelled) <=> Alive(t)
    PROVE  SInv'
<1>1. task \in [Tasks -> TaskState] /\ task'[t] = r /\ task' \in [Tasks -> TaskState]
  BY DEF SInv, ServerTypeOK
<1>2. \A u \in Tasks \ {t} : task'[u] = task[u]
  BY <1>1
<1>3. ServerTypeOK'
  <2>1. \A u \in Tasks : Len(task'[u].queue) <= IncomingCap
    BY <1>1, <1>2 DEF SInv, ServerTypeOK
  <2>2. up' \in BOOLEAN /\ map' \in Seq([id : Ids, task : Tasks])
    BY DEF SInv, ServerTypeOK
  <2> QED BY <1>1, <2>1, <2>2 DEF ServerTypeOK, DownTyped
<1>4. \A u \in Tasks : task'[u].id = task[u].id /\ (Alive(u)' <=> Alive(u))
  <2> TAKE u \in Tasks
  <2>1. CASE u = t
    BY <1>1, <2>1 DEF Alive
  <2>2. CASE u # t
    BY <1>2, <2>2 DEF Alive
  <2> QED BY <2>1, <2>2
<1>5. MapInv'
  BY <1>4, KeepsMap
<1> QED BY <1>3, <1>5 DEF SInv, MapInv

\* A step that changes nothing, or only the messages on their way to clients.
LEMMA NoChange ==
    ASSUME SInv, UNCHANGED <<up, map, task>>, DownTyped'
    PROVE  SInv'
BY DEF SInv, ServerTypeOK, DownTyped, MapSorted, StrictlySorted, MapHoldsAlive, StoppedIsEmpty,
       Alive, InMap

\* Connect: the new connection is inserted under an id nobody has.
LEMMA ServeConnectInv ==
    ASSUME SInv, NEW f \in Flows, ServeConnect(f)
    PROVE  /\ SInv'
           /\ \A i \in 1..Len(map) : \E j \in 1..Len(map') : map'[j] = map[i]
<1> DEFINE id == FindAvailableId(map)
<1>1. up /\ UNCHANGED <<up, down>> /\ id # NoId
  BY DEF ServeConnect
<1>2. /\ map \in ConnMaps(Tasks) /\ StrictlySorted(map) /\ ServerTypeOK
  BY MapTyped DEF SInv, MapSorted
<1>3. id \in Ids /\ ~HasId(map, id)
  BY <1>1, <1>2, AvailableIdIsFree
<1>4. PICK t \in Tasks :
        /\ task[t].phase = "free"
        /\ map' = Insert(map, [id |-> id, task |-> t])
        /\ task' = [CancelHolder(id) EXCEPT ![t] = NewTask(id, f)]
  BY DEF ServeConnect
<1> HIDE DEF id
<1>5. CancelHolder(id) = task
  <2>1. task \in [Tasks -> TaskState] BY <1>2 DEF ServerTypeOK
  <2> QED BY <1>3, <2>1 DEF CancelHolder
<1>6. NewTask(id, f) \in TaskState
  BY <1>3 DEF NewTask, TaskState, Phases
<1>7. /\ task \in [Tasks -> TaskState] /\ task'[t] = NewTask(id, f)
      /\ task' \in [Tasks -> TaskState]
      /\ \A u \in Tasks \ {t} : task'[u] = task[u]
  BY <1>2, <1>4, <1>5, <1>6 DEF ServerTypeOK
<1>8. task'[t].id = id /\ Alive(t)' /\ ~Alive(t) /\ task'[t].queue = <<>>
  BY <1>4, <1>7 DEF NewTask, Alive
<1>9. \A u \in Tasks \ {t} : task'[u].id = task[u].id /\ (Alive(u)' <=> Alive(u))
  BY <1>7 DEF Alive
<1>10. MapInv' /\ \A i \in 1..Len(map) : \E j \in 1..Len(map') : map'[j] = map[i]
  BY <1>1, <1>3, <1>4, <1>8, <1>9, InsertsConn
<1>11. ServerTypeOK'
  <2>1. map' \in Seq([id : Ids, task : Tasks])
    <3>1. [id |-> id, task |-> t] \in [id : Ids, task : Tasks] BY <1>3
    <3>2. ~HasId(map, [id |-> id, task |-> t].id) BY <1>3
    <3> QED BY <1>2, <1>4, <3>1, <3>2, InsertNew DEF ConnMaps
  <2>2. \A u \in Tasks : Len(task'[u].queue) <= IncomingCap
    <3> TAKE u \in Tasks
    <3>1. CASE u = t
      BY <1>8, <3>1, ServerAssumption
    <3>2. CASE u # t
      BY <1>2, <1>7, <3>2 DEF ServerTypeOK
    <3> QED BY <3>1, <3>2
  <2> QED BY <1>1, <1>2, <1>7, <2>1, <2>2 DEF ServerTypeOK
<1> QED BY <1>10, <1>11 DEF SInv, MapInv

\* Data for a connection is queued, dropped, or removes a connection whose
\* receiver is gone.
LEMMA ServeDataInv ==
    ASSUME SInv, NEW id \in Ids,
           \/ DataUnknown(id)
           \/ \E p \in Payloads : DataQueued(id, p)
           \/ DataFull(id)
           \/ DataDisconnected(id)
    PROVE  SInv'
<1>1. ServerTypeOK /\ task \in [Tasks -> TaskState] /\ DownTyped
  BY DEF SInv, ServerTypeOK, DownTyped
<1>2. CASE DataUnknown(id) \/ DataFull(id)
  <2>1. UNCHANGED <<up, map, task, down>> BY <1>2 DEF DataUnknown, DataFull, serverVars
  <2>2. DownTyped' BY <1>1, <2>1 DEF DownTyped
  <2> QED BY <2>1, <2>2, NoChange
<1>3. CASE \E p \in Payloads : DataQueued(id, p)
  <2>1. PICK p \in Payloads : DataQueued(id, p) BY <1>3
  <2> DEFINE t == Holder(id)
             r == [task[t] EXCEPT !.queue = Append(@, p)]
  <2>2. t \in Tasks BY <1>1, <2>1, HolderTyped DEF DataQueued, Holder
  <2>3. /\ Len(task[t].queue) < IncomingCap /\ UNCHANGED <<up, map, down>>
        /\ task' = [task EXCEPT ![t].queue = Append(@, p)]
    BY <2>1 DEF DataQueued
  <2> HIDE DEF t
  <2>4. task[t] \in TaskState /\ task[t].queue \in Seq(Payloads) BY <1>1, <2>2 DEF TaskState
  <2>5. Append(task[t].queue, p) \in Seq(Payloads) /\ Len(Append(task[t].queue, p)) <= IncomingCap
    <3> DEFINE q == task[t].queue
    <3>1. q \in Seq(Payloads) /\ Len(q) < IncomingCap BY <2>3, <2>4
    <3> HIDE DEF q
    <3>2. Append(q, p) \in Seq(Payloads) /\ Len(Append(q, p)) <= IncomingCap
      BY <3>1, ServerAssumption
    <3> QED BY <3>2 DEF q
  <2>6. /\ r \in TaskState /\ r.id = task[t].id /\ Len(r.queue) <= IncomingCap
        /\ r.phase = task[t].phase /\ r.cancelled = task[t].cancelled
    BY <2>4, <2>5 DEF TaskState
  <2>7. task' = [task EXCEPT ![t] = r] BY <2>3
  <2>8. DownTyped' BY <1>1, <2>3 DEF DownTyped
  <2> HIDE DEF r
  <2> QED BY <2>2, <2>3, <2>6, <2>7, <2>8, TaskBecomes DEF Alive
<1>4. CASE DataDisconnected(id)
  <2>1. map' = Remove(map, id) /\ task' = CancelHolder(id) /\ UNCHANGED <<up, down>>
    BY <1>4 DEF DataDisconnected
  <2>2. \A t \in Tasks :
          /\ task'[t].id = task[t].id
          /\ Alive(t)' <=> (Alive(t) /\ ~(HasId(map, id) /\ Get(map, id).task = t))
    BY <1>1, <2>1, CancelHolderIs DEF Alive
  <2>3. MapInv' BY <2>1, <2>2, RemovesId
  <2>4. ServerTypeOK'
    <3>1. \A t \in Tasks : task'[t].queue = task[t].queue BY <1>1, <2>1, CancelHolderIs
    <3>2. task' \in [Tasks -> TaskState]
      <4>1. CASE Tasks = {}
        BY <1>1, <2>1, <4>1 DEF CancelHolder
      <4>2. CASE Tasks # {}
        BY <1>1, <2>1, <4>2, CancelHolderIs
      <4> QED BY <4>1, <4>2
    <3>3. map' \in Seq([id : Ids, task : Tasks])
      BY <1>1, <2>1, MapTyped, RemoveOne DEF SInv, MapSorted, ConnMaps
    <3> QED BY <1>1, <2>1, <3>1, <3>2, <3>3 DEF ServerTypeOK
  <2> QED BY <2>3, <2>4 DEF SInv, MapInv
<1> QED BY <1>2, <1>3, <1>4

\* When serve returns, every connection is dropped and every task with it.
LEMMA ServeStopsInv == ASSUME SInv, ServeStops PROVE SInv'
<1>1. /\ up' = FALSE /\ map' = <<>> /\ down' = down
      /\ task' = [t \in Tasks |->
                    IF InMap(t) THEN [task[t] EXCEPT !.cancelled = TRUE] ELSE task[t]]
  BY DEF ServeStops
<1>2. task \in [Tasks -> TaskState] /\ \A t \in Tasks : Len(task[t].queue) <= IncomingCap
  BY DEF SInv, ServerTypeOK
<1>3. ASSUME NEW t \in Tasks
      PROVE  task'[t] \in TaskState /\ Len(task'[t].queue) <= IncomingCap /\ ~Alive(t)'
  <2>1. CASE InMap(t)
    <3>1. task'[t] = [task[t] EXCEPT !.cancelled = TRUE] BY <1>1, <2>1
    <3>2. task[t] \in TaskState BY <1>2
    <3>3. /\ task'[t] \in TaskState /\ task'[t].queue = task[t].queue
          /\ task'[t].cancelled = TRUE
      BY <3>1, <3>2 DEF TaskState
    <3> QED BY <1>2, <3>3 DEF Alive
  <2>2. CASE ~InMap(t)
    <3>1. task'[t] = task[t] BY <1>1, <2>2
    <3>2. ~Alive(t) BY <2>2 DEF SInv, MapHoldsAlive
    <3> QED BY <1>2, <3>1, <3>2 DEF Alive
  <2> QED BY <2>1, <2>2
<1>4. task' \in [Tasks -> TaskState]
  BY <1>1, <1>3
<1>5. ServerTypeOK'
  <2>1. map' \in Seq([id : Ids, task : Tasks]) BY <1>1
  <2>2. up' \in BOOLEAN BY <1>1
  <2> QED BY <1>1, <1>3, <1>4, <2>1, <2>2 DEF SInv, ServerTypeOK
<1>6. MapSorted' /\ StoppedIsEmpty'
  BY <1>1 DEF MapSorted, StrictlySorted, StoppedIsEmpty
<1>7. MapHoldsAlive'
  <2>1. Len(map') = 0 BY <1>1
  <2>2. \A i \in 1..Len(map') : FALSE BY <2>1
  <2> QED BY <1>3, <2>2 DEF MapHoldsAlive
<1> QED BY <1>5, <1>6, <1>7 DEF SInv

\* The state of a task whose future was dropped.
LEMMA DroppedTyped ==
    ASSUME ServerTypeOK, NEW t \in Tasks
    PROVE  /\ Dropped(t) \in TaskState
           /\ Dropped(t).id = task[t].id
           /\ Len(Dropped(t).queue) <= IncomingCap
           /\ Dropped(t).phase = "done"
<1> DEFINE nil == <<>>
           r == [task[t] EXCEPT !.phase = "done", !.rx = FALSE, !.armed = FALSE, !.queue = nil,
                         !.echo = {}]
<1>1. Dropped(t) = r
  BY DEF Dropped
<1>2. nil \in Seq(Payloads) /\ Len(nil) <= IncomingCap
  BY ServerAssumption
<1>3. task[t] \in TaskState
  BY DEF ServerTypeOK
<1> HIDE DEF nil
<1>4. r \in TaskState /\ r.id = task[t].id /\ r.queue = nil /\ r.phase = "done"
  BY <1>2, <1>3 DEF TaskState, Phases
<1> QED BY <1>1, <1>2, <1>4

\* The steps of a task up to its end touch only its own state.
LEMMA TaskRunsInv ==
    ASSUME SInv, NEW t \in Tasks,
           \/ BindUpstream(t)
           \/ SetupFails(t)
           \/ \E reply \in Replies : Establish(t, reply)
           \/ Upload(t)
           \/ UploadFails(t)
           \/ \E p \in Payloads : Download(t, p)
           \/ Finish(t)
           \/ DropUnpolled(t)
    PROVE  SInv'
<1>1. /\ task \in [Tasks -> TaskState] /\ DownTyped /\ task[t] \in TaskState
      /\ Len(task[t].queue) <= IncomingCap
  BY DEF SInv, ServerTypeOK, DownTyped
<1>2. /\ task[t].phase \in Phases /\ task[t].id \in Ids /\ task[t].src \in Flows
      /\ task[t].rx \in BOOLEAN /\ task[t].cancelled \in BOOLEAN
      /\ task[t].queue \in Seq(Payloads) /\ task[t].echo \in SUBSET Payloads
      /\ task[t].armed \in BOOLEAN
  BY <1>1 DEF TaskState
<1>3. CASE BindUpstream(t)
  <2> DEFINE r == [task[t] EXCEPT !.phase = "waitReply", !.echo = {InitialData(task[t].src)}]
  <2>1. InitialData(task[t].src) \in Payloads
    BY <1>2, ServerAssumption DEF InitialData, Payloads
  <2>2. /\ r \in TaskState /\ r.id = task[t].id /\ r.queue = task[t].queue
        /\ r.phase = "waitReply" /\ r.cancelled = task[t].cancelled
    BY <1>1, <2>1 DEF TaskState, Phases
  <2>3. task' = [task EXCEPT ![t] = r] /\ UNCHANGED <<up, map, down>>
    BY <1>3 DEF BindUpstream
  <2>4. DownTyped' BY <1>1, <2>3 DEF DownTyped
  <2> HIDE DEF r
  <2> QED BY <1>1, <1>3, <2>2, <2>3, <2>4, TaskBecomes DEF Alive, BindUpstream, Running
<1>4. CASE SetupFails(t)
  <2> DEFINE r == [task[t] EXCEPT !.phase = "ending", !.echo = {}]
  <2>2. /\ r \in TaskState /\ r.id = task[t].id /\ r.queue = task[t].queue
        /\ r.phase = "ending" /\ r.cancelled = task[t].cancelled
    BY <1>1 DEF TaskState, Phases
  <2>3. task' = [task EXCEPT ![t] = r] /\ UNCHANGED <<up, map, down>>
    BY <1>4 DEF SetupFails
  <2>4. DownTyped' BY <1>1, <2>3 DEF DownTyped
  <2> HIDE DEF r
  <2> QED BY <1>1, <1>4, <2>2, <2>3, <2>4, TaskBecomes DEF Alive, SetupFails, Running
<1>5. CASE \E reply \in Replies : Establish(t, reply)
  <2>1. PICK reply \in Replies : Establish(t, reply) BY <1>5
  <2> DEFINE oneOff == task[t].src \in OneOffFlows
             ph == IF oneOff THEN "ending" ELSE "relaying"
             ec == IF oneOff THEN {} ELSE task[t].echo \ reply
             r == [task[t] EXCEPT !.phase = ph, !.armed = ~oneOff, !.echo = ec]
  <2>2. ph \in {"ending", "relaying"} /\ ec \in SUBSET Payloads BY <1>2
  <2>3. task' = [task EXCEPT ![t] = r] /\ UNCHANGED <<up, map>>
    BY <2>1 DEF Establish
  <2>6. (~oneOff) \in BOOLEAN OBVIOUS
  <2> HIDE DEF ph, ec, oneOff
  <2>4. /\ r \in TaskState /\ r.id = task[t].id /\ r.queue = task[t].queue
        /\ r.phase = ph /\ r.cancelled = task[t].cancelled
    BY <1>1, <2>2, <2>6 DEF TaskState, Phases
  <2>5. DownTyped'
    <3> DEFINE m == EstablishMsg(task[t].src, task[t].id, reply)
    <3>1. m.to \in Flows /\ m.id \in Ids \cup {NoId} /\ m.payloads \in Replies
      BY <1>2 DEF EstablishMsg
    <3>2. down' = down \cup {m} BY <2>1 DEF Establish
    <3> HIDE DEF m
    <3> QED BY <1>1, <3>1, <3>2 DEF DownTyped
  <2> HIDE DEF r
  <2> QED BY <1>1, <2>1, <2>2, <2>3, <2>4, <2>5, TaskBecomes DEF Alive, Establish, Running
<1>6. CASE Upload(t)
  <2>6. PICK armed \in AfterReset(t) :
          task' = [task EXCEPT ![t].queue = Tail(@), ![t].armed = armed,
                               ![t].echo = @ \cup {Head(task[t].queue)}]
    BY <1>6 DEF Upload
  <2>7. armed \in BOOLEAN BY <1>2, <2>6 DEF AfterReset
  <2> DEFINE q == task[t].queue
             r == [task[t] EXCEPT !.queue = Tail(@), !.armed = armed,
                                  !.echo = @ \cup {Head(q)}]
  <2>1. q # <<>> /\ q \in Seq(Payloads) /\ Len(q) <= IncomingCap BY <1>1, <1>2, <1>6 DEF Upload
  <2>2. /\ Tail(q) \in Seq(Payloads) /\ Head(q) \in Payloads
        /\ Len(Tail(q)) <= IncomingCap
    <3> HIDE DEF q
    <3> QED BY <2>1, ServerAssumption
  <2>3. task' = [task EXCEPT ![t] = r] /\ UNCHANGED <<up, map, down>>
    BY <1>6, <2>6 DEF Upload
  <2>4. /\ r \in TaskState /\ r.id = task[t].id /\ r.queue = Tail(q)
        /\ r.phase = task[t].phase /\ r.cancelled = task[t].cancelled
    BY <1>1, <1>2, <2>2, <2>7 DEF TaskState
  <2>5. DownTyped' BY <1>1, <2>3 DEF DownTyped
  <2> HIDE DEF r, q
  <2> QED BY <2>2, <2>3, <2>4, <2>5, TaskBecomes DEF Alive
<1>7. CASE UploadFails(t)
  <2> DEFINE nil == <<>>
             r == [task[t] EXCEPT !.rx = FALSE, !.queue = nil]
  <2>1. task' = [task EXCEPT ![t] = r] /\ UNCHANGED <<up, map, down>>
    BY <1>7 DEF UploadFails
  <2>3. nil \in Seq(Payloads) /\ Len(nil) <= IncomingCap BY ServerAssumption
  <2> HIDE DEF nil
  <2>2. /\ r \in TaskState /\ r.id = task[t].id /\ r.queue = nil
        /\ r.phase = task[t].phase /\ r.cancelled = task[t].cancelled
    BY <1>1, <1>2, <2>3 DEF TaskState
  <2>4. DownTyped' BY <1>1, <2>1 DEF DownTyped
  <2> HIDE DEF r
  <2> QED BY <2>1, <2>2, <2>3, <2>4, TaskBecomes DEF Alive
<1>8. CASE \E p \in Payloads : Download(t, p)
  <2>1. PICK p \in Payloads : Download(t, p) BY <1>8
  <2>5. PICK armed \in AfterReset(t) :
          task' = [task EXCEPT ![t].armed = armed, ![t].echo = @ \ {p}]
    BY <2>1 DEF Download
  <2>6. armed \in BOOLEAN BY <1>2, <2>5 DEF AfterReset
  <2> DEFINE r == [task[t] EXCEPT !.armed = armed, !.echo = @ \ {p}]
  <2>2. task' = [task EXCEPT ![t] = r] /\ UNCHANGED <<up, map>>
    BY <2>1, <2>5 DEF Download
  <2>3. /\ r \in TaskState /\ r.id = task[t].id /\ r.queue = task[t].queue
        /\ r.phase = task[t].phase /\ r.cancelled = task[t].cancelled
    BY <1>1, <1>2, <2>6 DEF TaskState
  <2>4. DownTyped'
    <3> DEFINE m == DataMsg(task[t].src, p)
    <3>1. m.to \in Flows /\ m.id \in Ids \cup {NoId} /\ m.payloads \in Replies
      BY <1>2 DEF DataMsg, Replies
    <3>2. down' = down \cup {m} BY <2>1 DEF Download
    <3> HIDE DEF m
    <3> QED BY <1>1, <3>1, <3>2 DEF DownTyped
  <2> HIDE DEF r
  <2> QED BY <1>1, <2>2, <2>3, <2>4, TaskBecomes DEF Alive
<1>9. CASE Finish(t)
  <2>1. PICK rx \in {task[t].rx, FALSE} :
          task' = [task EXCEPT ![t].phase = "ending", ![t].rx = rx, ![t].armed = FALSE,
                               ![t].echo = {}]
    BY <1>9 DEF Finish
  <2> DEFINE r == [task[t] EXCEPT !.phase = "ending", !.rx = rx, !.armed = FALSE, !.echo = {}]
  <2>2. rx \in BOOLEAN BY <1>2
  <2>3. task' = [task EXCEPT ![t] = r] /\ UNCHANGED <<up, map, down>>
    BY <1>9, <2>1 DEF Finish
  <2>4. /\ r \in TaskState /\ r.id = task[t].id /\ r.queue = task[t].queue
        /\ r.phase = "ending" /\ r.cancelled = task[t].cancelled
    BY <1>1, <1>2, <2>2 DEF TaskState, Phases
  <2>5. DownTyped' BY <1>1, <2>3 DEF DownTyped
  <2> HIDE DEF r
  <2> QED BY <1>1, <1>9, <2>3, <2>4, <2>5, TaskBecomes DEF Alive, Finish, Running
<1>10. CASE DropUnpolled(t)
  <2>1. task' = [task EXCEPT ![t] = Dropped(t)] /\ UNCHANGED <<up, map, down>> /\ ~Alive(t)
    BY <1>10 DEF DropUnpolled, Alive
  <2>2. /\ Dropped(t) \in TaskState /\ Dropped(t).id = task[t].id
        /\ Len(Dropped(t).queue) <= IncomingCap /\ Dropped(t).phase = "done"
    BY DroppedTyped DEF SInv
  <2>3. DownTyped' BY <1>1, <2>1 DEF DownTyped
  <2> QED BY <2>1, <2>2, <2>3, TaskBecomes
<1> QED BY <1>3, <1>4, <1>5, <1>6, <1>7, <1>8, <1>9, <1>10

\* The deferred removal forgets the task's own connection if the map has it, and
\* otherwise, at most, one that took over its id.
LEMMA ForgetInv ==
    ASSUME SInv, NEW t \in Tasks, Forget(t)
    PROVE  SInv'
<1> DEFINE id == task[t].id
<1>1. /\ ServerTypeOK /\ MapSorted /\ MapHoldsAlive /\ task \in [Tasks -> TaskState] /\ DownTyped
      /\ \A u \in Tasks : Len(task[u].queue) <= IncomingCap
      /\ down' = down /\ up' = up
  BY DEF SInv, ServerTypeOK, DownTyped, Forget
<1>2. id \in Ids /\ task[t].phase # "free"
  <2>1. task[t] \in TaskState BY <1>1
  <2> QED BY <2>1 DEF TaskState, Forget, Ends
<1>3. /\ Dropped(t) \in TaskState /\ Dropped(t).id = task[t].id
      /\ Len(Dropped(t).queue) <= IncomingCap /\ Dropped(t).phase = "done"
  BY <1>1, DroppedTyped
<1>4. DownTyped'
  BY <1>1 DEF DownTyped
<1>5. CASE ~up
  <2>1. map = <<>> BY <1>5 DEF SInv, StoppedIsEmpty
  <2>2. ~Alive(t)
    <3>1. Len(map) = 0 BY <2>1
    <3>2. ~InMap(t) BY <3>1 DEF InMap
    <3> QED BY <1>1, <3>2 DEF MapHoldsAlive
  <2>3. task' = [task EXCEPT ![t] = Dropped(t)] /\ map' = map
    BY <1>5 DEF Forget
  <2> QED BY <1>1, <1>3, <1>4, <2>2, <2>3, TaskBecomes
<1>6. CASE up
  <2> DEFINE C == CancelHolder(id)
  <2>1. map' = Remove(map, id) /\ task' = [C EXCEPT ![t] = Dropped(t)]
    BY <1>6 DEF Forget
  <2>2. C \in [Tasks -> TaskState] BY <1>1, <1>2, CancelHolderIs
  <2>3. \A u \in Tasks :
          /\ C[u].id = task[u].id /\ C[u].phase = task[u].phase /\ C[u].queue = task[u].queue
          /\ C[u].cancelled <=> (task[u].cancelled \/ (HasId(map, id) /\ Get(map, id).task = u))
    BY <1>1, <1>2, CancelHolderIs
  <2> HIDE DEF C
  <2>4. /\ task'[t] = Dropped(t) /\ task' \in [Tasks -> TaskState]
        /\ \A u \in Tasks \ {t} : task'[u] = C[u]
    BY <1>3, <2>1, <2>2
  <2>5. Alive(t) => HasId(map, id) /\ Get(map, id).task = t
    <3> SUFFICES ASSUME Alive(t) PROVE HasId(map, id) /\ Get(map, id).task = t
      OBVIOUS
    <3>1. PICK i \in 1..Len(map) : map[i].task = t BY <1>1 DEF MapHoldsAlive, InMap
    <3>2. map[i].id = id BY <1>1, <3>1 DEF MapHoldsAlive
    <3> QED BY <1>1, <1>2, <3>1, <3>2, HolderAt
  <2> HIDE DEF id
  <2>6. ASSUME NEW u \in Tasks
        PROVE  /\ task'[u].id = task[u].id
               /\ Alive(u)' <=> (Alive(u) /\ ~(HasId(map, id) /\ Get(map, id).task = u))
    <3>1. CASE u = t
      BY <1>3, <2>4, <2>5, <3>1 DEF Alive
    <3>2. CASE u # t
      BY <2>3, <2>4, <3>2 DEF Alive
    <3> QED BY <3>1, <3>2
  <2>7. MapInv'
    BY <1>1, <1>2, <2>1, <2>6, RemovesId
  <2>8. ServerTypeOK'
    <3>1. \A u \in Tasks : Len(task'[u].queue) <= IncomingCap
      BY <1>1, <1>3, <2>3, <2>4
    <3>2. map' \in Seq([id : Ids, task : Tasks])
      BY <1>1, <1>2, <2>1, MapTyped, RemoveOne DEF MapSorted, ConnMaps
    <3> QED BY <1>1, <1>4, <2>4, <3>1, <3>2 DEF ServerTypeOK, DownTyped
  <2> QED BY <2>7, <2>8 DEF SInv, MapInv
<1> QED BY <1>5, <1>6

\* The empty server satisfies the invariant.
LEMMA ServerInitInv == ServerInit => SInv
<1> SUFFICES ASSUME ServerInit PROVE SInv
  OBVIOUS
<1> DEFINE f == CHOOSE g \in Flows : TRUE
           nil == <<>>
<1>1. f \in Flows /\ nil \in Seq(Payloads) /\ Len(nil) <= IncomingCap
  BY ServerAssumption
<1>2. up = TRUE /\ map = <<>> /\ down = {} /\ task = [t \in Tasks |-> FreeTask(f)]
  BY DEF ServerInit
<1>3. FreeTask(f) = [phase |-> "free", id |-> 0, src |-> f, rx |-> FALSE, cancelled |-> FALSE,
                     armed |-> FALSE, queue |-> nil, echo |-> {}]
  BY DEF FreeTask
<1> HIDE DEF f, nil
<1>4. /\ FreeTask(f) \in TaskState /\ FreeTask(f).queue = nil /\ FreeTask(f).phase = "free"
  BY <1>1, <1>3, MaxIdAssumption DEF TaskState, Phases, Ids
<1>5. \A t \in Tasks : task[t] = FreeTask(f)
  BY <1>2
<1>6. ServerTypeOK
  <2>1. map \in Seq([id : Ids, task : Tasks]) BY <1>2
  <2>2. task \in [Tasks -> TaskState] BY <1>2, <1>4
  <2>3. \A t \in Tasks : Len(task[t].queue) <= IncomingCap BY <1>1, <1>4, <1>5
  <2>4. \A m \in down : FALSE BY <1>2
  <2>5. up \in BOOLEAN BY <1>2
  <2> QED BY <2>1, <2>2, <2>3, <2>4, <2>5 DEF ServerTypeOK
<1>7. Len(map) = 0
  BY <1>2
<1>8. MapSorted /\ StoppedIsEmpty
  BY <1>2, <1>7 DEF MapSorted, StrictlySorted, StoppedIsEmpty
<1>9. MapHoldsAlive
  <2>1. \A i \in 1..Len(map) : FALSE BY <1>7
  <2>2. \A t \in Tasks : ~Alive(t) BY <1>4, <1>5 DEF Alive
  <2> QED BY <2>1, <2>2 DEF MapHoldsAlive
<1> QED BY <1>6, <1>8, <1>9 DEF SInv

\* Every step of the server preserves the invariant.
LEMMA ServerNextInv == SInv /\ [ServerNext]_serverVars => SInv'
<1> SUFFICES ASSUME SInv, [ServerNext]_serverVars PROVE SInv'
  OBVIOUS
<1>0. DownTyped
  BY DEF SInv, ServerTypeOK, DownTyped
<1>1. ASSUME NEW f \in Flows, ServeConnect(f) PROVE SInv'
  BY <1>1, ServeConnectInv
<1>2. CASE RefuseConnect \/ UNCHANGED serverVars
  <2>1. UNCHANGED <<up, map, task, down>> BY <1>2 DEF RefuseConnect, serverVars
  <2>2. DownTyped' BY <1>0, <2>1 DEF DownTyped
  <2> QED BY <2>1, <2>2, NoChange
<1>3. ASSUME NEW id \in Ids,
             \/ DataUnknown(id)
             \/ \E p \in Payloads : DataQueued(id, p)
             \/ DataFull(id)
             \/ DataDisconnected(id)
      PROVE  SInv'
  BY <1>3, ServeDataInv
<1>4. CASE ServeStops
  BY <1>4, ServeStopsInv
<1>5. ASSUME NEW t \in Tasks, TaskStep(t) PROVE SInv'
  <2>1. CASE Forget(t)
    BY <2>1, ForgetInv
  <2>2. CASE ~Forget(t)
    BY <1>5, <2>2, TaskRunsInv DEF TaskStep
  <2> QED BY <2>1, <2>2
<1>6. ASSUME NEW m \in down, LeaveNetwork(m) PROVE SInv'
  <2>1. UNCHANGED <<up, map, task>> /\ down' = down \ {m} BY <1>6 DEF LeaveNetwork
  <2>2. DownTyped' BY <1>0, <2>1 DEF DownTyped
  <2> QED BY <2>1, <2>2, NoChange
<1> QED BY <1>1, <1>2, <1>3, <1>4, <1>5, <1>6 DEF ServerNext

\* The inductive invariant of the server holds in every reachable state.
THEOREM ServerInvariance == ServerSpec => []SInv
<1>1. ServerInit => SInv BY ServerInitInv
<1>2. SInv /\ [ServerNext]_serverVars => SInv' BY ServerNextInv
<1> QED BY <1>1, <1>2, PTL DEF ServerSpec

\* The server's state stays well typed and its incoming channels within capacity.
THEOREM ServerTypeCorrect == ServerSpec => []ServerTypeOK
<1>1. SInv => ServerTypeOK BY DEF SInv
<1> QED BY <1>1, ServerInvariance, PTL

\* The ConnMap is always in the strict order binary search relies on.
THEOREM MapStaysSorted == ServerSpec => []MapSorted
<1>1. SInv => MapSorted BY DEF SInv
<1> QED BY <1>1, ServerInvariance, PTL

\* Connections and living tasks correspond one to one: none is leaked by the
\* deferred removals and none runs without an entry in the map.
THEOREM NoConnectionLeaks == ServerSpec => []MapHoldsAlive
<1>1. SInv => MapHoldsAlive BY DEF SInv
<1> QED BY <1>1, ServerInvariance, PTL

-----------------------------------------------------------------------------
(* Who may cancel a connection that works.                                  *)

Works(t) == Alive(t) /\ task[t].rx /\ task[t].phase # "ending"

EvictedByStaleDefer(t) ==
    \E s \in Tasks \ {t} : /\ task[s].cancelled
                           /\ task[s].id = task[t].id
                           /\ task[s].phase # "done"
                           /\ task'[s].phase = "done"

\* The deferred removal of another task cancels a working connection only when
\* that other task had been cancelled before and had the same id.
LEMMA ForgetEvicts ==
    ASSUME SInv, NEW s \in Tasks, Forget(s), NEW t \in Tasks, Works(t), task'[t].cancelled
    PROVE  EvictedByStaleDefer(t)
<1>1. /\ ServerTypeOK /\ MapSorted /\ MapHoldsAlive /\ task \in [Tasks -> TaskState]
  BY DEF SInv, ServerTypeOK
<1>2. task[s].id \in Ids /\ ~task[t].cancelled
  <2>1. task[s] \in TaskState BY <1>1
  <2> QED BY <2>1 DEF TaskState, Works, Alive
<1>3. s # t
  BY DEF Forget, Ends, Works, Alive
<1>4. CASE ~up
  <2>1. task' = [task EXCEPT ![s] = Dropped(s)] BY <1>4 DEF Forget
  <2>2. task'[t] = task[t] BY <1>1, <1>3, <2>1
  <2> QED BY <1>2, <2>2
<1>5. CASE up
  <2> DEFINE C == CancelHolder(task[s].id)
  <2>1. task' = [C EXCEPT ![s] = Dropped(s)] BY <1>5 DEF Forget
  <2>2. C \in [Tasks -> TaskState] BY <1>1, <1>2, CancelHolderIs
  <2>3. C[t].cancelled <=> (task[t].cancelled
                            \/ (HasId(map, task[s].id) /\ Get(map, task[s].id).task = t))
    BY <1>1, <1>2, CancelHolderIs
  <2> HIDE DEF C
  <2>4. task'[t] = C[t] /\ task'[s] = Dropped(s) BY <1>3, <2>1, <2>2
  <2>5. HasId(map, task[s].id) /\ Get(map, task[s].id).task = t BY <1>2, <2>3, <2>4
  <2>6. task[s].id = task[t].id
    <3>1. PICK i \in 1..Len(map) : map[i] = Get(map, task[s].id) /\ map[i].id = task[s].id
      BY <1>1, <1>2, <2>5, HolderTyped
    <3> QED BY <1>1, <2>5, <3>1 DEF MapHoldsAlive
  <2>7. task[s].cancelled
    <3> SUFFICES ASSUME ~task[s].cancelled PROVE FALSE
      OBVIOUS
    <3>1. Alive(s) BY DEF Forget, Ends, Alive
    <3>2. PICK i \in 1..Len(map) : map[i].task = s BY <1>1, <3>1 DEF MapHoldsAlive, InMap
    <3>3. map[i].id = task[s].id BY <1>1, <3>2 DEF MapHoldsAlive
    <3>4. Get(map, task[s].id) = map[i] BY <1>1, <1>2, <3>3, HolderAt
    <3> QED BY <1>3, <2>5, <3>2, <3>4
  <2>8. task[s].phase # "done" BY DEF Forget, Ends
  <2>9. task'[s].phase = "done" BY <1>1, <2>4, DroppedTyped
  <2> QED BY <1>3, <2>6, <2>7, <2>8, <2>9 DEF EvictedByStaleDefer
<1> QED BY <1>4, <1>5

\* No other step of a running server cancels a working connection.
LEMMA OthersDoNotEvict ==
    ASSUME SInv, NEW t \in Tasks, Works(t), up', [ServerNext]_serverVars,
           \A s \in Tasks : ~Forget(s)
    PROVE  ~task'[t].cancelled
<1>1. /\ ServerTypeOK /\ MapSorted /\ MapHoldsAlive /\ task \in [Tasks -> TaskState]
      /\ map \in ConnMaps(Tasks) /\ StrictlySorted(map)
  BY MapTyped DEF SInv, ServerTypeOK, MapSorted
<1>2. ~task[t].cancelled /\ task[t] \in TaskState /\ task[t].phase # "free"
  BY <1>1 DEF Works, Alive
<1>3. ASSUME NEW f \in Flows, ServeConnect(f) PROVE ~task'[t].cancelled
  <2> DEFINE id == FindAvailableId(map)
  <2>1. id \in Ids /\ ~HasId(map, id) BY <1>1, <1>3, AvailableIdIsFree DEF ServeConnect
  <2>2. CancelHolder(id) = task BY <1>1, <2>1 DEF CancelHolder
  <2>3. PICK u \in Tasks : task[u].phase = "free" /\ task' = [task EXCEPT ![u] = NewTask(id, f)]
    BY <1>3, <2>2 DEF ServeConnect
  <2> HIDE DEF id
  <2>4. task'[t] = task[t] BY <1>1, <1>2, <2>3
  <2> QED BY <1>2, <2>4
<1>4. CASE RefuseConnect \/ UNCHANGED serverVars
  BY <1>2, <1>4 DEF RefuseConnect, serverVars
<1>5. ASSUME NEW id \in Ids,
             \/ DataUnknown(id)
             \/ \E p \in Payloads : DataQueued(id, p)
             \/ DataFull(id)
             \/ DataDisconnected(id)
      PROVE  ~task'[t].cancelled
  <2>1. CASE DataUnknown(id) \/ DataFull(id)
    BY <1>2, <2>1 DEF DataUnknown, DataFull, serverVars
  <2>2. CASE \E p \in Payloads : DataQueued(id, p)
    <3>1. PICK p \in Payloads : task' = [task EXCEPT ![Holder(id)].queue = Append(@, p)]
      BY <2>2 DEF DataQueued
    <3> QED BY <1>1, <1>2, <3>1 DEF TaskState
  <2>3. CASE DataDisconnected(id)
    <3>1. task' = CancelHolder(id) /\ HasId(map, id) /\ ~task[Get(map, id).task].rx
      BY <2>3 DEF DataDisconnected, Holder
    <3>2. Get(map, id).task # t BY <3>1 DEF Works
    <3> QED BY <1>1, <1>2, <3>1, <3>2, CancelHolderIs
  <2> QED BY <1>5, <2>1, <2>2, <2>3
<1>6. CASE ServeStops
  BY <1>6 DEF ServeStops
<1>7. ASSUME NEW s \in Tasks, TaskStep(s) PROVE ~task'[t].cancelled
  <2>1. ~Forget(s) OBVIOUS
  <2>2. CASE BindUpstream(s)
    BY <1>1, <1>2, <2>2 DEF BindUpstream, TaskState
  <2>3. CASE SetupFails(s)
    BY <1>1, <1>2, <2>3 DEF SetupFails, TaskState
  <2>4. CASE \E reply \in Replies : Establish(s, reply)
    BY <1>1, <1>2, <2>4 DEF Establish, TaskState
  <2>5. CASE Upload(s)
    BY <1>1, <1>2, <2>5 DEF Upload, TaskState
  <2>6. CASE UploadFails(s)
    BY <1>1, <1>2, <2>6 DEF UploadFails, TaskState
  <2>7. CASE \E p \in Payloads : Download(s, p)
    BY <1>1, <1>2, <2>7 DEF Download, TaskState
  <2>8. CASE Finish(s)
    BY <1>1, <1>2, <2>8 DEF Finish, TaskState
  <2>9. CASE DropUnpolled(s)
    BY <1>1, <1>2, <2>9 DEF DropUnpolled, Dropped, TaskState
  <2> QED BY <1>7, <2>1, <2>2, <2>3, <2>4, <2>5, <2>6, <2>7, <2>8, <2>9 DEF TaskStep
<1>8. ASSUME NEW m \in down, LeaveNetwork(m) PROVE ~task'[t].cancelled
  BY <1>2, <1>8 DEF LeaveNetwork
<1> QED BY <1>3, <1>4, <1>5, <1>6, <1>7, <1>8 DEF ServerNext

\* While serve runs, a connection that works is cancelled only by the deferred
\* removal of a cancelled predecessor with the same id.
THEOREM OnlyStaleDeferEvictsTheorem == ServerSpec => OnlyStaleDeferEvicts
<1> DEFINE P == \A t \in Tasks :
                  (/\ Alive(t)
                   /\ task[t].rx
                   /\ task[t].phase # "ending"
                   /\ task'[t].cancelled
                   /\ up')
                  => \E s \in Tasks \ {t} : /\ task[s].cancelled
                                            /\ task[s].id = task[t].id
                                            /\ task[s].phase # "done"
                                            /\ task'[s].phase = "done"
<1>1. SInv /\ [ServerNext]_serverVars => P
  <2> SUFFICES ASSUME SInv, [ServerNext]_serverVars, NEW t \in Tasks,
                      Works(t), task'[t].cancelled, up'
               PROVE  EvictedByStaleDefer(t)
    BY DEF Works, EvictedByStaleDefer
  <2>1. PICK s \in Tasks : Forget(s) BY OthersDoNotEvict
  <2> QED BY <2>1, ForgetEvicts
<1>2. SInv /\ [ServerNext]_serverVars => [P]_serverVars
  BY <1>1
<1> HIDE DEF P
<1>3. ServerSpec => [][P]_serverVars
  BY <1>2, ServerInvariance, PTL DEF ServerSpec
<1> QED BY <1>3 DEF OnlyStaleDeferEvicts, P

-----------------------------------------------------------------------------
(* Connections are added by Connect only, which replaces none.              *)

\* No other step of the server starts a task.
LEMMA OnlyConnectStarts ==
    ASSUME SInv, [ServerNext]_serverVars, \A f \in Flows : ~ServeConnect(f),
           NEW t \in Tasks, task[t].phase = "free"
    PROVE  task'[t].phase = "free"
<1>1. ServerTypeOK /\ task \in [Tasks -> TaskState] /\ task[t] \in TaskState
  BY DEF SInv, ServerTypeOK
<1>2. CASE RefuseConnect \/ UNCHANGED serverVars
  BY <1>2 DEF RefuseConnect, serverVars
<1>3. ASSUME NEW id \in Ids,
             \/ DataUnknown(id)
             \/ \E p \in Payloads : DataQueued(id, p)
             \/ DataFull(id)
             \/ DataDisconnected(id)
      PROVE  task'[t].phase = "free"
  <2>1. CASE DataUnknown(id) \/ DataFull(id)
    BY <2>1 DEF DataUnknown, DataFull, serverVars
  <2>2. CASE \E p \in Payloads : DataQueued(id, p)
    <3>1. PICK p \in Payloads : task' = [task EXCEPT ![Holder(id)].queue = Append(@, p)]
      BY <2>2 DEF DataQueued
    <3> QED BY <1>1, <3>1 DEF TaskState
  <2>3. CASE DataDisconnected(id)
    BY <1>1, <2>3, CancelHolderIs DEF DataDisconnected
  <2> QED BY <1>3, <2>1, <2>2, <2>3
<1>4. CASE ServeStops
  <2>1. task'[t] = task[t] \/ task'[t] = [task[t] EXCEPT !.cancelled = TRUE]
    BY <1>4 DEF ServeStops
  <2> QED BY <1>1, <2>1 DEF TaskState
<1>5. ASSUME NEW s \in Tasks, TaskStep(s) PROVE task'[t].phase = "free"
  <2>1. s # t
    BY <1>5 DEF TaskStep, BindUpstream, SetupFails, Establish, Upload, UploadFails, Download, Finish,
                DropUnpolled, Forget, Ends, Running
  <2>2. CASE Forget(s)
    <3>1. CASE up
      <4> DEFINE C == CancelHolder(task[s].id)
      <4>1. task[s].id \in Ids
        <5>1. task[s] \in TaskState BY <1>1
        <5> QED BY <5>1 DEF TaskState
      <4>2. C \in [Tasks -> TaskState] /\ C[t].phase = task[t].phase
        BY <1>1, <4>1, CancelHolderIs
      <4>3. task' = [C EXCEPT ![s] = Dropped(s)] BY <2>2, <3>1 DEF Forget
      <4> HIDE DEF C
      <4> QED BY <2>1, <4>2, <4>3
    <3>2. CASE ~up
      BY <1>1, <2>1, <2>2, <3>2 DEF Forget
    <3> QED BY <3>1, <3>2
  <2>3. CASE ~Forget(s)
    BY <1>1, <1>5, <2>1, <2>3
       DEF TaskStep, BindUpstream, SetupFails, Establish, Upload, UploadFails, Download, Finish,
           DropUnpolled
  <2> QED BY <2>2, <2>3
<1>6. ASSUME NEW m \in down, LeaveNetwork(m) PROVE task'[t].phase = "free"
  BY <1>6 DEF LeaveNetwork
<1> QED BY <1>2, <1>3, <1>4, <1>5, <1>6 DEF ServerNext

\* The step that adds a connection keeps every other one: insert never replaces.
THEOREM InsertKeepsOthersTheorem == ServerSpec => InsertKeepsOthers
<1> DEFINE P == (\E t \in Tasks : task[t].phase = "free" /\ task'[t].phase # "free")
                => \A i \in 1..Len(map) : \E j \in 1..Len(map') : map'[j] = map[i]
<1>1. SInv /\ [ServerNext]_serverVars => P
  BY OnlyConnectStarts, ServeConnectInv
<1>2. SInv /\ [ServerNext]_serverVars => [P]_serverVars
  BY <1>1
<1> HIDE DEF P
<1>3. ServerSpec => [][P]_serverVars
  BY <1>2, ServerInvariance, PTL DEF ServerSpec
<1> QED BY <1>3 DEF InsertKeepsOthers, P

-----------------------------------------------------------------------------
(* End to end.                                                              *)

Contents(t) == {task[t].queue[i] : i \in 1..Len(task[t].queue)} \cup task[t].echo

\* Task t, once started, keeps its flow and id and does not come back to life.
Keeps(t) ==
    task[t].phase # "free" =>
        /\ task'[t].phase # "free"
        /\ task'[t].src = task[t].src
        /\ task'[t].id = task[t].id
        /\ ~Alive(t) => ~Alive(t)'

\* What task t holds after the step is in S, of its own flow or was there before.
Fills(t, S) ==
    \A p \in Contents(t)' :
        \/ p \in S
        \/ p.flow = task'[t].src
        \/ /\ p \in Contents(t)
           /\ task'[t].src = task[t].src
           /\ task'[t].id = task[t].id

Evolves == \A t \in Tasks : Keeps(t) /\ Fills(t, {})

-----------------------------------------------------------------------------
(* How the server's steps change its tasks.                                 *)

\* The tasks stay as they are.
LEMMA SameTasksEvolve ==
    ASSUME task' = task
    PROVE  Evolves
BY DEF Evolves, Keeps, Fills, Contents, Alive

\* A task that is not free changes to r, and no other.
LEMMA OneTaskEvolves ==
    ASSUME SInv, NEW t \in Tasks, NEW r, task' = [task EXCEPT ![t] = r],
           task[t].phase # "free", r.phase # "free",
           r.src = task[t].src, r.id = task[t].id,
           ~Alive(t) => r.phase = "done" \/ r.cancelled,
           \A p \in {r.queue[i] : i \in 1..Len(r.queue)} \cup r.echo :
               p.flow = task[t].src \/ p \in Contents(t)
    PROVE  Evolves
<1>1. task'[t] = r /\ \A u \in Tasks \ {t} : task'[u] = task[u]
  BY DEF SInv, ServerTypeOK
<1>2. Keeps(t) /\ Fills(t, {})
  BY <1>1 DEF Keeps, Fills, Alive, Contents
<1>3. ASSUME NEW u \in Tasks \ {t} PROVE Keeps(u) /\ Fills(u, {})
  BY <1>1 DEF Keeps, Fills, Alive, Contents
<1> QED BY <1>2, <1>3 DEF Evolves

\* Tasks are at most cancelled.
LEMMA CancelledEvolve ==
    ASSUME SInv,
           \A t \in Tasks : task'[t] = task[t] \/ task'[t] = [task[t] EXCEPT !.cancelled = TRUE]
    PROVE  Evolves
<1> SUFFICES ASSUME NEW t \in Tasks PROVE Keeps(t) /\ Fills(t, {})
  BY DEF Evolves
<1>1. task[t] \in TaskState BY DEF SInv, ServerTypeOK
<1>2. /\ task'[t].phase = task[t].phase /\ task'[t].src = task[t].src
      /\ task'[t].id = task[t].id /\ task'[t].queue = task[t].queue
      /\ task'[t].echo = task[t].echo /\ (task[t].cancelled => task'[t].cancelled)
  BY <1>1 DEF TaskState
<1>3. Keeps(t) BY <1>2 DEF Keeps, Alive
<1>4. Contents(t)' = Contents(t) BY <1>2 DEF Contents
<1>5. Fills(t, {}) BY <1>2, <1>4 DEF Fills
<1> QED BY <1>3, <1>5

\* Dropping the holder of an id.
LEMMA CancelHolderEvolves ==
    ASSUME SInv, NEW id, task' = CancelHolder(id)
    PROVE  Evolves
<1>1. ASSUME NEW t \in Tasks
      PROVE  task'[t] = task[t] \/ task'[t] = [task[t] EXCEPT !.cancelled = TRUE]
  BY DEF CancelHolder
<1> QED BY <1>1, CancelledEvolve

\* Connect starts a free task, with an empty queue.
LEMMA ServeConnectEvolves ==
    ASSUME SInv, NEW f \in Flows, ServeConnect(f)
    PROVE  Evolves
<1> DEFINE id == FindAvailableId(map)
<1>1. PICK t \in Tasks : /\ task[t].phase = "free" /\ id # NoId
                        /\ task' = [CancelHolder(id) EXCEPT ![t] = NewTask(id, f)]
  BY DEF ServeConnect
<1>2. /\ map \in ConnMaps(Tasks) /\ StrictlySorted(map) /\ task \in [Tasks -> TaskState]
  BY MapTyped DEF SInv, MapSorted, ServerTypeOK
<1>3. ~HasId(map, id)
  BY <1>1, <1>2, AvailableIdIsFree
<1> HIDE DEF id
<1>4. CancelHolder(id) = task
  BY <1>2, <1>3 DEF CancelHolder
<1>5. task'[t] = NewTask(id, f) /\ \A u \in Tasks \ {t} : task'[u] = task[u]
  BY <1>1, <1>2, <1>4
<1>6. NewTask(id, f).queue = <<>> /\ NewTask(id, f).echo = {}
  BY DEF NewTask
<1>7. Contents(t)' = {}
  BY <1>5, <1>6 DEF Contents
<1>8. Keeps(t) /\ Fills(t, {})
  BY <1>1, <1>7 DEF Keeps, Fills
<1>9. ASSUME NEW u \in Tasks \ {t} PROVE Keeps(u) /\ Fills(u, {})
  BY <1>5 DEF Keeps, Fills, Alive, Contents
<1> QED BY <1>8, <1>9 DEF Evolves

\* Serve returns and every connection is dropped.
LEMMA ServeStopsEvolves ==
    ASSUME SInv, ServeStops
    PROVE  Evolves
<1>1. ASSUME NEW t \in Tasks
      PROVE  task'[t] = task[t] \/ task'[t] = [task[t] EXCEPT !.cancelled = TRUE]
  BY DEF ServeStops
<1> QED BY <1>1, CancelledEvolve

\* A dropped future holds nothing any more.
LEMMA DroppedHolds ==
    ASSUME SInv, NEW t \in Tasks
    PROVE  /\ Dropped(t).phase = "done" /\ Dropped(t).src = task[t].src
           /\ Dropped(t).id = task[t].id
           /\ {Dropped(t).queue[i] : i \in 1..Len(Dropped(t).queue)} \cup Dropped(t).echo = {}
<1> DEFINE nil == <<>>
           r == [task[t] EXCEPT !.phase = "done", !.rx = FALSE, !.armed = FALSE, !.queue = nil,
                                !.echo = {}]
<1>1. Dropped(t) = r /\ task[t] \in TaskState BY DEF Dropped, SInv, ServerTypeOK
<1>2. {nil[i] : i \in 1..Len(nil)} = {} OBVIOUS
<1> HIDE DEF nil
<1>3. r.phase = "done" /\ r.src = task[t].src /\ r.id = task[t].id /\ r.queue = nil /\ r.echo = {}
  BY <1>1 DEF TaskState
<1> HIDE DEF r
<1> QED BY <1>1, <1>2, <1>3

\* The connection's own steps up to its end: what it holds comes from its queue or
\* is the initial data.
LEMMA TaskRunsEvolves ==
    ASSUME SInv, NEW t \in Tasks,
           \/ BindUpstream(t)
           \/ SetupFails(t)
           \/ \E reply \in Replies : Establish(t, reply)
           \/ Upload(t)
           \/ UploadFails(t)
           \/ \E p \in Payloads : Download(t, p)
           \/ Finish(t)
           \/ DropUnpolled(t)
    PROVE  Evolves
<1> DEFINE q == task[t].queue
           e == task[t].echo
           Q == {q[i] : i \in 1..Len(q)}
<1>1. /\ task[t] \in TaskState /\ task \in [Tasks -> TaskState]
      /\ q \in Seq(Payloads) /\ Contents(t) = Q \cup e
  BY DEF SInv, ServerTypeOK, TaskState, Contents
<1> HIDE DEF Q, q, e
<1>2. CASE BindUpstream(t)
  <2> DEFINE ini == {InitialData(task[t].src)}
             r == [task[t] EXCEPT !.phase = "waitReply", !.echo = ini]
  <2>1. task' = [task EXCEPT ![t] = r] /\ Running(t, "spawned")
    BY <1>2 DEF BindUpstream
  <2>2. \A p \in ini : p.flow = task[t].src BY DEF InitialData
  <2> HIDE DEF ini
  <2>3. /\ r.phase = "waitReply" /\ r.src = task[t].src /\ r.id = task[t].id
        /\ r.queue = q /\ r.echo = ini /\ r.cancelled = task[t].cancelled
    BY <1>1 DEF TaskState, q
  <2> HIDE DEF r
  <2>4. \A p \in {r.queue[i] : i \in 1..Len(r.queue)} \cup r.echo :
            p.flow = task[t].src \/ p \in Contents(t)
    BY <1>1, <2>2, <2>3 DEF Q
  <2> QED BY <2>1, <2>3, <2>4, OneTaskEvolves DEF Running, Alive
<1>3. CASE SetupFails(t)
  <2> DEFINE r == [task[t] EXCEPT !.phase = "ending", !.echo = {}]
  <2>1. task' = [task EXCEPT ![t] = r] /\ (Running(t, "spawned") \/ Running(t, "waitReply"))
    BY <1>3 DEF SetupFails
  <2>3. /\ r.phase = "ending" /\ r.src = task[t].src /\ r.id = task[t].id
        /\ r.queue = q /\ r.echo = {} /\ r.cancelled = task[t].cancelled
    BY <1>1 DEF TaskState, q
  <2> HIDE DEF r
  <2>4. \A p \in {r.queue[i] : i \in 1..Len(r.queue)} \cup r.echo :
            p.flow = task[t].src \/ p \in Contents(t)
    BY <1>1, <2>3 DEF Q
  <2> QED BY <2>1, <2>3, <2>4, OneTaskEvolves DEF Running, Alive
<1>4. ASSUME NEW reply \in Replies, Establish(t, reply) PROVE Evolves
  <2> DEFINE ph == IF task[t].src \in OneOffFlows THEN "ending" ELSE "relaying"
             a == task[t].src \notin OneOffFlows
             ec == IF task[t].src \in OneOffFlows THEN {} ELSE task[t].echo \ reply
             r == [task[t] EXCEPT !.phase = ph, !.armed = a, !.echo = ec]
  <2>1. task' = [task EXCEPT ![t] = r] /\ Running(t, "waitReply")
    BY <1>4 DEF Establish
  <2>2. ec \subseteq e /\ ph # "free" /\ ph # "done" BY DEF e
  <2> HIDE DEF ec, a, ph
  <2>3. /\ r.phase = ph /\ r.src = task[t].src /\ r.id = task[t].id
        /\ r.queue = q /\ r.echo = ec /\ r.cancelled = task[t].cancelled
    BY <1>1 DEF TaskState, q
  <2> HIDE DEF r
  <2>4. \A p \in {r.queue[i] : i \in 1..Len(r.queue)} \cup r.echo :
            p.flow = task[t].src \/ p \in Contents(t)
    BY <1>1, <2>2, <2>3 DEF Q
  <2> QED BY <2>1, <2>2, <2>3, <2>4, OneTaskEvolves DEF Running, Alive
<1>5. CASE Upload(t)
  <2>0. PICK armed \in AfterReset(t) :
          task' = [task EXCEPT ![t].queue = Tail(@), ![t].armed = armed,
                               ![t].echo = @ \cup {Head(task[t].queue)}]
    BY <1>5 DEF Upload
  <2> DEFINE tl == Tail(task[t].queue)
             ec == task[t].echo \cup {Head(task[t].queue)}
             r == [task[t] EXCEPT !.queue = tl, !.armed = armed, !.echo = ec]
  <2>1. task' = [task EXCEPT ![t] = r] /\ task[t].phase = "relaying" /\ q # <<>>
    BY <1>5, <2>0 DEF Upload, q
  <2>2. ec = e \cup {Head(q)} /\ tl = Tail(q) BY DEF e, q
  <2>3. Head(q) \in Q /\ {tl[i] : i \in 1..Len(tl)} \subseteq Q
    <3>1. 1 \in 1..Len(q) /\ Head(q) = q[1] BY <1>1, <2>1
    <3>2. ASSUME NEW i \in 1..Len(tl) PROVE tl[i] \in Q
      <4>1. i + 1 \in 1..Len(q) /\ tl[i] = q[i + 1] BY <1>1, <2>1, <2>2
      <4> QED BY <4>1 DEF Q
    <3> QED BY <3>1, <3>2 DEF Q
  <2> HIDE DEF ec, tl
  <2>4. /\ r.phase = task[t].phase /\ r.src = task[t].src /\ r.id = task[t].id
        /\ r.queue = tl /\ r.echo = ec /\ r.cancelled = task[t].cancelled
    BY <1>1 DEF TaskState
  <2> HIDE DEF r
  <2>5. \A p \in {r.queue[i] : i \in 1..Len(r.queue)} \cup r.echo :
            p.flow = task[t].src \/ p \in Contents(t)
    BY <1>1, <2>2, <2>3, <2>4
  <2> QED BY <2>1, <2>4, <2>5, OneTaskEvolves DEF Alive
<1>6. CASE UploadFails(t)
  <2> DEFINE nil == <<>>
             r == [task[t] EXCEPT !.rx = FALSE, !.queue = nil]
  <2>1. task' = [task EXCEPT ![t] = r] /\ task[t].phase = "relaying"
    BY <1>6 DEF UploadFails
  <2>2. {nil[i] : i \in 1..Len(nil)} = {} OBVIOUS
  <2> HIDE DEF nil
  <2>3. /\ r.phase = task[t].phase /\ r.src = task[t].src /\ r.id = task[t].id
        /\ r.queue = nil /\ r.echo = e /\ r.cancelled = task[t].cancelled
    BY <1>1 DEF TaskState, e
  <2> HIDE DEF r
  <2>4. \A p \in {r.queue[i] : i \in 1..Len(r.queue)} \cup r.echo :
            p.flow = task[t].src \/ p \in Contents(t)
    BY <1>1, <2>2, <2>3
  <2> QED BY <2>1, <2>3, <2>4, OneTaskEvolves DEF Alive
<1>7. ASSUME NEW p \in Payloads, Download(t, p) PROVE Evolves
  <2>0. PICK armed \in AfterReset(t) :
          task' = [task EXCEPT ![t].armed = armed, ![t].echo = @ \ {p}]
    BY <1>7 DEF Download
  <2> DEFINE ec == task[t].echo \ {p}
             r == [task[t] EXCEPT !.armed = armed, !.echo = ec]
  <2>1. task' = [task EXCEPT ![t] = r] /\ task[t].phase = "relaying"
    BY <1>7, <2>0 DEF Download
  <2>2. ec \subseteq e BY DEF e
  <2> HIDE DEF ec
  <2>3. /\ r.phase = task[t].phase /\ r.src = task[t].src /\ r.id = task[t].id
        /\ r.queue = q /\ r.echo = ec /\ r.cancelled = task[t].cancelled
    BY <1>1 DEF TaskState, q
  <2> HIDE DEF r
  <2>4. \A x \in {r.queue[i] : i \in 1..Len(r.queue)} \cup r.echo :
            x.flow = task[t].src \/ x \in Contents(t)
    BY <1>1, <2>2, <2>3 DEF Q
  <2> QED BY <2>1, <2>3, <2>4, OneTaskEvolves DEF Alive
<1>8. CASE Finish(t)
  <2>0. PICK rx : task' = [task EXCEPT ![t].phase = "ending", ![t].rx = rx,
                                       ![t].armed = FALSE, ![t].echo = {}]
    BY <1>8 DEF Finish
  <2> DEFINE r == [task[t] EXCEPT !.phase = "ending", !.rx = rx, !.armed = FALSE, !.echo = {}]
  <2>1. task' = [task EXCEPT ![t] = r] /\ Running(t, "relaying")
    BY <1>8, <2>0 DEF Finish
  <2>3. /\ r.phase = "ending" /\ r.src = task[t].src /\ r.id = task[t].id
        /\ r.queue = q /\ r.echo = {} /\ r.cancelled = task[t].cancelled
    BY <1>1 DEF TaskState, q
  <2> HIDE DEF r
  <2>4. \A p \in {r.queue[i] : i \in 1..Len(r.queue)} \cup r.echo :
            p.flow = task[t].src \/ p \in Contents(t)
    BY <1>1, <2>3 DEF Q
  <2> QED BY <2>1, <2>3, <2>4, OneTaskEvolves DEF Running, Alive
<1>9. CASE DropUnpolled(t)
  <2>1. task' = [task EXCEPT ![t] = Dropped(t)] /\ task[t].phase = "spawned"
    BY <1>9 DEF DropUnpolled
  <2> QED BY <2>1, DroppedHolds, OneTaskEvolves
<1> QED BY <1>2, <1>3, <1>4, <1>5, <1>6, <1>7, <1>8, <1>9

\* A future that ends takes the holder of its id out of the map, perhaps a later
\* connection, and is dropped.
LEMMA ForgetEvolves ==
    ASSUME SInv, NEW t \in Tasks, Forget(t)
    PROVE  Evolves
<1> DEFINE base == IF up THEN CancelHolder(task[t].id) ELSE task
<1>1. task' = [base EXCEPT ![t] = Dropped(t)] /\ task[t].phase # "free"
  BY DEF Forget, Ends
<1>2. ASSUME NEW u \in Tasks
      PROVE  base[u] = task[u] \/ base[u] = [task[u] EXCEPT !.cancelled = TRUE]
  BY DEF CancelHolder
<1>3. task \in [Tasks -> TaskState] BY DEF SInv, ServerTypeOK
<1>4. DOMAIN base = Tasks BY <1>3 DEF CancelHolder
<1> HIDE DEF base
<1>5. task'[t] = Dropped(t) /\ \A u \in Tasks \ {t} : task'[u] = base[u]
  BY <1>1, <1>4
<1>6. Keeps(t) /\ Fills(t, {})
  <2>1. Contents(t)' = {} BY <1>5, DroppedHolds DEF Contents
  <2> QED BY <1>5, <2>1, DroppedHolds DEF Keeps, Fills, Alive
<1>7. ASSUME NEW u \in Tasks \ {t} PROVE Keeps(u) /\ Fills(u, {})
  <2>1. task[u] \in TaskState BY <1>3
  <2>2. task'[u] = task[u] \/ task'[u] = [task[u] EXCEPT !.cancelled = TRUE]
    BY <1>2, <1>5
  <2>3. /\ task'[u].phase = task[u].phase /\ task'[u].src = task[u].src
        /\ task'[u].id = task[u].id /\ task'[u].queue = task[u].queue
        /\ task'[u].echo = task[u].echo /\ (task[u].cancelled => task'[u].cancelled)
    BY <2>1, <2>2 DEF TaskState
  <2>4. Contents(u)' = Contents(u) BY <2>3 DEF Contents
  <2> QED BY <2>3, <2>4 DEF Keeps, Fills, Alive
<1> QED BY <1>6, <1>7 DEF Evolves

-----------------------------------------------------------------------------
(* The inductive invariant.                                                 *)

\* A connection was made for flow f under this id.
Owner(f, id) ==
    \E t \in Tasks : task[t].phase # "free" /\ task[t].src = f /\ task[t].id = id

UplinkOwned ==
    \A m \in uplink :
        /\ m.from \in Flows
        /\ m.type = "Data" => /\ m.id \in Ids
                              /\ m.payload \in Payloads
                              /\ Owner(m.payload.flow, m.id)

DownOwned == \A m \in down : m.type = "Establish" => Owner(m.to, m.id)

ClientState ==
    [session : 1..MaxSession, phase : {"idle", "waiting", "established", "failed", "closed"},
     id : Ids \cup {NoId}, next : Nat, got : SUBSET Payloads]

UInv ==
    /\ SInv
    /\ client \in [Socks -> ClientState]
    /\ UplinkOwned
    /\ DownOwned
    /\ EstablishedIdIsMine
    /\ StrayOnlyAfterForgotten

KeepsAll == \A t \in Tasks : Keeps(t)

\* The flow of a session is one.
LEMMA FlowTyped ==
    ASSUME client \in [Socks -> ClientState], NEW s \in Socks
    PROVE  FlowOf(s) \in Flows
BY ClientAssumption DEF FlowOf, ClientState

\* A connection that was made stays made.
LEMMA OwnerStable ==
    ASSUME KeepsAll, NEW f, NEW id, Owner(f, id)
    PROVE  Owner(f, id)'
BY DEF KeepsAll, Keeps, Owner

\* Stray data was stray before, as long as nothing is queued.
LEMMA StrayKept ==
    ASSUME StrayOnlyAfterForgotten, Evolves
    PROVE  StrayOnlyAfterForgotten'
<1> SUFFICES ASSUME NEW t \in Tasks, NEW p \in Contents(t)', p.flow # task'[t].src
             PROVE  \E u \in Tasks : /\ task'[u].src = p.flow
                                     /\ task'[u].id = task'[t].id
                                     /\ task'[u].phase # "free"
                                     /\ ~Alive(u)'
  BY DEF StrayOnlyAfterForgotten, Contents
<1>1. p \in Contents(t) /\ task'[t].src = task[t].src /\ task'[t].id = task[t].id
  BY DEF Evolves, Fills
<1>2. PICK u \in Tasks : /\ task[u].src = p.flow /\ task[u].id = task[t].id
                         /\ task[u].phase # "free" /\ ~Alive(u)
  BY <1>1 DEF StrayOnlyAfterForgotten, Contents
<1>3. Keeps(u) BY DEF Evolves
<1> QED BY <1>1, <1>2, <1>3 DEF Keeps

\* The living task with an id is its holder.
LEMMA AliveIsHolder ==
    ASSUME SInv, NEW u \in Tasks, Alive(u), NEW id \in Ids, task[u].id = id
    PROVE  HasId(map, id) /\ Holder(id) = u
<1>1. PICK i \in 1..Len(map) : map[i].task = u
  BY DEF SInv, MapHoldsAlive, InMap
<1>2. map[i].id = id
  BY <1>1 DEF SInv, MapHoldsAlive
<1>3. Get(map, id) = map[i] /\ HasId(map, id)
  BY <1>2, HolderAt DEF SInv
<1> QED BY <1>1, <1>3 DEF Holder

\* Data is queued for the holder of its id; when that is not the connection it was
\* meant for, the latter is gone.
LEMMA DataQueuedStray ==
    ASSUME SInv, StrayOnlyAfterForgotten, NEW id \in Ids, NEW p \in Payloads, DataQueued(id, p),
           Owner(p.flow, id)
    PROVE  KeepsAll /\ StrayOnlyAfterForgotten'
<1>0. HasId(map, id) /\ Holder(id) \in Tasks
      /\ \E i \in 1..Len(map) : map[i].task = Holder(id) /\ map[i].id = id
  BY HolderTyped DEF DataQueued, SInv, Holder
<1>2. PICK h \in Tasks : h = Holder(id) /\ \E i \in 1..Len(map) : map[i].task = h /\ map[i].id = id
  BY <1>0
<1> DEFINE q == task[h].queue
           new == Append(q, p)
           r == [task[h] EXCEPT !.queue = new]
<1>1. task' = [task EXCEPT ![h] = r]
  BY <1>2 DEF DataQueued
<1>3. task[h].id = id BY <1>2 DEF SInv, MapHoldsAlive
<1>4. task[h] \in TaskState /\ task \in [Tasks -> TaskState] /\ q \in Seq(Payloads)
  BY <1>2 DEF SInv, ServerTypeOK, TaskState
<1>5. {new[i] : i \in 1..Len(new)} \subseteq {q[i] : i \in 1..Len(q)} \cup {p}
  <2> HIDE DEF q
  <2> QED BY <1>4
<1> HIDE DEF new
<1>6. /\ r.phase = task[h].phase /\ r.src = task[h].src /\ r.id = task[h].id
      /\ r.queue = new /\ r.echo = task[h].echo /\ r.cancelled = task[h].cancelled
  BY <1>4 DEF TaskState
<1> HIDE DEF r, q
<1>7. task'[h] = r /\ \A u \in Tasks \ {h} : task'[u] = task[u]
  BY <1>1, <1>2, <1>4
<1>8. \A u \in Tasks : /\ task'[u].phase = task[u].phase /\ task'[u].src = task[u].src
                       /\ task'[u].id = task[u].id /\ task'[u].cancelled = task[u].cancelled
                       /\ u # h => Contents(u)' = Contents(u)
  <2> TAKE u \in Tasks
  <2>1. CASE u = h BY <1>6, <1>7, <2>1
  <2>2. CASE u # h BY <1>7, <2>2 DEF Contents
  <2> QED BY <2>1, <2>2
<1>9. KeepsAll BY <1>8 DEF KeepsAll, Keeps, Alive
<1>10. Contents(h)' \subseteq Contents(h) \cup {p}
  BY <1>5, <1>6, <1>7 DEF Contents, q
<1> SUFFICES ASSUME NEW t \in Tasks, NEW x \in Contents(t)', x.flow # task'[t].src
             PROVE  \E u \in Tasks : /\ task'[u].src = x.flow
                                     /\ task'[u].id = task'[t].id
                                     /\ task'[u].phase # "free"
                                     /\ ~Alive(u)'
  BY <1>9 DEF StrayOnlyAfterForgotten, Contents
<1>11. CASE x \in Contents(t)
  <2>1. PICK u \in Tasks : /\ task[u].src = x.flow /\ task[u].id = task[t].id
                           /\ task[u].phase # "free" /\ ~Alive(u)
    BY <1>8, <1>11 DEF StrayOnlyAfterForgotten, Contents
  <2>2. ~Alive(u)' BY <1>8, <2>1 DEF Alive
  <2> QED BY <1>8, <2>1, <2>2
<1>12. CASE x \notin Contents(t)
  <2>1. t = h /\ x = p BY <1>2, <1>8, <1>10, <1>12
  <2>2. PICK u \in Tasks : task[u].phase # "free" /\ task[u].src = p.flow /\ task[u].id = id
    BY DEF Owner
  <2>3. u # h BY <1>8, <2>1, <2>2
  <2>4. ~Alive(u) BY <1>2, <2>2, <2>3, AliveIsHolder
  <2> QED BY <1>3, <1>8, <2>1, <2>2, <2>4 DEF Alive
<1> QED BY <1>11, <1>12

\* A step of the server: the clients stand still, and the messages that appear are
\* those of connections.
LEMMA ServerStepInv ==
    ASSUME UInv, SInv', KeepsAll, StrayOnlyAfterForgotten', DownOwned',
           client' = client, uplink' \subseteq uplink
    PROVE  UInv'
<1>1. UplinkOwned'
  <2> SUFFICES ASSUME NEW m \in uplink'
               PROVE  /\ m.from \in Flows
                      /\ m.type = "Data" => /\ m.id \in Ids
                                            /\ m.payload \in Payloads
                                            /\ Owner(m.payload.flow, m.id)'
    BY DEF UplinkOwned, Owner
  <2>1. /\ m.from \in Flows
        /\ m.type = "Data" => /\ m.id \in Ids
                              /\ m.payload \in Payloads
                              /\ Owner(m.payload.flow, m.id)
    BY DEF UInv, UplinkOwned
  <2> QED BY <2>1, OwnerStable
<1>2. EstablishedIdIsMine'
  <2> SUFFICES ASSUME NEW s \in Socks, client[s].phase = "established"
               PROVE  Owner(FlowOf(s), client[s].id)'
    BY DEF EstablishedIdIsMine, Owner
  <2> DEFINE f == FlowOf(s)
             id == client[s].id
  <2>1. PICK t \in Tasks : task[t].phase # "free" /\ task[t].src = f /\ task[t].id = id
    BY DEF UInv, EstablishedIdIsMine
  <2>2. f' = f /\ id' = id BY DEF FlowOf
  <2>3. task'[t].phase # "free" /\ task'[t].src = f /\ task'[t].id = id
    BY <2>1 DEF KeepsAll, Keeps
  <2> HIDE DEF f, id
  <2>4. task'[t].phase # "free" /\ task'[t].src = f' /\ task'[t].id = id'
    BY <2>2, <2>3
  <2> QED BY <2>4 DEF Owner, f, id
<1>3. client' \in [Socks -> ClientState] BY DEF UInv
<1> QED BY <1>1, <1>2, <1>3 DEF UInv

\* Messages that leave the network, and Data for clients, need no owner.
LEMMA DownKept ==
    ASSUME DownOwned, KeepsAll, \A m \in down' : m \in down \/ m.type = "Data"
    PROVE  DownOwned'
<1> SUFFICES ASSUME NEW m \in down', m.type = "Establish" PROVE Owner(m.to, m.id)'
  BY DEF DownOwned, Owner
<1>1. Owner(m.to, m.id) BY DEF DownOwned
<1> QED BY <1>1, OwnerStable

\* The server receives a message of a client: a step of ServerNext for which the
\* message has the arguments.
LEMMA ServerReceivesInv ==
    ASSUME UInv, NEW m \in uplink, ServerReceives(m)
    PROVE  UInv' /\ [ServerNext]_serverVars
<1>1. /\ client' = client /\ uplink' \subseteq uplink /\ m.from \in Flows
      /\ m.type = "Data" => /\ m.id \in Ids /\ m.payload \in Payloads
                            /\ Owner(m.payload.flow, m.id)
  BY DEF ServerReceives, TakeUplink, UInv, UplinkOwned
<1>2. SInv /\ StrayOnlyAfterForgotten /\ DownOwned BY DEF UInv
<1>3. CASE ServeConnect(m.from)
  <2>1. ServerNext BY <1>1, <1>3 DEF ServerNext
  <2>2. SInv' BY <1>2, <2>1, ServerNextInv
  <2>3. Evolves BY <1>1, <1>2, <1>3, ServeConnectEvolves
  <2>4. KeepsAll BY <2>3 DEF Evolves, KeepsAll
  <2>5. down' = down BY <1>3 DEF ServeConnect
  <2>6. DownOwned' BY <1>2, <2>4, <2>5, DownKept
  <2>7. StrayOnlyAfterForgotten' BY <1>2, <2>3, StrayKept
  <2> QED BY <1>1, <2>1, <2>2, <2>4, <2>6, <2>7, ServerStepInv
<1>4. CASE RefuseConnect \/ DataUnknown(m.id) \/ DataFull(m.id)
  <2>1. UNCHANGED serverVars BY <1>4 DEF RefuseConnect, DataUnknown, DataFull
  <2>2. task' = task /\ down' = down BY <2>1 DEF serverVars
  <2>3. Evolves BY <2>2, SameTasksEvolve
  <2>4. KeepsAll BY <2>3 DEF Evolves, KeepsAll
  <2>5. SInv' BY <1>2, <2>1, ServerNextInv
  <2>6. DownOwned' BY <1>2, <2>2, <2>4, DownKept
  <2>7. StrayOnlyAfterForgotten' BY <1>2, <2>3, StrayKept
  <2> QED BY <1>1, <2>1, <2>4, <2>5, <2>6, <2>7, ServerStepInv
<1>5. CASE m.type = "Data" /\ DataQueued(m.id, m.payload)
  <2>1. ServerNext BY <1>1, <1>5 DEF ServerNext
  <2>2. SInv' BY <1>2, <2>1, ServerNextInv
  <2>3. KeepsAll /\ StrayOnlyAfterForgotten' BY <1>1, <1>2, <1>5, DataQueuedStray
  <2>4. down' = down BY <1>5 DEF DataQueued
  <2>5. DownOwned' BY <1>2, <2>3, <2>4, DownKept
  <2> QED BY <1>1, <2>1, <2>2, <2>3, <2>5, ServerStepInv
<1>6. CASE m.type = "Data" /\ DataDisconnected(m.id)
  <2>1. ServerNext BY <1>1, <1>6 DEF ServerNext
  <2>2. SInv' BY <1>2, <2>1, ServerNextInv
  <2>3. task' = CancelHolder(m.id) /\ down' = down BY <1>6 DEF DataDisconnected
  <2>4. Evolves BY <1>2, <2>3, CancelHolderEvolves
  <2>5. KeepsAll BY <2>4 DEF Evolves, KeepsAll
  <2>6. DownOwned' BY <1>2, <2>3, <2>5, DownKept
  <2>7. StrayOnlyAfterForgotten' BY <1>2, <2>4, StrayKept
  <2> QED BY <1>1, <2>1, <2>2, <2>5, <2>6, <2>7, ServerStepInv
<1> QED BY <1>3, <1>4, <1>5, <1>6 DEF ServerReceives

\* A task of the server runs, or serve stops: an Establish it sends is its own.
LEMMA ServerRunsInv ==
    ASSUME UInv, ServerRuns
    PROVE  UInv' /\ ServerNext
<1>1. client' = client /\ uplink' \subseteq uplink BY DEF ServerRuns, clientVars
<1>2. SInv /\ StrayOnlyAfterForgotten /\ DownOwned BY DEF UInv
<1>3. ServerNext BY DEF ServerRuns, ServerNext
<1>4. SInv' BY <1>2, <1>3, ServerNextInv
<1>5. Evolves
  <2>1. ASSUME NEW t \in Tasks, TaskStep(t) PROVE Evolves
    <3>1. CASE Forget(t) BY <1>2, <3>1, ForgetEvolves
    <3>2. CASE ~Forget(t) BY <1>2, <2>1, <3>2, TaskRunsEvolves DEF TaskStep
    <3> QED BY <3>1, <3>2
  <2> QED BY <1>2, <2>1, ServeStopsEvolves DEF ServerRuns
<1>6. KeepsAll BY <1>5 DEF Evolves, KeepsAll
<1>7. StrayOnlyAfterForgotten' BY <1>2, <1>5, StrayKept
<1>8. DownOwned'
  <2>1. ASSUME NEW t \in Tasks, NEW reply \in Replies, Establish(t, reply) PROVE DownOwned'
    <3>0. PICK f, id : f = task[t].src /\ id = task[t].id OBVIOUS
    <3> DEFINE e == EstablishMsg(f, id, reply)
    <3>1. down' = down \cup {e} /\ task[t].phase = "waitReply"
      BY <2>1, <3>0 DEF Establish, Running
    <3>2. e.to = f /\ e.id = id BY DEF EstablishMsg
    <3>3. Owner(f, id) BY <3>0, <3>1 DEF Owner
    <3>4. Owner(f, id)' BY <1>6, <3>3, OwnerStable
    <3> HIDE DEF e
    <3> SUFFICES ASSUME NEW m \in down', m.type = "Establish" PROVE Owner(m.to, m.id)'
      BY DEF DownOwned, Owner
    <3>5. CASE m = e BY <3>2, <3>4, <3>5
    <3>6. CASE m \in down
      <4>1. Owner(m.to, m.id) BY <1>2, <3>6 DEF DownOwned
      <4> QED BY <1>6, <4>1, OwnerStable
    <3> QED BY <3>1, <3>5, <3>6
  <2>2. ASSUME NEW t \in Tasks, NEW p \in Payloads, Download(t, p) PROVE DownOwned'
    <3>1. down' = down \cup {DataMsg(task[t].src, p)} BY <2>2 DEF Download
    <3>2. DataMsg(task[t].src, p).type = "Data" BY DEF DataMsg
    <3> QED BY <1>2, <1>6, <3>1, <3>2, DownKept
  <2>3. CASE down' = down BY <1>2, <1>6, <2>3, DownKept
  <2>4. ASSUME NEW t \in Tasks, TaskStep(t) PROVE DownOwned'
    <3>1. \/ \E reply \in Replies : Establish(t, reply)
          \/ \E p \in Payloads : Download(t, p)
          \/ down' = down
      BY <2>4 DEF TaskStep, BindUpstream, SetupFails, Upload, UploadFails, Finish,
                  DropUnpolled, Forget
    <3> QED BY <2>1, <2>2, <2>3, <3>1
  <2>5. CASE ServeStops BY <2>3, <2>5 DEF ServeStops
  <2> QED BY <2>4, <2>5 DEF ServerRuns
<1> QED BY <1>1, <1>3, <1>4, <1>6, <1>7, <1>8, ServerStepInv

\* A step of the client of socket s: the server stands still but for a message that
\* leaves the network, an established session has an id of its own, and the message
\* that the client may send is owned.
LEMMA ClientStepInv ==
    ASSUME UInv, NEW s \in Socks, NEW c \in ClientState, client' = [client EXCEPT ![s] = c],
           UNCHANGED <<up, map, task>>,
           down' = down \/ \E m \in down : down' = down \ {m},
           c.phase = "established" => Owner([sock |-> s, session |-> c.session], c.id),
           \A m \in uplink' : \/ m \in uplink
                              \/ m.type = "Connect" /\ m.from \in Flows
                              \/ /\ m.from \in Flows /\ m.id \in Ids /\ m.payload \in Payloads
                                 /\ Owner(m.payload.flow, m.id)
    PROVE  UInv' /\ [ServerNext]_serverVars
<1>1. SInv /\ DownOwned /\ StrayOnlyAfterForgotten /\ UplinkOwned /\ EstablishedIdIsMine
      /\ client \in [Socks -> ClientState]
  BY DEF UInv
<1>2. SInv'
  <2>1. DownTyped' BY <1>1 DEF SInv, ServerTypeOK, DownTyped
  <2> QED BY <1>1, <2>1, NoChange
<1>3. \A f, id : Owner(f, id)' <=> Owner(f, id) BY DEF Owner
<1>4. DownOwned' BY <1>1, <1>3 DEF DownOwned
<1>5. UplinkOwned' BY <1>1, <1>3 DEF UplinkOwned
<1>6. client' \in [Socks -> ClientState] /\ client'[s] = c
      /\ \A u \in Socks \ {s} : client'[u] = client[u]
  BY <1>1
<1>7. EstablishedIdIsMine'
  <2> SUFFICES ASSUME NEW u \in Socks, client'[u].phase = "established"
               PROVE  Owner([sock |-> u, session |-> client'[u].session], client'[u].id)
    BY DEF EstablishedIdIsMine, FlowOf, Owner
  <2>1. CASE u = s BY <1>6, <2>1
  <2>2. CASE u # s
    <3>1. client'[u] = client[u] BY <1>6, <2>2
    <3>2. Owner(FlowOf(u), client[u].id) BY <1>1, <3>1 DEF EstablishedIdIsMine, Owner
    <3> QED BY <3>1, <3>2 DEF FlowOf
  <2> QED BY <2>1, <2>2
<1>8. StrayOnlyAfterForgotten' BY <1>1 DEF StrayOnlyAfterForgotten, Alive
<1>9. [ServerNext]_serverVars
  BY DEF ServerNext, LeaveNetwork, serverVars
<1> QED BY <1>2, <1>4, <1>5, <1>6, <1>7, <1>8, <1>9 DEF UInv

\* new_datagram and its tasks: only an Establish with the uuid of the Connect makes
\* a session established, and its id goes into every Data message.
LEMMA ClientInv ==
    ASSUME UInv, NEW s \in Socks,
           \/ SendConnect(s) \/ EstablishTimeout(s) \/ SendData(s) \/ CloseSocket(s)
           \/ \E m \in down : \/ ReceiveEstablish(s, m)
                             \/ ReceiveWrongFirst(s, m)
                             \/ ReceiveData(s, m)
                             \/ ReceiveOther(s, m)
    PROVE  UInv' /\ [ServerNext]_serverVars
<1>1. client \in [Socks -> ClientState] /\ client[s] \in ClientState /\ FlowOf(s) \in Flows
  BY FlowTyped DEF UInv
<1>2. FlowOf(s) = [sock |-> s, session |-> client[s].session] BY DEF FlowOf
<1>3. client[s].phase = "established" => Owner(FlowOf(s), client[s].id)
  BY DEF UInv, EstablishedIdIsMine, Owner
<1>4. ASSUME NEW m \in down PROVE m.payloads \in SUBSET Payloads /\ m.id \in Ids \cup {NoId}
  BY DEF UInv, SInv, ServerTypeOK, Replies, NoReply
<1>5. ASSUME NEW m, TakeDown(m), m \in down
      PROVE  down' = down \/ \E d \in down : down' = down \ {d}
  BY <1>5 DEF TakeDown
<1>6. CASE SendConnect(s)
  <2> DEFINE c == [client[s] EXCEPT !.phase = "waiting"]
             msg == ConnectMsg(FlowOf(s))
  <2>1. /\ client' = [client EXCEPT ![s] = c] /\ UNCHANGED <<up, map, task, down>>
        /\ uplink' = uplink \cup {msg}
    BY <1>6 DEF SendConnect, serverVars
  <2>2. c \in ClientState /\ c.phase = "waiting" BY <1>1 DEF ClientState
  <2>3. msg.type = "Connect" /\ msg.from \in Flows BY <1>1 DEF ConnectMsg
  <2> HIDE DEF c, msg
  <2> QED BY <2>1, <2>2, <2>3, ClientStepInv
<1>7. CASE EstablishTimeout(s)
  <2> DEFINE c == [client[s] EXCEPT !.phase = "failed"]
  <2>1. client' = [client EXCEPT ![s] = c] /\ UNCHANGED <<up, map, task, down, uplink>>
    BY <1>7 DEF EstablishTimeout, serverVars
  <2>2. c \in ClientState /\ c.phase = "failed" BY <1>1 DEF ClientState
  <2> HIDE DEF c
  <2> QED BY <2>1, <2>2, ClientStepInv
<1>8. CASE SendData(s)
  <2> DEFINE n == client[s].next
             c == [client[s] EXCEPT !.next = n + 1]
             pay == [flow |-> FlowOf(s), seq |-> n]
             msg == UplinkData(FlowOf(s), client[s].id, pay)
  <2>1. /\ client' = [client EXCEPT ![s] = c] /\ UNCHANGED <<up, map, task, down>>
        /\ uplink' = uplink \cup {msg} /\ n <= MaxSeq /\ client[s].phase = "established"
    BY <1>8 DEF SendData, serverVars
  <2>2. n \in Nat BY <1>1 DEF ClientState
  <2>3. c \in ClientState /\ c.session = client[s].session /\ c.id = client[s].id
    <3> DEFINE k == n + 1
    <3>1. k \in Nat BY <2>2
    <3> HIDE DEF k
    <3>2. [client[s] EXCEPT !.next = k] \in ClientState
          /\ [client[s] EXCEPT !.next = k].session = client[s].session
          /\ [client[s] EXCEPT !.next = k].id = client[s].id
      BY <1>1, <3>1 DEF ClientState
    <3> QED BY <3>2 DEF k
  <2>4. n \in 0..MaxSeq BY <2>1, <2>2, ServerAssumption
  <2>5. pay \in Payloads /\ pay.flow = FlowOf(s) BY <1>1, <2>4 DEF Payloads
  <2>6. client[s].id \in Ids
    <3>1. PICK t \in Tasks : task[t].id = client[s].id BY <1>3, <2>1 DEF Owner
    <3> QED BY <3>1 DEF UInv, SInv, ServerTypeOK, TaskState
  <2> HIDE DEF pay, c
  <2>7. /\ msg.from \in Flows /\ msg.id \in Ids /\ msg.payload \in Payloads
        /\ Owner(msg.payload.flow, msg.id)
    BY <1>1, <1>3, <2>1, <2>5, <2>6 DEF UplinkData
  <2> HIDE DEF msg
  <2>8. Owner([sock |-> s, session |-> c.session], c.id) BY <1>2, <1>3, <2>1, <2>3
  <2> QED BY <2>1, <2>3, <2>7, <2>8, ClientStepInv
<1>9. CASE CloseSocket(s)
  <2> DEFINE n == client[s].session
             c == IF n < MaxSession THEN NewClient(n + 1)
                                    ELSE [client[s] EXCEPT !.phase = "closed"]
  <2>1. client' = [client EXCEPT ![s] = c] /\ UNCHANGED <<up, map, task, down, uplink>>
    BY <1>9 DEF CloseSocket, serverVars
  <2>2. c \in ClientState /\ c.phase # "established"
    <3>1. CASE n < MaxSession
      <4> DEFINE k == n + 1
      <4>1. n \in 1..MaxSession BY <1>1 DEF ClientState
      <4>2. k \in 1..MaxSession BY <3>1, <4>1, ClientAssumption
      <4> HIDE DEF k
      <4>3. NewClient(k) \in ClientState /\ NewClient(k).phase = "idle"
        BY <4>2 DEF NewClient, ClientState
      <4> QED BY <3>1, <4>3 DEF k
    <3>2. CASE ~(n < MaxSession)
      <4>1. [client[s] EXCEPT !.phase = "closed"] \in ClientState
            /\ [client[s] EXCEPT !.phase = "closed"].phase = "closed"
        BY <1>1 DEF ClientState
      <4> QED BY <3>2, <4>1
    <3> QED BY <3>1, <3>2
  <2> HIDE DEF c
  <2> QED BY <2>1, <2>2, ClientStepInv
<1>10. ASSUME NEW m \in down, ReceiveEstablish(s, m) PROVE UInv' /\ [ServerNext]_serverVars
  <2> DEFINE g == client[s].got \cup m.payloads
             i == m.id
             c == [client[s] EXCEPT !.phase = "established", !.id = i, !.got = g]
  <2>1. /\ client' = [client EXCEPT ![s] = c] /\ UNCHANGED <<up, map, task, uplink>>
        /\ TakeDown(m) /\ m.type = "Establish" /\ m.to = FlowOf(s)
    BY <1>10 DEF ReceiveEstablish, Accepts
  <2>2. g \in SUBSET Payloads /\ i \in Ids \cup {NoId} BY <1>1, <1>4 DEF ClientState
  <2>3. Owner(FlowOf(s), i) BY <2>1 DEF UInv, DownOwned
  <2> HIDE DEF g, i
  <2>4. c \in ClientState /\ c.session = client[s].session /\ c.id = i
    BY <1>1, <2>2 DEF ClientState
  <2> HIDE DEF c
  <2> QED BY <1>2, <1>5, <2>1, <2>3, <2>4, ClientStepInv
<1>11. ASSUME NEW m \in down, ReceiveWrongFirst(s, m) PROVE UInv' /\ [ServerNext]_serverVars
  <2> DEFINE c == [client[s] EXCEPT !.phase = "failed"]
  <2>1. /\ client' = [client EXCEPT ![s] = c] /\ UNCHANGED <<up, map, task, uplink>>
        /\ TakeDown(m)
    BY <1>11 DEF ReceiveWrongFirst
  <2>2. c \in ClientState /\ c.phase = "failed" BY <1>1 DEF ClientState
  <2> HIDE DEF c
  <2> QED BY <1>5, <2>1, <2>2, ClientStepInv
<1>12. ASSUME NEW m \in down, ReceiveData(s, m) PROVE UInv' /\ [ServerNext]_serverVars
  <2> DEFINE g == client[s].got \cup m.payloads
             c == [client[s] EXCEPT !.got = g]
  <2>1. /\ client' = [client EXCEPT ![s] = c] /\ UNCHANGED <<up, map, task, uplink>>
        /\ TakeDown(m) /\ client[s].phase = "established"
    BY <1>12 DEF ReceiveData
  <2>2. g \in SUBSET Payloads BY <1>1, <1>4 DEF ClientState
  <2> HIDE DEF g
  <2>3. c \in ClientState /\ c.session = client[s].session /\ c.id = client[s].id
    BY <1>1, <2>2 DEF ClientState
  <2> HIDE DEF c
  <2> QED BY <1>2, <1>3, <1>5, <2>1, <2>3, ClientStepInv
<1>13. ASSUME NEW m \in down, ReceiveOther(s, m) PROVE UInv' /\ [ServerNext]_serverVars
  <2> DEFINE c == client[s]
  <2>1. /\ client' = [client EXCEPT ![s] = c] /\ UNCHANGED <<up, map, task, uplink>>
        /\ TakeDown(m)
    BY <1>1, <1>13 DEF ReceiveOther
  <2>2. /\ c \in ClientState
        /\ c.phase = "established" => Owner([sock |-> s, session |-> c.session], c.id)
    BY <1>1, <1>2, <1>3
  <2> HIDE DEF c
  <2> QED BY <1>5, <2>1, <2>2, ClientStepInv
<1> QED BY <1>6, <1>7, <1>8, <1>9, <1>10, <1>11, <1>12, <1>13

\* A message is lost.
LEMMA LoseInv ==
    ASSUME UInv, Lose
    PROVE  UInv' /\ [ServerNext]_serverVars
<1>1. /\ UNCHANGED <<up, map, task, client>> /\ uplink' \subseteq uplink
      /\ down' = down \/ \E m \in down : down' = down \ {m}
  BY DEF Lose, LeaveNetwork, clientVars, serverVars
<1>2. SInv /\ DownOwned /\ StrayOnlyAfterForgotten BY DEF UInv
<1>3. [ServerNext]_serverVars BY <1>1 DEF ServerNext, LeaveNetwork, serverVars
<1>4. SInv' BY <1>2, <1>3, ServerNextInv
<1>5. Evolves BY <1>1, SameTasksEvolve
<1>6. KeepsAll BY <1>5 DEF Evolves, KeepsAll
<1>7. DownOwned' BY <1>1, <1>2, <1>6, DownKept
<1>8. StrayOnlyAfterForgotten' BY <1>2, <1>5, StrayKept
<1> QED BY <1>1, <1>3, <1>4, <1>6, <1>7, <1>8, ServerStepInv

\* Everything starts empty.
LEMMA InitUInv == Init => UInv
<1> SUFFICES ASSUME Init PROVE UInv
  OBVIOUS
<1>1. SInv BY ServerInitInv DEF Init
<1>2. uplink = {} /\ down = {} BY DEF Init, ServerInit
<1>3. 1 \in 1..MaxSession
  <2>1. PICK f \in Flows : TRUE BY ServerAssumption
  <2>2. 1..MaxSession # {} BY <2>1, ClientAssumption
  <2> QED BY <2>2, ClientAssumption
<1> DEFINE k == 1
<1>4. client = [s \in Socks |-> NewClient(k)] /\ k \in 1..MaxSession BY <1>3 DEF Init
<1> HIDE DEF k
<1>5. NewClient(k) \in ClientState /\ NewClient(k).phase = "idle"
  BY <1>4 DEF NewClient, ClientState
<1>6. client \in [Socks -> ClientState] /\ EstablishedIdIsMine
  BY <1>4, <1>5 DEF EstablishedIdIsMine
<1>7. StrayOnlyAfterForgotten
  <2>1. ASSUME NEW t \in Tasks PROVE task[t].queue = <<>> /\ task[t].echo = {}
    BY DEF Init, ServerInit, FreeTask
  <2>2. ASSUME NEW t \in Tasks
        PROVE  {task[t].queue[i] : i \in 1..Len(task[t].queue)} \cup task[t].echo = {}
    BY <2>1
  <2> QED BY <2>2 DEF StrayOnlyAfterForgotten
<1> QED BY <1>1, <1>2, <1>6, <1>7 DEF UInv, UplinkOwned, DownOwned

\* Every step of clients, network and server keeps the invariant, and is a step of
\* the server's own specification or leaves the server alone.
LEMMA NextUInv == UInv /\ [Next]_vars => UInv' /\ [ServerNext]_serverVars
<1> SUFFICES ASSUME UInv, [Next]_vars PROVE UInv' /\ [ServerNext]_serverVars
  OBVIOUS
<1>1. ASSUME NEW m \in uplink, ServerReceives(m) PROVE UInv' /\ [ServerNext]_serverVars
  BY <1>1, ServerReceivesInv
<1>2. CASE ServerRuns BY <1>2, ServerRunsInv
<1>3. ASSUME NEW s \in Socks,
             \/ SendConnect(s) \/ EstablishTimeout(s) \/ SendData(s) \/ CloseSocket(s)
             \/ \E m \in down : \/ ReceiveEstablish(s, m)
                                \/ ReceiveWrongFirst(s, m)
                                \/ ReceiveData(s, m)
                                \/ ReceiveOther(s, m)
      PROVE  UInv' /\ [ServerNext]_serverVars
  BY <1>3, ClientInv
<1>4. CASE Lose BY <1>4, LoseInv
<1>5. CASE UNCHANGED vars
  <2>1. UNCHANGED <<up, map, task, down, client, uplink>>
    BY <1>5 DEF vars, serverVars, clientVars
  <2>2. UNCHANGED serverVars BY <2>1 DEF serverVars
  <2>3. SInv' BY <2>2, ServerNextInv DEF UInv
  <2>4. Evolves BY <2>1, SameTasksEvolve
  <2>5. KeepsAll BY <2>4 DEF Evolves, KeepsAll
  <2>6. DownOwned' BY <2>1, <2>5, DownKept DEF UInv
  <2>7. StrayOnlyAfterForgotten' BY <2>4, StrayKept DEF UInv
  <2> QED BY <2>1, <2>2, <2>3, <2>5, <2>6, <2>7, ServerStepInv
<1> QED BY <1>1, <1>2, <1>3, <1>4, <1>5 DEF Next

\* The inductive invariant holds in every state.
LEMMA EndToEndInvariance == Spec => []UInv
<1>1. UInv /\ [Next]_vars => UInv' BY NextUInv
<1> QED BY <1>1, InitUInv, PTL DEF Spec

-----------------------------------------------------------------------------
\* An established session sends under an id that the server gave to a connection of
\* this very session, whatever the network lost, duplicated or kept for later and
\* whatever sessions its address had before.
THEOREM EstablishedIdIsMineTheorem == Spec => []EstablishedIdIsMine
<1>1. UInv => EstablishedIdIsMine BY DEF UInv
<1> QED BY <1>1, EndToEndInvariance, PTL

\* Data reaches a connection of another flow only after the connection it was meant
\* for has ended or been cancelled and its id was given away.
THEOREM StrayOnlyAfterForgottenTheorem == Spec => []StrayOnlyAfterForgotten
<1>1. UInv => StrayOnlyAfterForgotten BY DEF UInv
<1> QED BY <1>1, EndToEndInvariance, PTL

\* The server among its clients implements the server's specification, in which
\* messages arrive as arbitrary calls: what is proved of ServerSpec holds end to end.
THEOREM ServedClientsImplementServer == Spec => ServerSpec
<1>1. Init => ServerInit BY DEF Init
<1>2. UInv /\ [Next]_vars => [ServerNext]_serverVars BY NextUInv
<1> QED BY <1>1, <1>2, EndToEndInvariance, PTL DEF Spec, ServerSpec

\* So no connection leaks end to end either: the map holds exactly the connections
\* whose task lives, in the order binary search relies on.
COROLLARY EndToEndMap == Spec => [](MapSorted /\ MapHoldsAlive)
BY ServedClientsImplementServer, MapStaysSorted, NoConnectionLeaks, PTL

-----------------------------------------------------------------------------
(* The codec, for every message: the bytes of a message are natural numbers *)
(* of which only the first and the length of the uuid are looked at.        *)

Bytes == Seq(Nat)

IsSocketAddr(a) ==
    /\ a = [ip |-> a.ip, port |-> a.port]
    /\ a.ip \in Bytes /\ Len(a.ip) \in {4, 16}
    /\ a.port \in Bytes /\ Len(a.port) = 2

IsU16(x) == x \in Bytes /\ Len(x) = 2

\* Nothing, or a u16.
IsOptU16(o) == o = {} \/ \E x : IsU16(x) /\ o = {x}

\* Nothing, or the first answer of the destination.
IsReply(reply) ==
    \/ reply = {}
    \/ \E data \in Bytes : \E addr :
         IsSocketAddr(addr) /\ reply = {[data |-> data, addr |-> addr]}

\* What to_writer can write: write_uuid refuses a uuid of more than 255 bytes.
IsConnect(m) ==
    \E uuid \in Bytes, data \in Bytes : \E dst, nonce :
        /\ Len(uuid) <= 255
        /\ IsSocketAddr(dst)
        /\ IsOptU16(nonce)
        /\ m = Proto!Connect(uuid, dst, nonce, data)

IsEstablish(m) ==
    \E uuid \in Bytes : \E id, reply :
        /\ Len(uuid) <= 255
        /\ IsU16(id)
        /\ IsReply(reply)
        /\ m = Proto!Establish(uuid, id, reply)

IsData(m) ==
    \E data \in Bytes : \E id, addr, nonce :
        /\ IsOptU16(id)
        /\ addr = {} \/ \E a : IsSocketAddr(a) /\ addr = {a}
        /\ IsOptU16(nonce)
        /\ m = Proto!Data(id, addr, nonce, data)

\* What is written before stays where it is, what is written now is found behind it.
LEMMA Appended ==
    ASSUME NEW s \in Bytes, NEW t \in Bytes
    PROVE  /\ s \o t \in Bytes
           /\ Len(s) \in Nat /\ Len(t) \in Nat
           /\ Len(s \o t) = Len(s) + Len(t)
           /\ \A i \in 1..Len(s) : (s \o t)[i] = s[i]
           /\ \A i \in Nat \ {0}, n \in Nat :
                i + n <= Len(s) + 1 => Proto!Slice(s \o t, i, n) = Proto!Slice(s, i, n)
           /\ Proto!Slice(s \o t, Len(s) + 1, Len(t)) = t
<1>1. PICK w : w = s \o t
  OBVIOUS
<1>2. /\ w \in Bytes /\ Len(s) \in Nat /\ Len(t) \in Nat
      /\ Len(w) = Len(s) + Len(t)
      /\ \A i \in 1..(Len(s) + Len(t)) : w[i] = IF i <= Len(s) THEN s[i] ELSE t[i - Len(s)]
  BY <1>1, ConcatProperties, LenProperties DEF Bytes
<1>3. \A i \in 1..Len(s) : w[i] = s[i]
  BY <1>2
<1>4. (\A i \in 1..Len(s) : s[i] \in Nat) /\ (\A i \in 1..Len(t) : t[i] \in Nat)
      /\ (\A i \in 1..Len(w) : w[i] \in Nat)
  BY <1>2, ElementOfSeq DEF Bytes
<1>5. ASSUME NEW i \in Nat \ {0}, NEW n \in Nat, i + n <= Len(s) + 1
      PROVE  Proto!Slice(w, i, n) = Proto!Slice(s, i, n)
  <2>1. PICK j \in Int : j = i + n - 1
    OBVIOUS
  <2>2. j <= Len(s) /\ (i <= j => j - i + 1 = n) /\ (i > j => n = 0)
    BY <1>2, <1>5, <2>1
  <2>3. \A k \in i..j : w[k] \in Nat /\ s[k] \in Nat
    BY <1>2, <1>4, <2>2
  <2>4. /\ SubSeq(w, i, j) \in Seq(Nat)
        /\ Len(SubSeq(w, i, j)) = n
        /\ \A k \in 1..(j - i + 1) : SubSeq(w, i, j)[k] = w[i + k - 1]
    BY <2>2, <2>3, SubSeqProperties
  <2>5. /\ SubSeq(s, i, j) \in Seq(Nat)
        /\ Len(SubSeq(s, i, j)) = n
        /\ \A k \in 1..(j - i + 1) : SubSeq(s, i, j)[k] = s[i + k - 1]
    BY <2>2, <2>3, SubSeqProperties
  <2>6. \A k \in 1..n : SubSeq(w, i, j)[k] = SubSeq(s, i, j)[k]
    <3> SUFFICES ASSUME NEW k \in 1..n PROVE SubSeq(w, i, j)[k] = SubSeq(s, i, j)[k]
      OBVIOUS
    <3>1. k \in 1..(j - i + 1) /\ i + k - 1 \in 1..Len(s)
      BY <1>2, <2>1, <2>2
    <3> QED BY <1>3, <2>4, <2>5, <3>1
  <2>7. SubSeq(w, i, j) = SubSeq(s, i, j)
    BY <2>4, <2>5, <2>6, SeqEqual
  <2> QED BY <2>1, <2>7 DEF Proto!Slice
<1>6. Proto!Slice(w, Len(s) + 1, Len(t)) = t
  <2>0. PICK i \in Int : i = Len(s) + 1
    BY <1>2
  <2>01. PICK j \in Int : j = i + Len(t) - 1
    BY <1>2
  <2>1. i = Len(s) + 1 /\ j = i + Len(t) - 1
    BY <2>0, <2>01
  <2>2. \A k \in i..j : w[k] \in Nat
    BY <1>2, <1>4, <2>1
  <2>3. /\ SubSeq(w, i, j) \in Seq(Nat)
        /\ Len(SubSeq(w, i, j)) = IF i <= j THEN j - i + 1 ELSE 0
        /\ \A k \in 1..(j - i + 1) : SubSeq(w, i, j)[k] = w[i + k - 1]
    BY <2>2, SubSeqProperties
  <2>4. Len(SubSeq(w, i, j)) = Len(t)
    BY <1>2, <2>1, <2>3
  <2>5. \A k \in 1..Len(t) : SubSeq(w, i, j)[k] = t[k]
    <3> SUFFICES ASSUME NEW k \in 1..Len(t) PROVE SubSeq(w, i, j)[k] = t[k]
      OBVIOUS
    <3>1. k \in 1..(j - i + 1) /\ i + k - 1 = Len(s) + k
      BY <1>2, <2>1
    <3>2. w[Len(s) + k] = t[k]
      BY <1>2
    <3> QED BY <2>3, <3>1, <3>2
  <2>6. SubSeq(w, i, j) = t
    BY <2>3, <2>4, <2>5, SeqEqual DEF Bytes
  <2> QED BY <2>1, <2>6 DEF Proto!Slice
<1> QED BY <1>1, <1>2, <1>3, <1>5, <1>6

\* Where parse finds the parts of a Connect: n, a and k are the lengths of the uuid,
\* the address and the nonce.
LEMMA ConnectParsed ==
    ASSUME NEW b \in Bytes, Len(b) >= 2, NEW n \in Nat, n = b[2],
           NEW a \in Nat, a = Proto!AddrLen(Proto!HasFlag(b[1], 1)),
           NEW k \in Nat, k = Proto!Takes(2, Proto!HasFlag(b[1], 2))
    PROVE  /\ Len(b) < 2 + n + a + k => Proto!ParseConnect(b) = Proto!Refused
           /\ Len(b) >= 2 + n + a + k =>
                Proto!ParseConnect(b) =
                  Proto!Connect(Proto!Slice(b, 3, n), Proto!SocketAddrAt(b, 3 + n, a),
                                Proto!OptAt(b, 3 + n + a, k), Proto!Rest(b, 3 + n + a + k))
<1>1. Len(b) \in Nat
  BY LenProperties DEF Bytes
<1> QED BY <1>1 DEF Proto!ParseConnect

\* Where it finds the parts of an Establish.
LEMMA EstablishParsed ==
    ASSUME NEW b \in Bytes, Len(b) >= 2, NEW n \in Nat, n = b[2], NEW a \in Nat,
           a = Proto!Takes(Proto!AddrLen(Proto!HasFlag(b[1], 2)), Proto!HasFlag(b[1], 1))
    PROVE  /\ Len(b) < 4 + n + a => Proto!ParseEstablish(b) = Proto!Refused
           /\ Len(b) >= 4 + n + a =>
                Proto!ParseEstablish(b) =
                  Proto!Establish(Proto!Slice(b, 3, n), Proto!Slice(b, 3 + n, 2),
                                  Proto!OptReplyAt(b, 5 + n, a))
<1>1. Len(b) \in Nat
  BY LenProperties DEF Bytes
<1> QED BY <1>1 DEF Proto!ParseEstablish

\* Where it finds the parts of a Data.
LEMMA DataParsed ==
    ASSUME NEW b \in Bytes,
           NEW i \in Nat, i = Proto!Takes(2, Proto!HasFlag(b[1], 1)),
           NEW a \in Nat,
           a = Proto!Takes(Proto!AddrLen(Proto!HasFlag(b[1], 4)), Proto!HasFlag(b[1], 2)),
           NEW k \in Nat, k = Proto!Takes(2, Proto!HasFlag(b[1], 8))
    PROVE  /\ Len(b) < 1 + i + a + k => Proto!ParseData(b) = Proto!Refused
           /\ Len(b) >= 1 + i + a + k =>
                Proto!ParseData(b) =
                  Proto!Data(Proto!OptAt(b, 2, i), Proto!OptAddrAt(b, 2 + i, a),
                             Proto!OptAt(b, 2 + i + a, k), Proto!Rest(b, 2 + i + a + k))
<1>1. Len(b) \in Nat
  BY LenProperties DEF Bytes
<1> QED BY <1>1 DEF Proto!ParseData

\* The lengths of what a flag announces.
LEMMA Lengths ==
    ASSUME NEW v, NEW there
    PROVE  /\ v => Proto!AddrLen(v) = 18
           /\ ~v => Proto!AddrLen(v) = 6
           /\ \A len : there => Proto!Takes(len, there) = len
           /\ \A len : ~there => Proto!Takes(len, there) = 0
BY DEF Proto!AddrLen, Proto!Takes

\* The lengths that parse computes are natural numbers, and an address has a port.
LEMMA LengthsTyped ==
    ASSUME NEW v, NEW there
    PROVE  /\ Proto!AddrLen(v) \in Nat /\ Proto!AddrLen(v) >= 6
           /\ Proto!Takes(2, there) \in Nat
           /\ Proto!Takes(Proto!AddrLen(v), there) \in Nat
           /\ Proto!Takes(Proto!AddrLen(v), there) # 0 => Proto!Takes(Proto!AddrLen(v), there) >= 6
<1>1. Proto!AddrLen(v) = 18 \/ Proto!AddrLen(v) = 6
  BY Lengths, Zenon
<1>2. Proto!Takes(2, there) = 2 \/ Proto!Takes(2, there) = 0
  BY Lengths, Zenon
<1>3. \/ Proto!Takes(Proto!AddrLen(v), there) = Proto!AddrLen(v)
      \/ Proto!Takes(Proto!AddrLen(v), there) = 0
  BY Lengths, Zenon
<1> QED BY <1>1, <1>2, <1>3

\* A message without its payload.
LEMMA BareMessages ==
    /\ \A u, d, n, x : Bare(Proto!Connect(u, d, n, x)) = Proto!Connect(u, d, n, <<>>)
    /\ \A i, a, n, x : Bare(Proto!Data(i, a, n, x)) = Proto!Data(i, a, n, <<>>)
    /\ \A u, i : Bare(Proto!Establish(u, i, {})) = Proto!Establish(u, i, {})
    /\ \A u, i, x, a : Bare(Proto!Establish(u, i, {[data |-> x, addr |-> a]})) =
                         Proto!Establish(u, i, {[data |-> <<>>, addr |-> a]})
<1>1. \A u, d, n, x : Bare(Proto!Connect(u, d, n, x)) = Proto!Connect(u, d, n, <<>>)
  BY DEF Bare, Proto!Connect
<1>2. \A i, a, n, x : Bare(Proto!Data(i, a, n, x)) = Proto!Data(i, a, n, <<>>)
  BY DEF Bare, Proto!Data
<1>3. ASSUME NEW u, NEW i, NEW r
      PROVE  Bare(Proto!Establish(u, i, r)) =
               Proto!Establish(u, i, {[s EXCEPT !.data = <<>>] : s \in r})
  <2>1. PICK w : w = Proto!Establish(u, i, r)
    OBVIOUS
  <2>2. w = [type |-> "Establish", uuid |-> u, id |-> i, reply |-> r]
    BY <2>1 DEF Proto!Establish
  <2> DEFINE R == {[s EXCEPT !.data = <<>>] : s \in r}
  <2>3. Bare(w) = [w EXCEPT !.reply = R]
    BY <2>2 DEF Bare
  <2> HIDE DEF R
  <2>4. [w EXCEPT !.reply = R] = [type |-> "Establish", uuid |-> u, id |-> i, reply |-> R]
    BY <2>2
  <2> QED BY <2>1, <2>3, <2>4 DEF Proto!Establish, R
<1>4. {[s EXCEPT !.data = <<>>] : s \in {}} = {}
  OBVIOUS
<1>5. ASSUME NEW x, NEW a
      PROVE  {[s EXCEPT !.data = <<>>] : s \in {[data |-> x, addr |-> a]}} =
               {[data |-> <<>>, addr |-> a]}
  <2>1. [[data |-> x, addr |-> a] EXCEPT !.data = <<>>] = [data |-> <<>>, addr |-> a]
    OBVIOUS
  <2> QED BY <2>1
<1>6. \A u, i : Bare(Proto!Establish(u, i, {})) = Proto!Establish(u, i, {})
  BY <1>3, <1>4
<1>7. ASSUME NEW u, NEW i, NEW x, NEW a
      PROVE  Bare(Proto!Establish(u, i, {[data |-> x, addr |-> a]})) =
               Proto!Establish(u, i, {[data |-> <<>>, addr |-> a]})
  <2>1. PICK r : r = {[data |-> x, addr |-> a]}
    OBVIOUS
  <2>2. {[s EXCEPT !.data = <<>>] : s \in r} = {[data |-> <<>>, addr |-> a]}
    BY <1>5, <2>1
  <2>3. Bare(Proto!Establish(u, i, r)) =
          Proto!Establish(u, i, {[s EXCEPT !.data = <<>>] : s \in r})
    BY <1>3
  <2> QED BY <2>1, <2>2, <2>3, Zenon
<1> QED BY <1>1, <1>2, <1>6, <1>7

\* A message that is cut short is refused, or differs in the payload only from the
\* whole one.
LEMMA CutParsed ==
    ASSUME NEW c \in Bytes, NEW t \in Bytes
    PROVE  \/ Proto!Parse(c) = Proto!Refused
           \/ Bare(Proto!Parse(c)) = Bare(Proto!Parse(c \o t))
<1>1. PICK b \in Bytes : b = c \o t
  BY Appended
<1>2. /\ b \in Bytes /\ Len(c) \in Nat /\ Len(t) \in Nat /\ Len(b) = Len(c) + Len(t)
      /\ \A i \in 1..Len(c) : b[i] = c[i]
      /\ \A i \in Nat \ {0}, n \in Nat :
           i + n <= Len(c) + 1 => Proto!Slice(b, i, n) = Proto!Slice(c, i, n)
  BY <1>1, Appended
<1>3. CASE c = <<>>
  BY <1>3 DEF Proto!Parse
<1>4. CASE c # <<>>
  <2>1. Len(c) >= 1 /\ b # <<>> /\ b[1] = c[1]
    BY <1>2, <1>4, EmptySeq DEF Bytes
  <2>2. \A i \in 1..Len(c) : c[i] \in Nat
    BY ElementOfSeq DEF Bytes
  <2>3. PICK h : h = c[1]
    OBVIOUS
  <2>4. \A i \in Nat \ {0}, a \in Nat :
           a >= 2 /\ i + a <= Len(c) + 1 =>
             Proto!SocketAddrAt(b, i, a) = Proto!SocketAddrAt(c, i, a)
    <3> SUFFICES ASSUME NEW i \in Nat \ {0}, NEW a \in Nat, a >= 2, i + a <= Len(c) + 1
                 PROVE  Proto!SocketAddrAt(b, i, a) = Proto!SocketAddrAt(c, i, a)
      OBVIOUS
    <3>1. PICK m \in Nat : m = a - 2
      OBVIOUS
    <3>2. PICK j \in Nat \ {0} : j = i + a - 2
      OBVIOUS
    <3>3. i + m <= Len(c) + 1 /\ j + 2 <= Len(c) + 1
      BY <1>2, <3>1, <3>2
    <3>4. Proto!Slice(b, i, m) = Proto!Slice(c, i, m) /\ Proto!Slice(b, j, 2) = Proto!Slice(c, j, 2)
      BY <1>2, <3>3
    <3> QED BY <3>1, <3>2, <3>4 DEF Proto!SocketAddrAt
  <2>5. \A i \in Nat \ {0}, k \in Nat :
           i + k <= Len(c) + 1 => Proto!OptAt(b, i, k) = Proto!OptAt(c, i, k)
    BY <1>2 DEF Proto!OptAt
  <2>6. CASE Proto!TypeOf(h) = 0
    <3>1. Proto!Parse(c) = Proto!ParseConnect(c) /\ Proto!Parse(b) = Proto!ParseConnect(b)
      BY <1>4, <2>1, <2>3, <2>6 DEF Proto!Parse
    <3>2. CASE Len(c) < 2
      BY <3>1, <3>2 DEF Proto!ParseConnect
    <3>3. CASE Len(c) >= 2
      <4>1. PICK n \in Nat : n = c[2] /\ n = b[2]
        BY <1>2, <2>2, <3>3
      <4>2. PICK a \in Nat : a = Proto!AddrLen(Proto!HasFlag(h, 1)) /\ a >= 2
        BY LengthsTyped
      <4>3. PICK k \in Nat : k = Proto!Takes(2, Proto!HasFlag(h, 2))
        BY LengthsTyped
      <4>31. /\ a = Proto!AddrLen(Proto!HasFlag(c[1], 1)) /\ k = Proto!Takes(2, Proto!HasFlag(c[1], 2))
             /\ a = Proto!AddrLen(Proto!HasFlag(b[1], 1)) /\ k = Proto!Takes(2, Proto!HasFlag(b[1], 2))
        BY <2>1, <2>3, <4>2, <4>3, Zenon
      <4>4. /\ Len(c) < 2 + n + a + k => Proto!ParseConnect(c) = Proto!Refused
            /\ Len(c) >= 2 + n + a + k =>
                 Proto!ParseConnect(c) =
                   Proto!Connect(Proto!Slice(c, 3, n), Proto!SocketAddrAt(c, 3 + n, a),
                                 Proto!OptAt(c, 3 + n + a, k), Proto!Rest(c, 3 + n + a + k))
        BY <3>3, <4>1, <4>31, ConnectParsed, Zenon
      <4>5. Len(b) >= 2 /\ (Len(c) >= 2 + n + a + k => Len(b) >= 2 + n + a + k)
        BY <1>2, <3>3
      <4>6. /\ Len(b) < 2 + n + a + k => Proto!ParseConnect(b) = Proto!Refused
            /\ Len(b) >= 2 + n + a + k =>
                 Proto!ParseConnect(b) =
                   Proto!Connect(Proto!Slice(b, 3, n), Proto!SocketAddrAt(b, 3 + n, a),
                                 Proto!OptAt(b, 3 + n + a, k), Proto!Rest(b, 3 + n + a + k))
        BY <4>1, <4>31, <4>5, ConnectParsed, Zenon
      <4>7. CASE Len(c) >= 2 + n + a + k
        <5>1. Proto!Slice(b, 3, n) = Proto!Slice(c, 3, n)
          <6>1. 3 + n <= Len(c) + 1
            BY <1>2, <4>7
          <6> QED BY <1>2, <6>1
        <5>2. Proto!SocketAddrAt(b, 3 + n, a) = Proto!SocketAddrAt(c, 3 + n, a)
          <6>1. PICK i \in Nat \ {0} : i = 3 + n
            OBVIOUS
          <6>2. i + a <= Len(c) + 1
            BY <1>2, <4>7, <6>1
          <6> QED BY <2>4, <4>2, <6>1, <6>2
        <5>3. Proto!OptAt(b, 3 + n + a, k) = Proto!OptAt(c, 3 + n + a, k)
          <6>1. PICK i \in Nat \ {0} : i = 3 + n + a
            OBVIOUS
          <6>2. i + k <= Len(c) + 1
            BY <1>2, <4>7, <6>1
          <6> QED BY <2>5, <6>1, <6>2
        <5> QED BY <1>1, <3>1, <4>4, <4>5, <4>6, <4>7, <5>1, <5>2, <5>3, BareMessages
      <4> QED BY <1>2, <3>1, <4>4, <4>7
    <3> QED BY <1>2, <3>2, <3>3
  <2>7. CASE Proto!TypeOf(h) = 1
    <3>1. Proto!Parse(c) = Proto!ParseEstablish(c) /\ Proto!Parse(b) = Proto!ParseEstablish(b)
      BY <1>4, <2>1, <2>3, <2>7 DEF Proto!Parse
    <3>2. CASE Len(c) < 2
      BY <3>1, <3>2 DEF Proto!ParseEstablish
    <3>3. CASE Len(c) >= 2
      <4>1. PICK n \in Nat : n = c[2] /\ n = b[2]
        BY <1>2, <2>2, <3>3
      <4>2. PICK a \in Nat : /\ a = Proto!Takes(Proto!AddrLen(Proto!HasFlag(h, 2)),
                                                Proto!HasFlag(h, 1))
                             /\ a # 0 => a >= 2
        BY LengthsTyped
      <4>21. /\ a = Proto!Takes(Proto!AddrLen(Proto!HasFlag(c[1], 2)), Proto!HasFlag(c[1], 1))
             /\ a = Proto!Takes(Proto!AddrLen(Proto!HasFlag(b[1], 2)), Proto!HasFlag(b[1], 1))
        BY <2>1, <2>3, <4>2, Zenon
      <4> DEFINE E(x) == Proto!Establish(Proto!Slice(x, 3, n), Proto!Slice(x, 3 + n, 2),
                                         Proto!OptReplyAt(x, 5 + n, a))
      <4>3. /\ Len(c) < 4 + n + a => Proto!ParseEstablish(c) = Proto!Refused
            /\ Len(c) >= 4 + n + a => Proto!ParseEstablish(c) = E(c)
        BY <3>3, <4>1, <4>21, EstablishParsed, Zenon
      <4>4. Len(b) >= 2 /\ (Len(c) >= 4 + n + a => Len(b) >= 4 + n + a)
        BY <1>2, <3>3
      <4>5. Len(b) >= 4 + n + a => Proto!ParseEstablish(b) = E(b)
        BY <1>2, <4>1, <4>21, <4>4, EstablishParsed, Zenon
      <4>6. CASE Len(c) >= 4 + n + a
        <5>1. Proto!Slice(b, 3, n) = Proto!Slice(c, 3, n)
          <6>1. 3 + n <= Len(c) + 1
            BY <1>2, <4>6
          <6> QED BY <1>2, <6>1
        <5>2. Proto!Slice(b, 3 + n, 2) = Proto!Slice(c, 3 + n, 2)
          <6>1. PICK i \in Nat \ {0} : i = 3 + n
            OBVIOUS
          <6>2. i + 2 <= Len(c) + 1
            BY <1>2, <4>6, <6>1
          <6> QED BY <1>2, <6>1, <6>2
        <5>3. CASE a = 0
          <6>1. Proto!OptReplyAt(b, 5 + n, a) = {} /\ Proto!OptReplyAt(c, 5 + n, a) = {}
            BY <5>3 DEF Proto!OptReplyAt, Proto!OptAddrAt
          <6>2. E(b) = E(c)
            BY <5>1, <5>2, <6>1
          <6> HIDE DEF E
          <6> QED BY <1>1, <3>1, <4>3, <4>4, <4>5, <4>6, <6>2
        <5>4. CASE a # 0
          <6>1. PICK i \in Nat \ {0} : i = 5 + n
            OBVIOUS
          <6>2. i + a <= Len(c) + 1
            BY <1>2, <4>6, <6>1
          <6>3. Proto!SocketAddrAt(b, 5 + n, a) = Proto!SocketAddrAt(c, 5 + n, a)
            BY <2>4, <4>2, <5>4, <6>1, <6>2
          <6>4. PICK u, d, p, q, r :
                  /\ u = Proto!Slice(c, 3, n) /\ d = Proto!Slice(c, 3 + n, 2)
                  /\ p = Proto!Rest(c, 5 + n + a) /\ q = Proto!Rest(b, 5 + n + a)
                  /\ r = Proto!SocketAddrAt(c, 5 + n, a)
            OBVIOUS
          <6>5. /\ Proto!OptReplyAt(c, 5 + n, a) = {[data |-> p, addr |-> r]}
                /\ Proto!OptReplyAt(b, 5 + n, a) = {[data |-> q, addr |-> r]}
            BY <5>4, <6>3, <6>4 DEF Proto!OptReplyAt, Proto!OptAddrAt
          <6>6. /\ E(c) = Proto!Establish(u, d, {[data |-> p, addr |-> r]})
                /\ E(b) = Proto!Establish(u, d, {[data |-> q, addr |-> r]})
            BY <5>1, <5>2, <6>4, <6>5
          <6> HIDE DEF E
          <6>61. Bare(Proto!Establish(u, d, {[data |-> p, addr |-> r]})) =
                   Bare(Proto!Establish(u, d, {[data |-> q, addr |-> r]}))
            <7>1. Bare(Proto!Establish(u, d, {[data |-> p, addr |-> r]})) =
                    Proto!Establish(u, d, {[data |-> <<>>, addr |-> r]})
              BY BareMessages, Zenon
            <7>2. Bare(Proto!Establish(u, d, {[data |-> q, addr |-> r]})) =
                    Proto!Establish(u, d, {[data |-> <<>>, addr |-> r]})
              BY BareMessages, Zenon
            <7> QED BY <7>1, <7>2, Zenon
          <6>7. Bare(E(b)) = Bare(E(c))
            BY <6>6, <6>61, Zenon
          <6> QED BY <1>1, <3>1, <4>3, <4>4, <4>5, <4>6, <6>7
        <5> QED BY <5>3, <5>4
      <4> QED BY <1>2, <3>1, <4>3, <4>6
    <3> QED BY <1>2, <3>2, <3>3
  <2>8. CASE Proto!TypeOf(h) = 2
    <3>1. Proto!Parse(c) = Proto!ParseData(c) /\ Proto!Parse(b) = Proto!ParseData(b)
      BY <1>4, <2>1, <2>3, <2>8 DEF Proto!Parse
    <3>2. PICK i \in Nat : i = Proto!Takes(2, Proto!HasFlag(h, 1))
      BY LengthsTyped
    <3>3. PICK a \in Nat : /\ a = Proto!Takes(Proto!AddrLen(Proto!HasFlag(h, 4)),
                                              Proto!HasFlag(h, 2))
                           /\ a # 0 => a >= 2
      BY LengthsTyped
    <3>4. PICK k \in Nat : k = Proto!Takes(2, Proto!HasFlag(h, 8))
      BY LengthsTyped
    <3>41. /\ i = Proto!Takes(2, Proto!HasFlag(c[1], 1)) /\ k = Proto!Takes(2, Proto!HasFlag(c[1], 8))
           /\ i = Proto!Takes(2, Proto!HasFlag(b[1], 1)) /\ k = Proto!Takes(2, Proto!HasFlag(b[1], 8))
           /\ a = Proto!Takes(Proto!AddrLen(Proto!HasFlag(c[1], 4)), Proto!HasFlag(c[1], 2))
           /\ a = Proto!Takes(Proto!AddrLen(Proto!HasFlag(b[1], 4)), Proto!HasFlag(b[1], 2))
      BY <2>1, <2>3, <3>2, <3>3, <3>4, Zenon
    <3> DEFINE A(x) == Proto!OptAddrAt(x, 2 + i, a)
    <3>5. /\ Len(c) < 1 + i + a + k => Proto!ParseData(c) = Proto!Refused
          /\ Len(c) >= 1 + i + a + k =>
               Proto!ParseData(c) = Proto!Data(Proto!OptAt(c, 2, i), A(c),
                   Proto!OptAt(c, 2 + i + a, k), Proto!Rest(c, 2 + i + a + k))
      BY <3>41, DataParsed, Zenon
    <3>6. Len(c) >= 1 + i + a + k => Len(b) >= 1 + i + a + k
      BY <1>2
    <3>7. /\ Len(b) < 1 + i + a + k => Proto!ParseData(b) = Proto!Refused
          /\ Len(b) >= 1 + i + a + k =>
               Proto!ParseData(b) = Proto!Data(Proto!OptAt(b, 2, i), A(b),
                   Proto!OptAt(b, 2 + i + a, k), Proto!Rest(b, 2 + i + a + k))
      BY <1>2, <3>41, DataParsed, Zenon
    <3>8. CASE Len(c) >= 1 + i + a + k
      <4>1. Proto!OptAt(b, 2, i) = Proto!OptAt(c, 2, i)
        <5>1. 2 + i <= Len(c) + 1
          BY <1>2, <3>8
        <5> QED BY <2>5, <5>1
      <4>2. A(b) = A(c)
        <5>1. PICK j \in Nat \ {0} : j = 2 + i
          OBVIOUS
        <5>2. j + a <= Len(c) + 1
          BY <1>2, <3>8, <5>1
        <5>3. a # 0 => Proto!SocketAddrAt(b, 2 + i, a) = Proto!SocketAddrAt(c, 2 + i, a)
          BY <2>4, <3>3, <5>1, <5>2
        <5> QED BY <5>3 DEF Proto!OptAddrAt
      <4>3. Proto!OptAt(b, 2 + i + a, k) = Proto!OptAt(c, 2 + i + a, k)
        <5>1. PICK j \in Nat \ {0} : j = 2 + i + a
          OBVIOUS
        <5>2. j + k <= Len(c) + 1
          BY <1>2, <3>8, <5>1
        <5> QED BY <2>5, <5>1, <5>2
      <4> HIDE DEF A
      <4> QED BY <1>1, <3>1, <3>5, <3>6, <3>7, <3>8, <4>1, <4>2, <4>3, BareMessages
    <3> HIDE DEF A
    <3> QED BY <1>2, <3>1, <3>5, <3>8
  <2>9. CASE Proto!TypeOf(h) \notin {0, 1, 2}
    BY <1>4, <2>3, <2>9 DEF Proto!Parse
  <2> QED BY <2>6, <2>7, <2>8, <2>9
<1> QED BY <1>3, <1>4

\* A part of a message, as long as it may be.
LEMMA PartParsed ==
    ASSUME NEW b \in Bytes, NEW n \in 0..Len(b)
    PROVE  \/ Proto!Parse(SubSeq(b, 1, n)) = Proto!Refused
           \/ Bare(Proto!Parse(SubSeq(b, 1, n))) = Bare(Proto!Parse(b))
<1>1. PICK l \in Nat : l = Len(b)
  BY LenProperties DEF Bytes
<1>2. \A i \in 1..l : b[i] \in Nat
  BY <1>1, ElementOfSeq DEF Bytes
<1>3. n \in Nat /\ n <= l /\ n + 1 \in Int
  BY <1>1
<1>4. SubSeq(b, 1, n) \in Bytes
  <2>1. \A i \in 1..n : b[i] \in Nat
    BY <1>2, <1>3
  <2> QED BY <1>3, <2>1, SubSeqProperties DEF Bytes
<1>5. SubSeq(b, n + 1, l) \in Bytes
  <2>1. PICK m \in Int : m = n + 1
    BY <1>3
  <2>2. \A i \in m..l : b[i] \in Nat
    BY <1>2, <1>3, <2>1
  <2>3. SubSeq(b, m, l) \in Bytes
    BY <2>2, SubSeqProperties DEF Bytes
  <2> QED BY <2>1, <2>3
<1>6. SubSeq(b, 1, n) \o SubSeq(b, n + 1, l) = SubSeq(b, 1, l)
  <2>1. 1 \in 1..(Len(b) + 1) /\ n \in (1 - 1)..Len(b) /\ l \in n..Len(b)
    BY <1>1, <1>3
  <2> QED BY <2>1, ConcatAdjacentSubSeq DEF Bytes
<1>7. SubSeq(b, 1, l) = b
  BY <1>1, SubSeqFull DEF Bytes
<1>8. PICK c \in Bytes : c = SubSeq(b, 1, n)
  BY <1>4
<1>9. PICK t \in Bytes : t = SubSeq(b, n + 1, l)
  BY <1>5
<1>10. c \o t = b
  BY <1>6, <1>7, <1>8, <1>9
<1>11. Proto!Parse(c) = Proto!Refused \/ Bare(Proto!Parse(c)) = Bare(Proto!Parse(c \o t))
  BY CutParsed
<1> QED BY <1>8, <1>10, <1>11

\* x stands at place i of w.
At(w, i, x) == Proto!Slice(w, i, Len(x)) = x /\ i + Len(x) <= Len(w) + 1

\* r is s with t written behind it.
Continues(r, s, t) ==
    /\ Len(r) = Len(s) + Len(t)
    /\ \A i \in 1..Len(s) : r[i] = s[i]
    /\ At(r, Len(s) + 1, t)
    /\ \A i \in Nat \ {0}, x \in Bytes : At(s, i, x) => At(r, i, x)

\* What was written last, and what was written before.
LEMMA AtAppended ==
    ASSUME NEW s \in Bytes, NEW t \in Bytes
    PROVE  s \o t \in Bytes /\ Continues(s \o t, s, t)
<1>1. /\ s \o t \in Bytes /\ Len(s) \in Nat /\ Len(t) \in Nat /\ Len(s \o t) = Len(s) + Len(t)
      /\ \A i \in Nat \ {0}, n \in Nat :
           i + n <= Len(s) + 1 => Proto!Slice(s \o t, i, n) = Proto!Slice(s, i, n)
      /\ Proto!Slice(s \o t, Len(s) + 1, Len(t)) = t
  BY Appended
<1>2. At(s \o t, Len(s) + 1, t)
  BY <1>1 DEF At
<1>3. ASSUME NEW i \in Nat \ {0}, NEW x \in Bytes, At(s, i, x) PROVE At(s \o t, i, x)
  <2>1. PICK n \in Nat : n = Len(x)
    BY LenProperties DEF Bytes
  <2>2. i + n <= Len(s) + 1 /\ Proto!Slice(s, i, n) = x
    BY <1>3, <2>1 DEF At
  <2>3. Proto!Slice(s \o t, i, n) = x
    BY <1>1, <2>2
  <2>4. i + n <= Len(s \o t) + 1
    BY <1>1, <2>2
  <2> QED BY <2>1, <2>3, <2>4 DEF At
<1> QED BY <1>2, <1>3, Appended DEF Continues

\* w was written as six parts.
Rowed(w, h, u, a, p, o, d) ==
    \E s1 \in Bytes, s2 \in Bytes, s3 \in Bytes, s4 \in Bytes :
        /\ Continues(s1, h, u) /\ Continues(s2, s1, a) /\ Continues(s3, s2, p)
        /\ Continues(s4, s3, o) /\ Continues(w, s4, d)

\* Each part is where the lengths of the others say, and nothing follows the last.
InRow(w, h, u, a, p, o, d) ==
    /\ Len(w) \in Nat /\ Len(w) >= Len(h) + Len(u) + Len(a) + Len(p) + Len(o)
    /\ \A i \in 1..Len(h) : w[i] = h[i]
    /\ Proto!Slice(w, Len(h) + 1, Len(u)) = u
    /\ Proto!Slice(w, Len(h) + 1 + Len(u), Len(a)) = a
    /\ Proto!Slice(w, Len(h) + 1 + Len(u) + Len(a), Len(p)) = p
    /\ Proto!Slice(w, Len(h) + 1 + Len(u) + Len(a) + Len(p), Len(o)) = o
    /\ Proto!Rest(w, Len(h) + 1 + Len(u) + Len(a) + Len(p) + Len(o)) = d

\* Writing in a row puts each part at its place.
LEMMA Layout ==
    ASSUME NEW h \in Bytes, NEW u \in Bytes, NEW a \in Bytes, NEW p \in Bytes,
           NEW o \in Bytes, NEW d \in Bytes, NEW w \in Bytes,
           Rowed(w, h, u, a, p, o, d)
    PROVE  InRow(w, h, u, a, p, o, d)
<1>0. /\ Len(h) \in Nat /\ Len(u) \in Nat /\ Len(a) \in Nat /\ Len(p) \in Nat
      /\ Len(o) \in Nat /\ Len(d) \in Nat
  BY LenProperties DEF Bytes
<1>1. PICK s1 \in Bytes, s2 \in Bytes, s3 \in Bytes, s4 \in Bytes :
        /\ Continues(s1, h, u) /\ Continues(s2, s1, a) /\ Continues(s3, s2, p)
        /\ Continues(s4, s3, o) /\ Continues(w, s4, d)
  BY DEF Rowed
<1>2. PICK i1 \in Nat : i1 = Len(h) + 1
  BY <1>0
<1>3. PICK i2 \in Nat : i2 = i1 + Len(u)
  BY <1>0
<1>4. PICK i3 \in Nat : i3 = i2 + Len(a)
  BY <1>0
<1>5. PICK i4 \in Nat : i4 = i3 + Len(p)
  BY <1>0
<1>51. PICK i5 \in Nat : i5 = i4 + Len(o)
  BY <1>0
<1>52. /\ Len(s1) = Len(h) + Len(u) /\ Len(s2) = Len(s1) + Len(a)
       /\ Len(s3) = Len(s2) + Len(p) /\ Len(s4) = Len(s3) + Len(o)
       /\ Len(w) = Len(s4) + Len(d)
  BY <1>1, Zenon DEF Continues
<1>53. /\ \A i \in 1..Len(h) : s1[i] = h[i]
       /\ \A i \in 1..Len(s1) : s2[i] = s1[i]
       /\ \A i \in 1..Len(s2) : s3[i] = s2[i]
       /\ \A i \in 1..Len(s3) : s4[i] = s3[i]
       /\ \A i \in 1..Len(s4) : w[i] = s4[i]
  BY <1>1, Zenon DEF Continues
<1>6. Len(s1) = i2 - 1
  BY <1>0, <1>52, <1>2, <1>3
<1>7. Len(s2) = i3 - 1
  BY SMTT(60), <1>0, <1>52, <1>4, <1>6
<1>8. Len(s3) = i4 - 1
  BY SMTT(60), <1>0, <1>52, <1>5, <1>7
<1>9. Len(s4) = i5 - 1
  BY <1>0, <1>52, <1>51, <1>8
<1>10. Len(w) = i5 + Len(d) - 1
  BY <1>0, <1>52, <1>9
<1>11. \A i \in 1..Len(h) : w[i] = h[i]
  <2>1. /\ Len(h) <= Len(s1) /\ Len(s1) <= Len(s2) /\ Len(s2) <= Len(s3) /\ Len(s3) <= Len(s4)
        /\ Len(s1) \in Nat /\ Len(s2) \in Nat /\ Len(s3) \in Nat /\ Len(s4) \in Nat
    BY SMTT(60), <1>0, <1>2, <1>3, <1>4, <1>5, <1>51, <1>6, <1>7, <1>8, <1>9
  <2> SUFFICES ASSUME NEW i \in 1..Len(h) PROVE w[i] = h[i]
    OBVIOUS
  <2>2. i \in 1..Len(s1)
    BY <1>0, <2>1
  <2>3. i \in 1..Len(s2)
    BY <2>1, <2>2
  <2>4. i \in 1..Len(s3)
    BY <2>1, <2>3
  <2>5. i \in 1..Len(s4)
    BY <2>1, <2>4
  <2> QED BY <1>53, <2>2, <2>3, <2>4, <2>5
<1>12. /\ Len(h) + 1 = i1 /\ Len(s1) + 1 = i2 /\ Len(s2) + 1 = i3 /\ Len(s3) + 1 = i4
       /\ Len(s4) + 1 = i5
       /\ i1 \in Nat \ {0} /\ i2 \in Nat \ {0} /\ i3 \in Nat \ {0} /\ i4 \in Nat \ {0}
       /\ i5 \in Nat \ {0}
  <2>1. Len(h) + 1 = i1 /\ i1 # 0
    BY <1>0, <1>2
  <2>2. Len(s1) + 1 = i2 /\ i2 # 0
    BY <1>0, <1>3, <1>6, <2>1
  <2>3. Len(s2) + 1 = i3 /\ i3 # 0
    BY <1>0, <1>4, <1>7, <2>2
  <2>4. Len(s3) + 1 = i4 /\ i4 # 0
    BY <1>0, <1>5, <1>8, <2>3
  <2>5. Len(s4) + 1 = i5 /\ i5 # 0
    BY <1>0, <1>51, <1>9, <2>4
  <2> QED BY <2>1, <2>2, <2>3, <2>4, <2>5
<1>13. At(s1, i1, u) /\ At(s2, i2, a) /\ At(s3, i3, p) /\ At(s4, i4, o) /\ At(w, i5, d)
  BY <1>1, <1>12 DEF Continues
<1>14. At(w, i4, o)
  BY <1>1, <1>12, <1>13 DEF Continues
<1>15. At(s4, i3, p) /\ At(s3, i2, a) /\ At(s2, i1, u)
  BY <1>1, <1>12, <1>13 DEF Continues
<1>16. At(w, i3, p) /\ At(s4, i2, a) /\ At(s3, i1, u)
  BY <1>1, <1>12, <1>15 DEF Continues
<1>17. At(w, i2, a) /\ At(s4, i1, u)
  BY <1>1, <1>12, <1>16 DEF Continues
<1>18. At(w, i1, u)
  BY <1>1, <1>12, <1>17 DEF Continues
<1>19. Proto!Rest(w, i5) = d
  <2>1. i5 + Len(d) - 1 = Len(w)
    BY <1>10
  <2>2. SubSeq(w, i5, i5 + Len(d) - 1) = d
    BY <1>13 DEF At, Proto!Slice
  <2> QED BY <2>1, <2>2 DEF Proto!Rest
<1>20. /\ i1 = Len(h) + 1 /\ i2 = Len(h) + 1 + Len(u) /\ i3 = Len(h) + 1 + Len(u) + Len(a)
       /\ i4 = Len(h) + 1 + Len(u) + Len(a) + Len(p)
       /\ i5 = Len(h) + 1 + Len(u) + Len(a) + Len(p) + Len(o)
  BY <1>0, <1>2, <1>3, <1>4, <1>5, <1>51
<1>21. Len(w) \in Nat /\ Len(w) >= Len(h) + Len(u) + Len(a) + Len(p) + Len(o)
  BY <1>0, <1>10, <1>20
<1> QED BY <1>11, <1>14, <1>16, <1>17, <1>18, <1>19, <1>20, <1>21 DEF At, InRow

\* A row of six parts can be written and read.
LEMMA Row ==
    ASSUME NEW h \in Bytes, NEW u \in Bytes, NEW a \in Bytes, NEW p \in Bytes,
           NEW o \in Bytes, NEW d \in Bytes,
           NEW w, w = ((((h \o u) \o a) \o p) \o o) \o d
    PROVE  w \in Bytes /\ InRow(w, h, u, a, p, o, d)
<1>1. PICK s1 \in Bytes : s1 = h \o u /\ Continues(s1, h, u)
  BY AtAppended
<1>2. PICK s2 \in Bytes : s2 = s1 \o a /\ Continues(s2, s1, a)
  BY AtAppended
<1>3. PICK s3 \in Bytes : s3 = s2 \o p /\ Continues(s3, s2, p)
  BY AtAppended
<1>4. PICK s4 \in Bytes : s4 = s3 \o o /\ Continues(s4, s3, o)
  BY AtAppended
<1>5. w \in Bytes /\ Continues(w, s4, d)
  <2>1. w = s4 \o d
    BY <1>1, <1>2, <1>3, <1>4, Zenon
  <2> QED BY <2>1, AtAppended
<1>6. Rowed(w, h, u, a, p, o, d)
  BY <1>1, <1>2, <1>3, <1>4, <1>5, Zenon DEF Rowed
<1> QED BY <1>5, <1>6, Layout, Zenon

\* Regrouping, as write_uuid and write_socket_addr write several parts at once.
LEMMA Regroup ==
    ASSUME NEW x \in Bytes, NEW y \in Bytes, NEW z \in Bytes
    PROVE  x \o (y \o z) = (x \o y) \o z /\ x \o y \in Bytes /\ y \o z \in Bytes
BY SMTT(60), ConcatAssociative, ConcatProperties DEF Bytes

\* The first two bytes of a message with a uuid.
LEMMA HeadBytes ==
    ASSUME NEW f \in Nat, NEW n \in Nat
    PROVE  /\ <<f>> \in Bytes /\ <<n>> \in Bytes /\ <<>> \in Bytes
           /\ Len(<<f>>) = 1 /\ Len(<<>>) = 0 /\ <<f>>[1] = f
           /\ <<f>> \o <<n>> \in Bytes /\ Len(<<f>> \o <<n>>) = 2
           /\ (<<f>> \o <<n>>)[1] = f /\ (<<f>> \o <<n>>)[2] = n
<1>1. <<f>> \in Seq(Nat) /\ <<n>> \in Seq(Nat) /\ <<>> \in Seq(Nat)
  OBVIOUS
<1>2. Len(<<f>>) = 1 /\ Len(<<n>>) = 1 /\ Len(<<>>) = 0 /\ <<f>>[1] = f /\ <<n>>[1] = n
  OBVIOUS
<1>3. /\ <<f>> \o <<n>> \in Seq(Nat) /\ Len(<<f>> \o <<n>>) = Len(<<f>>) + Len(<<n>>)
      /\ \A i \in 1..(Len(<<f>>) + Len(<<n>>)) : (<<f>> \o <<n>>)[i] =
           IF i <= Len(<<f>>) THEN <<f>>[i] ELSE <<n>>[i - Len(<<f>>)]
  BY <1>1, ConcatProperties, Zenon
<1> QED BY <1>1, <1>2, <1>3 DEF Bytes

\* o are the bytes of the optional field, which parse finds in the room it gives it.
OptBytes(field, room, o) ==
    /\ o = Proto!Opt(field) /\ Len(o) = room /\ Len(o) \in Nat
    /\ \A w, i : Proto!Slice(w, i, Len(o)) = o => Proto!OptAt(w, i, Len(o)) = field

\* ip and port are the bytes of an address.
AddrBytes(addr, room, ip, port) ==
    /\ Proto!SocketAddr(addr) = ip \o port
    /\ Len(ip) \in Nat /\ Len(ip) # 0 /\ Len(port) = 2 /\ room = Len(ip) + 2
    /\ \A w : \A i \in Nat :
         /\ Proto!Slice(w, i, Len(ip)) = ip
         /\ Proto!Slice(w, i + Len(ip), 2) = port
         => Proto!SocketAddrAt(w, i, Len(ip) + 2) = addr

\* An optional u16, its bytes and the room parse gives it by its flag.
LEMMA OptRead ==
    ASSUME NEW field, IsOptU16(field), NEW there, there <=> field # {}
    PROVE  \E o \in Bytes : OptBytes(field, Proto!Takes(2, there), o)
<1>1. CASE field = {}
  <2>1. Proto!Opt(field) = <<>>
    BY <1>1 DEF Proto!Opt
  <2>2. <<>> \in Bytes /\ Len(<<>>) = 0
    BY EmptySeq DEF Bytes
  <2>3. Proto!Takes(2, there) = 0
    BY <1>1, Lengths, Zenon
  <2>4. \A w, i : Proto!OptAt(w, i, 0) = {}
    BY DEF Proto!OptAt
  <2>5. PICK o \in Bytes : o = <<>>
    BY <2>2
  <2>6. OptBytes(field, Proto!Takes(2, there), o)
    BY <1>1, <2>1, <2>2, <2>3, <2>4, <2>5 DEF OptBytes
  <2> QED BY <2>6, Zenon
<1>2. CASE field # {}
  <2>1. PICK o \in Bytes : Len(o) = 2 /\ field = {o}
    BY <1>2 DEF IsOptU16, IsU16
  <2>2. Proto!Opt(field) = o
    BY <2>1 DEF Proto!Opt
  <2>3. Proto!Takes(2, there) = 2
    BY <1>2, Lengths, Zenon
  <2>4. \A w, i : Proto!Slice(w, i, 2) = o => Proto!OptAt(w, i, 2) = {o}
    BY DEF Proto!OptAt
  <2>5. Len(o) = Proto!Takes(2, there) /\ Len(o) \in Nat
    <3>1. Len(o) \in Nat
      BY LenProperties DEF Bytes
    <3> QED BY <2>1, <2>3, <3>1, Zenon
  <2>6. \A w, i : Proto!Slice(w, i, Len(o)) = o => Proto!OptAt(w, i, Len(o)) = field
    BY <2>1, <2>4
  <2>7. OptBytes(field, Proto!Takes(2, there), o)
    BY <2>2, <2>5, <2>6, Zenon DEF OptBytes
  <2> QED BY <2>7, Zenon
<1> QED BY <1>1, <1>2

\* An address, its bytes and the room parse gives it by its flag.
LEMMA AddrRead ==
    ASSUME NEW addr, IsSocketAddr(addr), NEW v6, v6 <=> Proto!IsV6(addr)
    PROVE  \E ip \in Bytes, port \in Bytes : AddrBytes(addr, Proto!AddrLen(v6), ip, port)
<1>1. PICK ip \in Bytes, port \in Bytes :
        addr = [ip |-> ip, port |-> port] /\ Len(port) = 2 /\ Len(ip) \in {4, 16}
  BY DEF IsSocketAddr
<1>2. Proto!IsV6(addr) <=> Len(ip) = 16
  BY <1>1 DEF Proto!IsV6
<1>3. Len(ip) = 16 => Proto!AddrLen(v6) = 18
  BY <1>2, Lengths, Zenon
<1>4. Len(ip) # 16 => Proto!AddrLen(v6) = 6
  BY <1>2, Lengths, Zenon
<1>5. PICK l \in Nat : l = Len(ip) /\ Proto!AddrLen(v6) = l + 2 /\ l # 0
  <2>1. PICK a : a = Proto!AddrLen(v6)
    OBVIOUS
  <2>2. (Len(ip) = 16 /\ a = 18) \/ (Len(ip) = 4 /\ a = 6)
    BY <1>1, <1>3, <1>4, <2>1
  <2>3. Len(ip) \in Nat
    BY LenProperties DEF Bytes
  <2>4. a = Len(ip) + 2 /\ Len(ip) # 0
    <3>1. CASE Len(ip) = 16 /\ a = 18
      BY <3>1
    <3>2. CASE Len(ip) = 4 /\ a = 6
      BY <3>2
    <3> QED BY <2>2, <3>1, <3>2
  <2> QED BY <2>1, <2>3, <2>4, Zenon
<1>6. Proto!SocketAddr(addr) = ip \o port
  BY <1>1 DEF Proto!SocketAddr
<1>7. ASSUME NEW w, NEW i \in Nat, Proto!Slice(w, i, l) = ip, Proto!Slice(w, i + l, 2) = port
      PROVE  Proto!SocketAddrAt(w, i, l + 2) = addr
  <2>1. l + 2 - 2 = l /\ i + (l + 2) - 2 = i + l
    OBVIOUS
  <2> QED BY <1>1, <1>7, <2>1 DEF Proto!SocketAddrAt
<1>8. AddrBytes(addr, Proto!AddrLen(v6), ip, port)
  BY <1>1, <1>5, <1>6, <1>7, Zenon DEF AddrBytes
<1> QED BY <1>8, Zenon

\* The bits of a message that has only two.
LEMMA FewFlagsRead ==
    ASSUME NEW p \in BOOLEAN, NEW q \in BOOLEAN, NEW k \in {0, 32}, NEW x,
           x = k + Proto!FlagBit(1, p) + Proto!FlagBit(2, q)
    PROVE  /\ x \in Nat
           /\ k = 0 => Proto!TypeOf(x) = 0
           /\ k = 32 => Proto!TypeOf(x) = 1
           /\ Proto!HasFlag(x, 1) <=> p
           /\ Proto!HasFlag(x, 2) <=> q
BY DEF Proto!FlagBit, Proto!TypeOf, Proto!HasFlag

\* The first two bytes are written one after the other, the second with the uuid.
LEMMA HeadRegroup ==
    ASSUME NEW f \in Nat, NEW n \in Nat, NEW u \in Bytes
    PROVE  <<f>> \o (<<n>> \o u) = (<<f>> \o <<n>>) \o u
<1>1. PICK x \in Bytes : x = <<f>>
  BY HeadBytes, Zenon
<1>2. PICK y \in Bytes : y = <<n>>
  BY HeadBytes, Zenon
<1>3. x \o (y \o u) = (x \o y) \o u
  BY Regroup, Zenon
<1> QED BY <1>1, <1>2, <1>3, Zenon

\* The flags and the length of b leave room for all the parts of a Connect.
ConnectFits(b, n, a, k) ==
    /\ Len(b) >= 2 /\ n = b[2]
    /\ a = Proto!AddrLen(Proto!HasFlag(b[1], 1)) /\ k = Proto!Takes(2, Proto!HasFlag(b[1], 2))
    /\ Len(b) >= 2 + n + a + k

\* Then parse finds them.
LEMMA ConnectFound ==
    ASSUME NEW b \in Bytes, NEW n \in Nat, NEW a \in Nat, NEW k \in Nat,
           ConnectFits(b, n, a, k)
    PROVE  Proto!ParseConnect(b) =
             Proto!Connect(Proto!Slice(b, 3, n), Proto!SocketAddrAt(b, 3 + n, a),
                           Proto!OptAt(b, 3 + n + a, k), Proto!Rest(b, 3 + n + a + k))
<1>1. /\ Len(b) < 2 + n + a + k => Proto!ParseConnect(b) = Proto!Refused
      /\ Len(b) >= 2 + n + a + k =>
           Proto!ParseConnect(b) =
             Proto!Connect(Proto!Slice(b, 3, n), Proto!SocketAddrAt(b, 3 + n, a),
                           Proto!OptAt(b, 3 + n + a, k), Proto!Rest(b, 3 + n + a + k))
  <2>1. /\ Len(b) >= 2 /\ n = b[2] /\ a = Proto!AddrLen(Proto!HasFlag(b[1], 1))
        /\ k = Proto!Takes(2, Proto!HasFlag(b[1], 2))
    BY Zenon DEF ConnectFits
  <2>2. Len(b) \in Nat
    BY LenProperties DEF Bytes
  <2> QED BY <2>1, <2>2 DEF Proto!ParseConnect
<1> QED BY <1>1, Zenon DEF ConnectFits

\* A Connect comes back as it was written.
LEMMA ConnectRead ==
    ASSUME NEW m, IsConnect(m)
    PROVE  Proto!ToWriter(m) \in Bytes /\ Proto!Parse(Proto!ToWriter(m)) = m
<1>0. PICK uuid \in Bytes, data \in Bytes : \E dst, nonce :
        /\ Len(uuid) <= 255 /\ IsSocketAddr(dst) /\ IsOptU16(nonce)
        /\ m = Proto!Connect(uuid, dst, nonce, data)
  BY Zenon DEF IsConnect
<1>1. PICK dst, nonce :
        /\ Len(uuid) <= 255 /\ IsSocketAddr(dst) /\ IsOptU16(nonce)
        /\ m = Proto!Connect(uuid, dst, nonce, data)
  BY <1>0
<1>2. /\ m.type = "Connect" /\ m.uuid = uuid /\ m.dst = dst /\ m.nonce = nonce
      /\ m.data = data
  BY <1>1 DEF Proto!Connect
<1>3. PICK f \in Nat : /\ f = Proto!ConnectFlags(m) /\ Proto!TypeOf(f) = 0
                       /\ Proto!HasFlag(f, 1) <=> Proto!IsV6(dst)
                       /\ Proto!HasFlag(f, 2) <=> nonce # {}
  <2>1. PICK p \in BOOLEAN : p = Proto!IsV6(dst)
    BY DEF Proto!IsV6
  <2>2. PICK q \in BOOLEAN : q = (nonce # {})
    OBVIOUS
  <2>3. Proto!ConnectFlags(m) = Proto!FlagBit(1, p) + Proto!FlagBit(2, q)
    BY <1>2, <2>1, <2>2, Zenon DEF Proto!ConnectFlags
  <2>4. PICK x : x = 0 + Proto!FlagBit(1, p) + Proto!FlagBit(2, q)
    OBVIOUS
  <2>5. x = Proto!FlagBit(1, p) + Proto!FlagBit(2, q)
    BY <2>4 DEF Proto!FlagBit
  <2>6. /\ x \in Nat /\ (0 = 0 => Proto!TypeOf(x) = 0) /\ (0 = 32 => Proto!TypeOf(x) = 1)
        /\ Proto!HasFlag(x, 1) <=> p
        /\ Proto!HasFlag(x, 2) <=> q
    BY <2>4, FewFlagsRead
  <2> QED BY <2>1, <2>2, <2>3, <2>5, <2>6, Zenon
<1>4. PICK n \in Nat : n = Len(uuid)
  BY LenProperties DEF Bytes
<1>5. PICK ip \in Bytes, port \in Bytes :
        AddrBytes(dst, Proto!AddrLen(Proto!HasFlag(f, 1)), ip, port)
  BY <1>1, <1>3, AddrRead, Zenon
<1>6. PICK o \in Bytes : OptBytes(nonce, Proto!Takes(2, Proto!HasFlag(f, 2)), o)
  BY <1>1, <1>3, OptRead, Zenon
<1>7. PICK l \in Nat : l = Len(ip)
  BY <1>5, Zenon DEF AddrBytes
<1>8. PICK k \in Nat : k = Len(o)
  BY <1>6, Zenon DEF OptBytes
<1>9. PICK h \in Bytes : h = <<f>> \o <<n>> /\ Len(h) = 2 /\ h[1] = f /\ h[2] = n
  <2>1. /\ <<f>> \in Bytes /\ <<n>> \in Bytes /\ <<>> \in Bytes
        /\ Len(<<f>>) = 1 /\ Len(<<>>) = 0 /\ <<f>>[1] = f
        /\ <<f>> \o <<n>> \in Bytes /\ Len(<<f>> \o <<n>>) = 2
        /\ (<<f>> \o <<n>>)[1] = f /\ (<<f>> \o <<n>>)[2] = n
    BY HeadBytes, Zenon
  <2> QED BY <2>1, Zenon
<1>10. PICK w \in Bytes : /\ w = ((((h \o uuid) \o ip) \o port) \o o) \o data
                         /\ InRow(w, h, uuid, ip, port, o, data)
  <2>1. PICK r : r = ((((h \o uuid) \o ip) \o port) \o o) \o data
    OBVIOUS
  <2>2. r \in Bytes /\ InRow(r, h, uuid, ip, port, o, data)
    BY <2>1, Row, Zenon
  <2> QED BY <2>1, <2>2, Zenon
<1>11. Proto!ToWriter(m) = w
  <2>1. Proto!ToWriter(m) =
          <<Proto!ConnectFlags(m)>> \o Proto!WriteUuid(m.uuid) \o Proto!SocketAddr(m.dst)
          \o Proto!Opt(m.nonce) \o m.data
    BY <1>2 DEF Proto!ToWriter
  <2>2. Proto!WriteUuid(uuid) = <<n>> \o uuid
    BY <1>4, Zenon DEF Proto!WriteUuid
  <2>3. <<f>> \o (<<n>> \o uuid) = h \o uuid
    BY <1>9, HeadRegroup, Zenon
  <2>4. (h \o uuid) \o (ip \o port) = ((h \o uuid) \o ip) \o port
    <3>1. PICK s \in Bytes : s = h \o uuid
      BY Appended, Zenon
    <3>2. s \o (ip \o port) = (s \o ip) \o port /\ s \o ip \in Bytes /\ ip \o port \in Bytes
      BY Regroup, Zenon
    <3> QED BY <3>1, <3>2, Zenon
  <2>5. Proto!SocketAddr(dst) = ip \o port /\ Proto!Opt(nonce) = o
    BY <1>5, <1>6, Zenon DEF AddrBytes, OptBytes
  <2> QED BY <1>2, <1>3, <1>10, <2>1, <2>2, <2>3, <2>4, <2>5, Zenon
<1>13. /\ Len(w) \in Nat /\ Len(w) >= 2 + n + l + 2 + k
       /\ \A i \in 1..2 : w[i] = h[i]
       /\ Proto!Slice(w, 2 + 1, n) = uuid
       /\ Proto!Slice(w, 2 + 1 + n, l) = ip
       /\ Proto!Slice(w, 2 + 1 + n + l, 2) = port
       /\ Proto!Slice(w, 2 + 1 + n + l + 2, k) = o
       /\ Proto!Rest(w, 2 + 1 + n + l + 2 + k) = data
  <2>1. PICK c \in {1, 2}, q \in Nat : c = 2 /\ q = 2
    OBVIOUS
  <2>2. c = Len(h) /\ q = Len(port)
    BY <1>5, <1>9, <2>1, Zenon DEF AddrBytes
  <2>3. /\ Len(w) \in Nat /\ Len(w) >= c + n + l + q + k
        /\ \A i \in 1..c : w[i] = h[i]
        /\ Proto!Slice(w, c + 1, n) = uuid
        /\ Proto!Slice(w, c + 1 + n, l) = ip
        /\ Proto!Slice(w, c + 1 + n + l, q) = port
        /\ Proto!Slice(w, c + 1 + n + l + q, k) = o
        /\ Proto!Rest(w, c + 1 + n + l + q + k) = data
    BY <1>4, <1>7, <1>8, <1>10, <2>2, Zenon DEF InRow
  <2> QED BY <2>1, <2>3, Zenon
<1>14. w[1] = f /\ w[2] = n /\ w # <<>>
  <2>1. w[1] = h[1] /\ w[2] = h[2]
    BY <1>13
  <2>2. Len(w) # 0
    BY <1>13
  <2> QED BY <1>9, <1>10, <2>1, <2>2, EmptySeq DEF Bytes
<1>15. PICK a \in Nat : a = l + 2
  OBVIOUS
<1>16. /\ 2 + 1 = 3 /\ 2 + 1 + n + l = 3 + n + l
       /\ 2 + 1 + n = 3 + n /\ 2 + 1 + n + l + 2 = 3 + n + a
       /\ 2 + 1 + n + l + 2 + k = 3 + n + a + k /\ Len(w) >= 2 + n + a + k /\ Len(w) >= 2
  <2>1. PICK lw \in Nat : lw = Len(w)
    BY <1>13, Zenon
  <2>2. lw >= 2 + n + l + 2 + k
    BY <1>13, <2>1, Zenon
  <2>3. /\ 2 + 1 = 3 /\ 2 + 1 + n + l = 3 + n + l
        /\ 2 + 1 + n = 3 + n /\ 2 + 1 + n + l + 2 = 3 + n + a
        /\ 2 + 1 + n + l + 2 + k = 3 + n + a + k /\ lw >= 2 + n + a + k /\ lw >= 2
    BY <1>15, <2>2
  <2> QED BY <2>1, <2>3, Zenon
<1>17. Proto!SocketAddrAt(w, 3 + n, a) = dst
  <2>1. PICK i \in Nat : i = 3 + n
    OBVIOUS
  <2>2. Proto!Slice(w, i, l) = ip /\ Proto!Slice(w, i + l, 2) = port
    BY <1>13, <1>16, <2>1, Zenon
  <2> QED BY <1>5, <1>7, <1>15, <2>1, <2>2, Zenon DEF AddrBytes
<1>18. Proto!OptAt(w, 3 + n + a, k) = nonce
  BY <1>6, <1>8, <1>13, <1>16, Zenon DEF OptBytes
<1>19. /\ a = Proto!AddrLen(Proto!HasFlag(w[1], 1))
       /\ k = Proto!Takes(2, Proto!HasFlag(w[1], 2))
  BY <1>5, <1>6, <1>7, <1>8, <1>14, <1>15, Zenon DEF AddrBytes, OptBytes
<1>20. Proto!ParseConnect(w) =
         Proto!Connect(Proto!Slice(w, 3, n), Proto!SocketAddrAt(w, 3 + n, a),
                       Proto!OptAt(w, 3 + n + a, k), Proto!Rest(w, 3 + n + a + k))
  <2>1. ConnectFits(w, n, a, k)
    BY <1>14, <1>16, <1>19, Zenon DEF ConnectFits
  <2> QED BY <2>1, ConnectFound
<1>21. Proto!ParseConnect(w) = m
  BY <1>1, <1>13, <1>16, <1>17, <1>18, <1>20, Zenon
<1>22. Proto!Parse(w) = Proto!ParseConnect(w)
  BY <1>3, <1>14 DEF Proto!Parse
<1> QED BY <1>11, <1>10, <1>21, <1>22, Zenon

\* ip and port are the bytes of an optional address.
OptAddrBytes(addrs, room, ip, port) ==
    /\ Proto!Opt({Proto!SocketAddr(a) : a \in addrs}) = ip \o port
    /\ Len(ip) \in Nat /\ Len(port) \in Nat /\ room = Len(ip) + Len(port)
    /\ \A w : \A i \in Nat :
         /\ Proto!Slice(w, i, Len(ip)) = ip
         /\ Proto!Slice(w, i + Len(ip), Len(port)) = port
         => Proto!OptAddrAt(w, i, Len(ip) + Len(port)) = addrs

\* An optional address, its bytes and the room parse gives it by its flags.
LEMMA OptAddrRead ==
    ASSUME NEW addrs, addrs = {} \/ \E a : IsSocketAddr(a) /\ addrs = {a},
           NEW there, there <=> addrs # {}, NEW v6, v6 <=> Proto!AnyV6(addrs)
    PROVE  \E ip \in Bytes, port \in Bytes :
             OptAddrBytes(addrs, Proto!Takes(Proto!AddrLen(v6), there), ip, port)
<1>1. CASE addrs = {}
  <2>1. PICK e \in Bytes : e = <<>> /\ Len(e) = 0
    BY EmptySeq DEF Bytes
  <2>2. {Proto!SocketAddr(a) : a \in addrs} = {}
    BY <1>1
  <2>3. Proto!Opt({Proto!SocketAddr(a) : a \in addrs}) = e
    BY <2>1, <2>2 DEF Proto!Opt
  <2>4. e \o e = e
    BY <2>1, ConcatEmptySeq DEF Bytes
  <2>5. Proto!Takes(Proto!AddrLen(v6), there) = 0
    BY <1>1, Lengths, Zenon
  <2>6. \A w, i : Proto!OptAddrAt(w, i, 0) = {}
    BY DEF Proto!OptAddrAt
  <2>7. Len(e) \in Nat /\ Len(e) + Len(e) = 0
    BY <2>1
  <2>8. OptAddrBytes(addrs, Proto!Takes(Proto!AddrLen(v6), there), e, e)
    BY <1>1, <2>3, <2>4, <2>5, <2>6, <2>7, Zenon DEF OptAddrBytes
  <2> QED BY <2>8, Zenon
<1>2. CASE addrs # {}
  <2>1. PICK a : IsSocketAddr(a) /\ addrs = {a}
    BY <1>2
  <2>2. Proto!AnyV6(addrs) <=> Proto!IsV6(a)
    BY <2>1, Zenon DEF Proto!AnyV6
  <2>3. PICK ip \in Bytes, port \in Bytes : AddrBytes(a, Proto!AddrLen(v6), ip, port)
    BY <2>1, <2>2, AddrRead, Zenon
  <2>4. Proto!Takes(Proto!AddrLen(v6), there) = Proto!AddrLen(v6)
    BY <1>2, Lengths, Zenon
  <2>5. Proto!Opt({Proto!SocketAddr(x) : x \in addrs}) = ip \o port
    <3>1. PICK s : s = Proto!SocketAddr(a) /\ s = ip \o port
      BY <2>3, Zenon DEF AddrBytes
    <3>2. {Proto!SocketAddr(x) : x \in addrs} = {s}
      BY <2>1, <3>1, Zenon
    <3>3. Proto!Opt({s}) = s
      BY DEF Proto!Opt
    <3> QED BY <3>1, <3>2, <3>3, Zenon
  <2>6. \A w : \A i \in Nat :
          /\ Proto!Slice(w, i, Len(ip)) = ip
          /\ Proto!Slice(w, i + Len(ip), Len(port)) = port
          => Proto!OptAddrAt(w, i, Len(ip) + Len(port)) = addrs
    <3> SUFFICES ASSUME NEW w, NEW i \in Nat, Proto!Slice(w, i, Len(ip)) = ip,
                        Proto!Slice(w, i + Len(ip), Len(port)) = port
                 PROVE  Proto!OptAddrAt(w, i, Len(ip) + Len(port)) = addrs
      OBVIOUS
    <3>1. Proto!SocketAddrAt(w, i, Len(ip) + Len(port)) = a
      BY <2>3, Zenon DEF AddrBytes
    <3>2. Len(ip) \in Nat /\ Len(port) = 2
      BY <2>3, Zenon DEF AddrBytes
    <3>3. Len(ip) + Len(port) # 0
      BY <3>2
    <3> QED BY <2>1, <3>1, <3>3, Zenon DEF Proto!OptAddrAt
  <2>7. Len(ip) \in Nat /\ Len(port) \in Nat /\ Proto!AddrLen(v6) = Len(ip) + Len(port)
    <3>1. Len(port) \in Nat
      BY LenProperties DEF Bytes
    <3> QED BY <2>3, <3>1, Zenon DEF AddrBytes
  <2>8. OptAddrBytes(addrs, Proto!Takes(Proto!AddrLen(v6), there), ip, port)
    BY <2>4, <2>5, <2>6, <2>7, Zenon DEF OptAddrBytes
  <2> QED BY <2>8, Zenon
<1> QED BY <1>1, <1>2

\* The flags and the length of b leave room for all the parts of a Data.
DataFits(b, i, a, k) ==
    /\ i = Proto!Takes(2, Proto!HasFlag(b[1], 1))
    /\ a = Proto!Takes(Proto!AddrLen(Proto!HasFlag(b[1], 4)), Proto!HasFlag(b[1], 2))
    /\ k = Proto!Takes(2, Proto!HasFlag(b[1], 8))
    /\ Len(b) >= 1 + i + a + k

\* Then parse finds them.
LEMMA DataFound ==
    ASSUME NEW b \in Bytes, NEW i \in Nat, NEW a \in Nat, NEW k \in Nat, DataFits(b, i, a, k)
    PROVE  Proto!ParseData(b) =
             Proto!Data(Proto!OptAt(b, 2, i), Proto!OptAddrAt(b, 2 + i, a),
                        Proto!OptAt(b, 2 + i + a, k), Proto!Rest(b, 2 + i + a + k))
<1>1. /\ Len(b) < 1 + i + a + k => Proto!ParseData(b) = Proto!Refused
      /\ Len(b) >= 1 + i + a + k =>
           Proto!ParseData(b) =
             Proto!Data(Proto!OptAt(b, 2, i), Proto!OptAddrAt(b, 2 + i, a),
                        Proto!OptAt(b, 2 + i + a, k), Proto!Rest(b, 2 + i + a + k))
  <2>1. /\ i = Proto!Takes(2, Proto!HasFlag(b[1], 1))
        /\ a = Proto!Takes(Proto!AddrLen(Proto!HasFlag(b[1], 4)), Proto!HasFlag(b[1], 2))
        /\ k = Proto!Takes(2, Proto!HasFlag(b[1], 8))
    BY Zenon DEF DataFits
  <2>2. Len(b) \in Nat
    BY LenProperties DEF Bytes
  <2> QED BY <2>1, <2>2 DEF Proto!ParseData
<1> QED BY <1>1, Zenon DEF DataFits

\* A Data comes back as it was written.
LEMMA DataRead ==
    ASSUME NEW m, IsData(m)
    PROVE  Proto!ToWriter(m) \in Bytes /\ Proto!Parse(Proto!ToWriter(m)) = m
<1>0. PICK data \in Bytes : \E id, addr, nonce :
        /\ IsOptU16(id) /\ (addr = {} \/ \E a : IsSocketAddr(a) /\ addr = {a})
        /\ IsOptU16(nonce) /\ m = Proto!Data(id, addr, nonce, data)
  BY Zenon DEF IsData
<1>1. PICK id, addr, nonce :
        /\ IsOptU16(id) /\ (addr = {} \/ \E a : IsSocketAddr(a) /\ addr = {a})
        /\ IsOptU16(nonce) /\ m = Proto!Data(id, addr, nonce, data)
  BY <1>0
<1>2. m.type = "Data" /\ m.id = id /\ m.addr = addr /\ m.nonce = nonce /\ m.data = data
  BY <1>1 DEF Proto!Data
<1>3. PICK f \in Nat : /\ f = Proto!DataFlags(m) /\ Proto!TypeOf(f) = 2
                       /\ Proto!HasFlag(f, 1) <=> id # {}
                       /\ Proto!HasFlag(f, 2) <=> addr # {}
                       /\ Proto!HasFlag(f, 4) <=> Proto!AnyV6(addr)
                       /\ Proto!HasFlag(f, 8) <=> nonce # {}
  <2>1. PICK p \in BOOLEAN : p = (id # {})
    OBVIOUS
  <2>2. PICK q \in BOOLEAN : q = (addr # {})
    OBVIOUS
  <2>3. PICK r \in BOOLEAN : r = Proto!AnyV6(addr)
    BY DEF Proto!AnyV6
  <2>4. PICK s \in BOOLEAN : s = (nonce # {})
    OBVIOUS
  <2>41. PICK c \in {0, 32, 64} : c = 64
    OBVIOUS
  <2>5. PICK x : x = c + Proto!FlagBit(1, p) + Proto!FlagBit(2, q) + Proto!FlagBit(4, r)
                        + Proto!FlagBit(8, s)
    OBVIOUS
  <2>6. Proto!DataFlags(m) = x
    BY <1>2, <2>1, <2>2, <2>3, <2>4, <2>41, <2>5, Zenon DEF Proto!DataFlags
  <2>7. /\ x \in Nat
        /\ c = 0 => Proto!TypeOf(x) = 0
        /\ c = 32 => Proto!TypeOf(x) = 1
        /\ c = 64 => Proto!TypeOf(x) = 2
        /\ Proto!HasFlag(x, 1) <=> p
        /\ Proto!HasFlag(x, 2) <=> q
        /\ Proto!HasFlag(x, 4) <=> r
        /\ Proto!HasFlag(x, 8) <=> s
    BY <2>41, <2>5 DEF Proto!FlagBit, Proto!TypeOf, Proto!HasFlag
  <2> QED BY <2>1, <2>2, <2>3, <2>4, <2>41, <2>6, <2>7, Zenon
<1>4. PICK u \in Bytes : OptBytes(id, Proto!Takes(2, Proto!HasFlag(f, 1)), u)
  BY <1>1, <1>3, OptRead, Zenon
<1>5. PICK ip \in Bytes, port \in Bytes :
        OptAddrBytes(addr, Proto!Takes(Proto!AddrLen(Proto!HasFlag(f, 4)), Proto!HasFlag(f, 2)),
                     ip, port)
  BY <1>1, <1>3, OptAddrRead, Zenon
<1>6. PICK o \in Bytes : OptBytes(nonce, Proto!Takes(2, Proto!HasFlag(f, 8)), o)
  BY <1>1, <1>3, OptRead, Zenon
<1>7. PICK n \in Nat : n = Len(u)
  BY <1>4, Zenon DEF OptBytes
<1>8. PICK l \in Nat, q \in Nat : l = Len(ip) /\ q = Len(port)
  BY <1>5, Zenon DEF OptAddrBytes
<1>9. PICK k \in Nat : k = Len(o)
  BY <1>6, Zenon DEF OptBytes
<1>10. PICK h \in Bytes : h = <<f>> /\ Len(h) = 1 /\ h[1] = f
  <2>1. /\ <<f>> \in Bytes /\ <<n>> \in Bytes /\ <<>> \in Bytes
        /\ Len(<<f>>) = 1 /\ Len(<<>>) = 0 /\ <<f>>[1] = f
        /\ <<f>> \o <<n>> \in Bytes /\ Len(<<f>> \o <<n>>) = 2
        /\ (<<f>> \o <<n>>)[1] = f /\ (<<f>> \o <<n>>)[2] = n
    BY HeadBytes, Zenon
  <2> QED BY <2>1, Zenon
<1>11. PICK w \in Bytes : /\ w = ((((h \o u) \o ip) \o port) \o o) \o data
                          /\ InRow(w, h, u, ip, port, o, data)
  <2>1. PICK r : r = ((((h \o u) \o ip) \o port) \o o) \o data
    OBVIOUS
  <2>2. r \in Bytes /\ InRow(r, h, u, ip, port, o, data)
    BY <2>1, Row, Zenon
  <2> QED BY <2>1, <2>2, Zenon
<1>12. Proto!ToWriter(m) = w
  <2>1. Proto!ToWriter(m) =
          <<Proto!DataFlags(m)>> \o Proto!Opt(m.id)
          \o Proto!Opt({Proto!SocketAddr(a) : a \in m.addr}) \o Proto!Opt(m.nonce) \o m.data
    BY <1>2 DEF Proto!ToWriter
  <2>2. (h \o u) \o (ip \o port) = ((h \o u) \o ip) \o port
    <3>1. PICK s \in Bytes : s = h \o u
      BY Appended, Zenon
    <3>2. s \o (ip \o port) = (s \o ip) \o port /\ s \o ip \in Bytes /\ ip \o port \in Bytes
      BY Regroup, Zenon
    <3> QED BY <3>1, <3>2, Zenon
  <2>3. /\ Proto!Opt({Proto!SocketAddr(a) : a \in addr}) = ip \o port
        /\ Proto!Opt(id) = u /\ Proto!Opt(nonce) = o
    BY <1>4, <1>5, <1>6, Zenon DEF OptAddrBytes, OptBytes
  <2> QED BY <1>2, <1>3, <1>10, <1>11, <2>1, <2>2, <2>3, Zenon
<1>13. /\ Len(w) \in Nat /\ Len(w) >= 1 + n + l + q + k
       /\ \A i \in 1..1 : w[i] = h[i]
       /\ Proto!Slice(w, 1 + 1, n) = u
       /\ Proto!Slice(w, 1 + 1 + n, l) = ip
       /\ Proto!Slice(w, 1 + 1 + n + l, q) = port
       /\ Proto!Slice(w, 1 + 1 + n + l + q, k) = o
       /\ Proto!Rest(w, 1 + 1 + n + l + q + k) = data
  BY <1>7, <1>8, <1>9, <1>10, <1>11, Zenon DEF InRow
<1>14. w[1] = f /\ w # <<>>
  <2>1. w[1] = h[1]
    BY <1>13
  <2>2. Len(w) # 0
    BY <1>13
  <2> QED BY <1>10, <1>11, <2>1, <2>2, EmptySeq DEF Bytes
<1>15. PICK a \in Nat : a = l + q
  OBVIOUS
<1>16. /\ 1 + 1 = 2 /\ 1 + 1 + n = 2 + n /\ 1 + 1 + n + l = 2 + n + l
       /\ 1 + 1 + n + l + q = 2 + n + a
       /\ 1 + 1 + n + l + q + k = 2 + n + a + k /\ Len(w) >= 1 + n + a + k
  <2>1. PICK lw \in Nat : lw = Len(w)
    BY <1>13, Zenon
  <2>2. lw >= 1 + n + l + q + k
    BY <1>13, <2>1, Zenon
  <2>3. /\ 1 + 1 = 2 /\ 1 + 1 + n = 2 + n /\ 1 + 1 + n + l = 2 + n + l
        /\ 1 + 1 + n + l + q = 2 + n + a
        /\ 1 + 1 + n + l + q + k = 2 + n + a + k /\ lw >= 1 + n + a + k
    BY <1>15, <2>2
  <2> QED BY <2>1, <2>3, Zenon
<1>17. Proto!OptAddrAt(w, 2 + n, a) = addr
  <2>1. PICK i \in Nat : i = 2 + n
    OBVIOUS
  <2>2. Proto!Slice(w, i, l) = ip /\ Proto!Slice(w, i + l, q) = port
    BY <1>13, <1>16, <2>1, Zenon
  <2> QED BY <1>5, <1>8, <1>15, <2>1, <2>2, Zenon DEF OptAddrBytes
<1>18. Proto!OptAt(w, 2, n) = id
  BY <1>4, <1>7, <1>13, <1>16, Zenon DEF OptBytes
<1>19. Proto!OptAt(w, 2 + n + a, k) = nonce
  BY <1>6, <1>9, <1>13, <1>16, Zenon DEF OptBytes
<1>20. DataFits(w, n, a, k)
  BY <1>4, <1>5, <1>6, <1>7, <1>8, <1>9, <1>14, <1>15, <1>16, Zenon
  DEF DataFits, OptBytes, OptAddrBytes
<1>21. Proto!ParseData(w) =
         Proto!Data(Proto!OptAt(w, 2, n), Proto!OptAddrAt(w, 2 + n, a),
                    Proto!OptAt(w, 2 + n + a, k), Proto!Rest(w, 2 + n + a + k))
  BY <1>20, DataFound
<1>22. Proto!ParseData(w) = m
  BY <1>1, <1>13, <1>16, <1>17, <1>18, <1>19, <1>21, Zenon
<1>23. Proto!Parse(w) = Proto!ParseData(w)
  BY <1>3, <1>14 DEF Proto!Parse
<1> QED BY <1>11, <1>12, <1>22, <1>23, Zenon

\* ip, port and d are the bytes of an optional reply.
ReplyBytes(reply, room, ip, port, d) ==
    /\ Proto!Opt({Proto!SocketAddr(r.addr) \o r.data : r \in reply}) = (ip \o port) \o d
    /\ Len(ip) \in Nat /\ Len(port) \in Nat /\ room = Len(ip) + Len(port)
    /\ \A w : \A i \in Nat :
         /\ Proto!Slice(w, i, Len(ip)) = ip
         /\ Proto!Slice(w, i + Len(ip), Len(port)) = port
         /\ Proto!Rest(w, i + (Len(ip) + Len(port))) = d
         => Proto!OptReplyAt(w, i, Len(ip) + Len(port)) = reply

\* An optional reply, its bytes and the room parse gives its address by its flags.
LEMMA ReplyRead ==
    ASSUME NEW reply, IsReply(reply), NEW there, there <=> reply # {},
           NEW v6, v6 <=> Proto!AnyV6({r.addr : r \in reply})
    PROVE  \E ip \in Bytes, port \in Bytes, d \in Bytes :
             ReplyBytes(reply, Proto!Takes(Proto!AddrLen(v6), there), ip, port, d)
<1>1. CASE reply = {}
  <2>1. PICK e \in Bytes : e = <<>> /\ Len(e) = 0
    BY EmptySeq DEF Bytes
  <2>2. {Proto!SocketAddr(r.addr) \o r.data : r \in reply} = {}
    BY <1>1, Zenon
  <2>3. Proto!Opt({Proto!SocketAddr(r.addr) \o r.data : r \in reply}) = e
    <3>1. Proto!Opt({}) = e
      BY <2>1 DEF Proto!Opt
    <3> QED BY <2>2, <3>1, Zenon
  <2>4. (e \o e) \o e = e
    BY <2>1, ConcatEmptySeq DEF Bytes
  <2>5. Proto!Takes(Proto!AddrLen(v6), there) = 0
    BY <1>1, Lengths, Zenon
  <2>6. \A w, i : Proto!OptReplyAt(w, i, 0) = {}
    BY DEF Proto!OptReplyAt, Proto!OptAddrAt
  <2>7. Len(e) \in Nat /\ Len(e) + Len(e) = 0
    BY <2>1
  <2>8. ReplyBytes(reply, Proto!Takes(Proto!AddrLen(v6), there), e, e, e)
    BY <1>1, <2>3, <2>4, <2>5, <2>6, <2>7, Zenon DEF ReplyBytes
  <2> QED BY <2>8, Zenon
<1>2. CASE reply # {}
  <2>0. PICK d \in Bytes : \E a : IsSocketAddr(a) /\ reply = {[data |-> d, addr |-> a]}
    BY <1>2, Zenon DEF IsReply
  <2>1. PICK a : IsSocketAddr(a) /\ reply = {[data |-> d, addr |-> a]}
    BY <2>0
  <2>11. PICK x : x = [data |-> d, addr |-> a]
    OBVIOUS
  <2>12. reply = {x} /\ x.addr = a /\ x.data = d
    BY <2>1, <2>11
  <2>2. Proto!AnyV6({r.addr : r \in reply}) <=> Proto!IsV6(a)
    <3>1. {r.addr : r \in reply} = {a}
      BY <2>12, Zenon
    <3>2. Proto!AnyV6({a}) <=> Proto!IsV6(a)
      BY Zenon DEF Proto!AnyV6
    <3> QED BY <3>1, <3>2, Zenon
  <2>3. PICK ip \in Bytes, port \in Bytes : AddrBytes(a, Proto!AddrLen(v6), ip, port)
    BY <2>1, <2>2, AddrRead, Zenon
  <2>4. Proto!Takes(Proto!AddrLen(v6), there) = Proto!AddrLen(v6)
    BY <1>2, Lengths, Zenon
  <2>5. Proto!Opt({Proto!SocketAddr(r.addr) \o r.data : r \in reply}) = (ip \o port) \o d
    <3>1. PICK s : s = Proto!SocketAddr(x.addr) \o x.data /\ s = (ip \o port) \o d
      BY <2>3, <2>12, Zenon DEF AddrBytes
    <3>2. {Proto!SocketAddr(r.addr) \o r.data : r \in reply} = {s}
      BY <2>12, <3>1, Zenon
    <3>3. Proto!Opt({s}) = s
      BY DEF Proto!Opt
    <3> QED BY <3>1, <3>2, <3>3, Zenon
  <2>6. \A w : \A i \in Nat :
          /\ Proto!Slice(w, i, Len(ip)) = ip
          /\ Proto!Slice(w, i + Len(ip), Len(port)) = port
          /\ Proto!Rest(w, i + (Len(ip) + Len(port))) = d
          => Proto!OptReplyAt(w, i, Len(ip) + Len(port)) = reply
    <3> SUFFICES ASSUME NEW w, NEW i \in Nat, Proto!Slice(w, i, Len(ip)) = ip,
                        Proto!Slice(w, i + Len(ip), Len(port)) = port,
                        Proto!Rest(w, i + (Len(ip) + Len(port))) = d
                 PROVE  Proto!OptReplyAt(w, i, Len(ip) + Len(port)) = reply
      OBVIOUS
    <3>1. Proto!SocketAddrAt(w, i, Len(ip) + Len(port)) = a
      BY <2>3, Zenon DEF AddrBytes
    <3>2. Len(ip) \in Nat /\ Len(port) = 2
      BY <2>3, Zenon DEF AddrBytes
    <3>3. Len(ip) + Len(port) # 0
      BY <3>2
    <3>4. Proto!OptAddrAt(w, i, Len(ip) + Len(port)) = {a}
      BY <3>1, <3>3, Zenon DEF Proto!OptAddrAt
    <3>5. Proto!OptReplyAt(w, i, Len(ip) + Len(port)) = {[data |-> d, addr |-> y] : y \in {a}}
      BY <3>4, Zenon DEF Proto!OptReplyAt
    <3> QED BY <2>1, <3>5, Zenon
  <2>7. Len(ip) \in Nat /\ Len(port) \in Nat /\ Proto!AddrLen(v6) = Len(ip) + Len(port)
    <3>1. Len(port) \in Nat
      BY LenProperties DEF Bytes
    <3> QED BY <2>3, <3>1, Zenon DEF AddrBytes
  <2>8. ReplyBytes(reply, Proto!Takes(Proto!AddrLen(v6), there), ip, port, d)
    BY <2>4, <2>5, <2>6, <2>7, Zenon DEF ReplyBytes
  <2> QED BY <2>8, Zenon
<1> QED BY <1>1, <1>2

\* The grouping of three parts makes no difference.
LEMMA Associates ==
    \A x \in Bytes, y \in Bytes, z \in Bytes : x \o (y \o z) = (x \o y) \o z
<1>1. ASSUME NEW x \in Bytes, NEW y \in Bytes, NEW z \in Bytes
      PROVE  x \o (y \o z) = (x \o y) \o z
  BY Regroup, ZenonT(60)
<1> QED BY <1>1, Zenon

\* The reply is written as one part, behind three others.
Regrouped(s, p, o, d) == s \o ((p \o o) \o d) = ((s \o p) \o o) \o d

\* That makes no difference.
LEMMA RowRegroup ==
    ASSUME NEW s \in Bytes, NEW p \in Bytes, NEW o \in Bytes, NEW d \in Bytes
    PROVE  Regrouped(s, p, o, d)
<1>1. \A x \in Bytes, y \in Bytes, z \in Bytes : x \o (y \o z) = (x \o y) \o z
  BY Associates
<1>2. PICK t \in Bytes : t = p \o o
  BY Appended, Zenon
<1>3. s \o (t \o d) = (s \o t) \o d
  BY <1>1, ZenonT(60)
<1>4. s \o (p \o o) = (s \o p) \o o
  BY <1>1, ZenonT(60)
<1> QED BY <1>2, <1>3, <1>4, Zenon DEF Regrouped

\* The flags and the length of b leave room for all the parts of an Establish.
EstablishFits(b, n, a) ==
    /\ Len(b) >= 2 /\ n = b[2]
    /\ a = Proto!Takes(Proto!AddrLen(Proto!HasFlag(b[1], 2)), Proto!HasFlag(b[1], 1))
    /\ Len(b) >= 4 + n + a

\* Then parse finds them.
LEMMA EstablishFound ==
    ASSUME NEW b \in Bytes, NEW n \in Nat, NEW a \in Nat, EstablishFits(b, n, a)
    PROVE  Proto!ParseEstablish(b) =
             Proto!Establish(Proto!Slice(b, 3, n), Proto!Slice(b, 3 + n, 2),
                             Proto!OptReplyAt(b, 5 + n, a))
<1>1. /\ Len(b) < 4 + n + a => Proto!ParseEstablish(b) = Proto!Refused
      /\ Len(b) >= 4 + n + a =>
           Proto!ParseEstablish(b) =
             Proto!Establish(Proto!Slice(b, 3, n), Proto!Slice(b, 3 + n, 2),
                             Proto!OptReplyAt(b, 5 + n, a))
  BY EstablishParsed, Zenon DEF EstablishFits
<1> QED BY <1>1, Zenon DEF EstablishFits

\* An Establish comes back as it was written.
LEMMA EstablishRead ==
    ASSUME NEW m, IsEstablish(m)
    PROVE  Proto!ToWriter(m) \in Bytes /\ Proto!Parse(Proto!ToWriter(m)) = m
<1>0. PICK uuid \in Bytes : \E id, reply :
        /\ Len(uuid) <= 255 /\ IsU16(id) /\ IsReply(reply)
        /\ m = Proto!Establish(uuid, id, reply)
  BY Zenon DEF IsEstablish
<1>01. PICK id \in Bytes : \E reply : /\ Len(id) = 2 /\ IsReply(reply)
                                       /\ m = Proto!Establish(uuid, id, reply)
  BY <1>0, Zenon DEF IsU16
<1>1. PICK reply : Len(id) = 2 /\ IsReply(reply) /\ m = Proto!Establish(uuid, id, reply)
  BY <1>01
<1>2. m.type = "Establish" /\ m.uuid = uuid /\ m.id = id /\ m.reply = reply
  BY <1>1 DEF Proto!Establish
<1>3. PICK f \in Nat : /\ f = Proto!EstablishFlags(m) /\ Proto!TypeOf(f) = 1
                       /\ Proto!HasFlag(f, 1) <=> reply # {}
                       /\ Proto!HasFlag(f, 2) <=> Proto!AnyV6({r.addr : r \in reply})
  <2>1. PICK p \in BOOLEAN : p = (reply # {})
    OBVIOUS
  <2>2. PICK q \in BOOLEAN : q = Proto!AnyV6({r.addr : r \in reply})
    BY DEF Proto!AnyV6
  <2>3. PICK c \in {0, 32} : c = 32
    OBVIOUS
  <2>4. PICK x : x = c + Proto!FlagBit(1, p) + Proto!FlagBit(2, q)
    OBVIOUS
  <2>5. Proto!EstablishFlags(m) = x
    BY <1>2, <2>1, <2>2, <2>3, <2>4, Zenon DEF Proto!EstablishFlags
  <2>6. /\ x \in Nat
        /\ c = 0 => Proto!TypeOf(x) = 0
        /\ c = 32 => Proto!TypeOf(x) = 1
        /\ Proto!HasFlag(x, 1) <=> p
        /\ Proto!HasFlag(x, 2) <=> q
    BY <2>4, FewFlagsRead
  <2> QED BY <2>1, <2>2, <2>3, <2>5, <2>6, Zenon
<1>4. PICK n \in Nat : n = Len(uuid)
  BY LenProperties DEF Bytes
<1>5. PICK ip \in Bytes, port \in Bytes, d \in Bytes :
        ReplyBytes(reply, Proto!Takes(Proto!AddrLen(Proto!HasFlag(f, 2)), Proto!HasFlag(f, 1)),
                   ip, port, d)
  BY <1>1, <1>3, ReplyRead, Zenon
<1>6. PICK l \in Nat, q \in Nat : l = Len(ip) /\ q = Len(port)
  BY <1>5, Zenon DEF ReplyBytes
<1>7. PICK h \in Bytes : h = <<f>> \o <<n>> /\ Len(h) = 2 /\ h[1] = f /\ h[2] = n
  <2>1. /\ <<f>> \in Bytes /\ <<n>> \in Bytes /\ <<>> \in Bytes
        /\ Len(<<f>>) = 1 /\ Len(<<>>) = 0 /\ <<f>>[1] = f
        /\ <<f>> \o <<n>> \in Bytes /\ Len(<<f>> \o <<n>>) = 2
        /\ (<<f>> \o <<n>>)[1] = f /\ (<<f>> \o <<n>>)[2] = n
    BY HeadBytes, Zenon
  <2> QED BY <2>1, Zenon
<1>8. PICK w \in Bytes : /\ w = ((((h \o uuid) \o id) \o ip) \o port) \o d
                         /\ InRow(w, h, uuid, id, ip, port, d)
  <2>1. PICK r : r = ((((h \o uuid) \o id) \o ip) \o port) \o d
    OBVIOUS
  <2>2. r \in Bytes /\ InRow(r, h, uuid, id, ip, port, d)
    BY <2>1, Row, Zenon
  <2> QED BY <2>1, <2>2, Zenon
<1>9. Proto!ToWriter(m) = w
  <2>1. Proto!ToWriter(m) =
          <<Proto!EstablishFlags(m)>> \o Proto!WriteUuid(m.uuid) \o m.id
          \o Proto!Opt({Proto!SocketAddr(r.addr) \o r.data : r \in m.reply})
    BY <1>2 DEF Proto!ToWriter
  <2>2. Proto!WriteUuid(uuid) = <<n>> \o uuid
    BY <1>4, Zenon DEF Proto!WriteUuid
  <2>3. <<f>> \o (<<n>> \o uuid) = h \o uuid
    BY <1>7, HeadRegroup, Zenon
  <2>4. ((h \o uuid) \o id) \o ((ip \o port) \o d) = ((((h \o uuid) \o id) \o ip) \o port) \o d
    <3>1. PICK r \in Bytes : r = h \o uuid
      BY Appended, Zenon
    <3>2. PICK s \in Bytes : s = r \o id
      BY Appended, Zenon
    <3>3. Regrouped(s, ip, port, d)
      BY RowRegroup, Zenon
    <3> QED BY <3>1, <3>2, <3>3, Zenon DEF Regrouped
  <2>5. Proto!Opt({Proto!SocketAddr(r.addr) \o r.data : r \in reply}) = (ip \o port) \o d
    BY <1>5, Zenon DEF ReplyBytes
  <2> QED BY <1>2, <1>3, <1>8, <2>1, <2>2, <2>3, <2>4, <2>5, Zenon
<1>10. /\ Len(w) \in Nat /\ Len(w) >= 2 + n + 2 + l + q
       /\ \A i \in 1..2 : w[i] = h[i]
       /\ Proto!Slice(w, 2 + 1, n) = uuid
       /\ Proto!Slice(w, 2 + 1 + n, 2) = id
       /\ Proto!Slice(w, 2 + 1 + n + 2, l) = ip
       /\ Proto!Slice(w, 2 + 1 + n + 2 + l, q) = port
       /\ Proto!Rest(w, 2 + 1 + n + 2 + l + q) = d
  BY <1>1, <1>4, <1>6, <1>7, <1>8, Zenon DEF InRow
<1>11. w[1] = f /\ w[2] = n /\ w # <<>>
  <2>1. w[1] = h[1] /\ w[2] = h[2]
    BY <1>10
  <2>2. Len(w) # 0
    BY <1>10
  <2> QED BY <1>7, <2>1, <2>2, EmptySeq DEF Bytes
<1>12. PICK a \in Nat : a = l + q
  OBVIOUS
<1>13. /\ 2 + 1 = 3 /\ 2 + 1 + n = 3 + n /\ 2 + 1 + n + 2 = 5 + n
       /\ 2 + 1 + n + 2 + l = 5 + n + l /\ 2 + 1 + n + 2 + l + q = 5 + n + (l + q)
       /\ Len(w) >= 4 + n + a /\ Len(w) >= 2
  <2>1. PICK lw \in Nat : lw = Len(w)
    BY <1>10, Zenon
  <2>2. lw >= 2 + n + 2 + l + q
    BY <1>10, <2>1, Zenon
  <2>3. /\ 2 + 1 = 3 /\ 2 + 1 + n = 3 + n /\ 2 + 1 + n + 2 = 5 + n
        /\ 2 + 1 + n + 2 + l = 5 + n + l /\ 2 + 1 + n + 2 + l + q = 5 + n + (l + q)
        /\ lw >= 4 + n + a /\ lw >= 2
    BY <1>12, <2>2
  <2> QED BY <2>1, <2>3, Zenon
<1>14. Proto!OptReplyAt(w, 5 + n, a) = reply
  <2>1. PICK i \in Nat : i = 5 + n
    OBVIOUS
  <2>2. /\ Proto!Slice(w, i, l) = ip /\ Proto!Slice(w, i + l, q) = port
        /\ Proto!Rest(w, i + (l + q)) = d
    BY <1>10, <1>13, <2>1, Zenon
  <2> QED BY <1>5, <1>6, <1>12, <2>1, <2>2, Zenon DEF ReplyBytes
<1>15. EstablishFits(w, n, a)
  BY <1>5, <1>6, <1>11, <1>12, <1>13, Zenon DEF EstablishFits, ReplyBytes
<1>16. Proto!ParseEstablish(w) =
         Proto!Establish(Proto!Slice(w, 3, n), Proto!Slice(w, 3 + n, 2),
                         Proto!OptReplyAt(w, 5 + n, a))
  BY <1>15, EstablishFound
<1>17. Proto!ParseEstablish(w) = m
  BY <1>1, <1>10, <1>13, <1>14, <1>16, Zenon
<1>18. Proto!Parse(w) = Proto!ParseEstablish(w)
  BY <1>3, <1>11 DEF Proto!Parse
<1> QED BY <1>8, <1>9, <1>17, <1>18, Zenon

-----------------------------------------------------------------------------
(* The messages of the two ends.                                            *)

\* The codec, for every message there is: parse undoes to_writer, and no part of a
\* message is taken for another one.
THEOREM CodecSurvives ==
    ASSUME NEW m, IsConnect(m) \/ IsEstablish(m) \/ IsData(m)
    PROVE  Survives(m)
<1>1. Proto!ToWriter(m) \in Bytes /\ Proto!Parse(Proto!ToWriter(m)) = m
  BY ConnectRead, EstablishRead, DataRead, Zenon
<1>2. PICK b \in Bytes : b = Proto!ToWriter(m) /\ Proto!Parse(b) = m
  BY <1>1, Zenon
<1>3. ASSUME NEW n \in 0..Len(b)
      PROVE  \/ Proto!Parse(SubSeq(b, 1, n)) = Proto!Refused
             \/ Bare(Proto!Parse(SubSeq(b, 1, n))) = Bare(m)
  <2>1. \/ Proto!Parse(SubSeq(b, 1, n)) = Proto!Refused
        \/ Bare(Proto!Parse(SubSeq(b, 1, n))) = Bare(Proto!Parse(b))
    BY PartParsed, Zenon
  <2> QED BY <1>2, <2>1, Zenon
<1> QED BY <1>2, <1>3, Zenon DEF Survives

\* What the model's messages are made of is bytes.
LEMMA WireTyped ==
    /\ \A f \in Flows : Uuid(f) \in Bytes /\ Len(Uuid(f)) <= 255
    /\ \A p \in Payloads : Text(p) \in Bytes
    /\ \A id \in Ids : IsU16(WireId(id))
    /\ \A a \in WireAddrs : IsSocketAddr(a)
<1>0. \A x \in Nat, y \in Nat : <<x, y>> \in Bytes /\ Len(<<x, y>>) = 2
  BY DEF Bytes
<1>1. \A f \in Flows : f.session \in Nat
  BY ClientAssumption
<1>2. \A f \in Flows : Uuid(f) \in Bytes /\ Len(Uuid(f)) <= 255
  BY <1>0, <1>1 DEF Uuid
<1>3. \A p \in Payloads : p.flow \in Flows /\ p.seq \in Nat
  BY ServerAssumption DEF Payloads
<1>4. \A p \in Payloads : Text(p) \in Bytes
  BY <1>0, <1>1, <1>3 DEF Text
<1>5. \A id \in Ids : id \in Nat
  BY DEF Ids
<1>6. \A id \in Ids : IsU16(WireId(id))
  BY <1>0, <1>5 DEF IsU16, WireId
<1>7. PICK v4 : v4 = <<1, 2, 3, 4>>
  OBVIOUS
<1>8. PICK v6 : v6 = [i \in 1..16 |-> i]
  OBVIOUS
<1>9. v4 \in Bytes /\ Len(v4) = 4
  BY <1>7 DEF Bytes
<1>10. v6 \in Bytes /\ Len(v6) = 16
  <2>1. v6 \in [1..16 -> Nat]
    BY <1>8
  <2>2. v6 \in Seq(Nat)
    <3>1. PICK n \in Nat : n = 16
      OBVIOUS
    <3>2. v6 \in [1..n -> Nat]
      BY <2>1, <3>1
    <3> QED BY <3>2, SeqDef, Zenon
  <2>3. Len(v6) \in Nat /\ DOMAIN v6 = 1..Len(v6)
    BY <2>2, LenProperties
  <2>4. 1..Len(v6) = 1..16
    BY <2>1, <2>3
  <2>5. Len(v6) = 16
    BY <2>3, <2>4
  <2> QED BY <2>2, <2>5 DEF Bytes
<1>11. <<0, 53>> \in Bytes /\ Len(<<0, 53>>) = 2 /\ <<1, 187>> \in Bytes /\ Len(<<1, 187>>) = 2
  BY <1>0
<1>12. ASSUME NEW ip \in Bytes, NEW port \in Bytes, Len(ip) \in {4, 16}, Len(port) = 2
       PROVE  IsSocketAddr([ip |-> ip, port |-> port])
  BY <1>12 DEF IsSocketAddr
<1>13. WireAddrs = {[ip |-> v4, port |-> <<0, 53>>], [ip |-> v6, port |-> <<1, 187>>]}
  BY <1>7, <1>8, Zenon DEF WireAddrs
<1>14. \A a \in WireAddrs : IsSocketAddr(a)
  BY <1>9, <1>10, <1>11, <1>12, <1>13
<1> QED BY <1>2, <1>4, <1>6, <1>14

\* What a client sends survives the wire.
LEMMA UpMessageSurvives ==
    ASSUME NEW m \in UpMessages
    PROVE  UpSurvives[m]
<1> SUFFICES ASSUME NEW dst \in WireAddrs PROVE Survives(WireUp(m, dst))
  BY Zenon DEF UpSurvives
<1>1. IsOptU16({})
  BY DEF IsOptU16
<1>2. ASSUME NEW f \in Flows, m = ConnectMsg(f) PROVE IsConnect(WireUp(m, dst))
  <2>1. InitialData(f) \in Payloads
    BY ServerAssumption DEF InitialData, Payloads
  <2>2. m.type = "Connect" /\ m.from = f /\ m.payload = InitialData(f)
    BY <1>2 DEF ConnectMsg
  <2>3. WireUp(m, dst) = Proto!Connect(Uuid(f), dst, {}, Text(InitialData(f)))
    BY <2>2, Zenon DEF WireUp
  <2>4. /\ Uuid(f) \in Bytes /\ Len(Uuid(f)) <= 255 /\ Text(InitialData(f)) \in Bytes
        /\ IsSocketAddr(dst)
    BY <2>1, WireTyped, Zenon
  <2> QED BY <1>1, <2>3, <2>4, Zenon DEF IsConnect
<1>3. ASSUME NEW p \in Payloads, NEW id \in Ids, m = UplinkData(p.flow, id, p)
      PROVE  IsData(WireUp(m, dst))
  <2>1. m.type = "Data" /\ m.id = id /\ m.payload = p
    BY <1>3 DEF UplinkData
  <2>2. m.type # "Connect"
    BY <2>1
  <2>3. WireUp(m, dst) = Proto!Data({WireId(id)}, {}, {}, Text(p))
    BY <2>1, <2>2, Zenon DEF WireUp
  <2>4. Text(p) \in Bytes /\ IsU16(WireId(id))
    BY WireTyped, Zenon
  <2>5. IsOptU16({WireId(id)})
    BY <2>4, Zenon DEF IsOptU16
  <2> QED BY <1>1, <2>3, <2>4, <2>5, Zenon DEF IsData
<1>4. (\E f \in Flows : m = ConnectMsg(f))
      \/ \E p \in Payloads, id \in Ids : m = UplinkData(p.flow, id, p)
  BY DEF UpMessages
<1> QED BY <1>2, <1>3, <1>4, CodecSurvives, Zenon

\* The sender is found when the message names it or it is the destination.
LEMMA SourceFound ==
    ASSUME NEW w, NEW dst \in WireAddrs, NEW src \in WireAddrs,
           \/ w.type = "Establish" /\ {r.addr : r \in w.reply} = {src}
           \/ w.type # "Establish" /\ w.addr = {src} \ {dst}
    PROVE  SourceSeen(w, dst) = src
<1> DEFINE S == IF w.type = "Establish" THEN {r.addr : r \in w.reply}
                ELSE IF w.addr = {} THEN {dst} ELSE w.addr
<1>1. CASE w.type = "Establish" /\ {r.addr : r \in w.reply} = {src}
  <2>1. S = {src}
    BY <1>1, Zenon
  <2> QED BY <2>1, Zenon DEF SourceSeen
<1>2. CASE w.type # "Establish" /\ w.addr = {src} \ {dst}
  <2>1. src = dst => w.addr = {}
    BY <1>2
  <2>2. src # dst => w.addr = {src} /\ w.addr # {}
    BY <1>2
  <2>3. S = {src}
    BY <1>2, <2>1, <2>2, Zenon
  <2> QED BY <2>3, Zenon DEF SourceSeen
<1> QED BY <1>1, <1>2

\* What the server sends survives the wire, and tells who answered.
LEMMA DownMessageSurvives ==
    ASSUME NEW m \in DownMessages
    PROVE  DownSurvives[m]
<1> SUFFICES ASSUME NEW dst \in WireAddrs, NEW src \in WireAddrs
             PROVE  /\ Survives(WireDown(m, dst, src))
                    /\ m.payloads # {} => SourceSeen(WireDown(m, dst, src), dst) = src
  BY Zenon DEF DownSurvives
<1>0. PICK w : w = WireDown(m, dst, src)
  OBVIOUS
<1>1. IsOptU16({})
  BY DEF IsOptU16
<1>2. IsSocketAddr(dst) /\ IsSocketAddr(src)
  BY WireTyped, Zenon
<1>3. ASSUME NEW f \in Flows, NEW id \in Ids, NEW r \in Replies, m = EstablishMsg(f, id, r)
      PROVE  Survives(w) /\ (m.payloads # {} => SourceSeen(w, dst) = src)
  <2>1. m.type = "Establish" /\ m.to = f /\ m.id = id /\ m.payloads = r
    BY <1>3 DEF EstablishMsg
  <2> DEFINE R == {[data |-> Text(p), addr |-> src] : p \in r}
  <2>2. w = Proto!Establish(Uuid(f), WireId(id), R)
    BY <1>0, <2>1, Zenon DEF WireDown
  <2>3. Uuid(f) \in Bytes /\ Len(Uuid(f)) <= 255 /\ IsU16(WireId(id))
    BY WireTyped, Zenon
  <2>4. r = {} \/ \E p \in Payloads : r = {p}
    BY DEF Replies, NoReply
  <2>5. IsReply(R) /\ (r # {} => {x.addr : x \in R} = {src})
    <3>1. CASE r = {}
      <4>1. R = {}
        BY <3>1
      <4> QED BY <3>1, <4>1, Zenon DEF IsReply
    <3>2. ASSUME NEW p \in Payloads, r = {p} PROVE IsReply(R) /\ {x.addr : x \in R} = {src}
      <4>1. PICK d \in Bytes : d = Text(p)
        BY WireTyped, Zenon
      <4>2. PICK x : x = [data |-> d, addr |-> src]
        OBVIOUS
      <4>3. R = {x}
        BY <3>2, <4>1, <4>2, Zenon
      <4>4. x.addr = src
        BY <4>2
      <4>5. IsReply(R)
        BY <1>2, <4>2, <4>3, Zenon DEF IsReply
      <4> HIDE DEF R
      <4> QED BY <4>3, <4>4, <4>5, Zenon
    <3> QED BY <2>4, <3>1, <3>2
  <2> HIDE DEF R
  <2>6. IsEstablish(w)
    BY <2>2, <2>3, <2>5, Zenon DEF IsEstablish
  <2>7. w.type = "Establish" /\ w.reply = R
    BY <2>2 DEF Proto!Establish
  <2>8. m.payloads # {} => SourceSeen(w, dst) = src
    BY <2>1, <2>5, <2>7, SourceFound, Zenon
  <2> QED BY <2>6, <2>8, CodecSurvives, Zenon
<1>4. ASSUME NEW f \in Flows, NEW p \in Payloads, m = DataMsg(f, p)
      PROVE  Survives(w) /\ SourceSeen(w, dst) = src
  <2>1. m.type = "Data" /\ m.payloads = {p}
    BY <1>4 DEF DataMsg
  <2>2. m.type # "Establish" /\ (CHOOSE x \in m.payloads : TRUE) = p
    BY <2>1
  <2>3. PICK A : A = {src} \ {dst}
    OBVIOUS
  <2>4. w = Proto!Data({}, A, {}, Text(p))
    BY <1>0, <2>2, <2>3, Zenon DEF WireDown
  <2>5. A = {} \/ A = {src}
    BY <2>3
  <2>6. Text(p) \in Bytes
    BY WireTyped, Zenon
  <2>7. IsData(w)
    BY <1>1, <1>2, <2>4, <2>5, <2>6, Zenon DEF IsData
  <2>8. w.type # "Establish" /\ w.addr = A
    BY <2>4 DEF Proto!Data
  <2>9. SourceSeen(w, dst) = src
    BY <2>3, <2>8, SourceFound, Zenon
  <2> QED BY <2>7, <2>9, CodecSurvives, Zenon
<1>5. (\E f \in Flows, id \in Ids, r \in Replies : m = EstablishMsg(f, id, r))
      \/ \E f \in Flows, p \in Payloads : m = DataMsg(f, p)
  BY DEF DownMessages
<1> QED BY <1>0, <1>3, <1>4, <1>5, Zenon

\* Only these messages are on their way.
OnlyMessages == uplink \subseteq UpMessages /\ down \subseteq DownMessages

\* Every step sends a message of the two ends, or none.
LEMMA NextMessages == UInv /\ OnlyMessages /\ [Next]_vars => OnlyMessages'
<1> SUFFICES ASSUME UInv, OnlyMessages, [Next]_vars PROVE OnlyMessages'
  OBVIOUS
<1>1. uplink \subseteq UpMessages /\ down \subseteq DownMessages
  BY DEF OnlyMessages
<1>2. CASE uplink' \subseteq uplink /\ down' \subseteq down
  BY <1>1, <1>2 DEF OnlyMessages, UpMessages, DownMessages
<1>3. ASSUME NEW m \in uplink, ServerReceives(m) PROVE OnlyMessages'
  <2>1. uplink' \subseteq uplink
    BY <1>3 DEF ServerReceives, TakeUplink
  <2>2. down' = down
    BY <1>3 DEF ServerReceives, ServeConnect, RefuseConnect, DataUnknown, DataQueued, DataFull,
                DataDisconnected, serverVars
  <2> QED BY <1>2, <2>1, <2>2
<1>4. CASE ServerRuns
  <2>1. uplink' = uplink
    BY <1>4 DEF ServerRuns, clientVars
  <2>2. ASSUME NEW t \in Tasks, TaskStep(t) PROVE down' \subseteq DownMessages
    <3>1. \/ \E reply \in Replies : Establish(t, reply)
          \/ \E p \in Payloads : Download(t, p)
          \/ down' = down
      BY <2>2 DEF TaskStep, BindUpstream, SetupFails, Upload, UploadFails, Finish,
                  DropUnpolled, Forget
    <3>2. task[t].src \in Flows /\ task[t].id \in Ids
      BY DEF UInv, SInv, ServerTypeOK, TaskState
    <3>3. PICK f \in Flows, id \in Ids : f = task[t].src /\ id = task[t].id
      BY <3>2
    <3>4. ASSUME NEW reply \in Replies, Establish(t, reply) PROVE down' \subseteq DownMessages
      <4>1. PICK e : e = EstablishMsg(f, id, reply)
        OBVIOUS
      <4>2. down' = down \cup {e}
        BY <3>3, <3>4, <4>1 DEF Establish
      <4>3. e \in DownMessages
        BY <4>1 DEF DownMessages
      <4> QED BY <1>1, <4>2, <4>3
    <3>5. ASSUME NEW p \in Payloads, Download(t, p) PROVE down' \subseteq DownMessages
      <4>1. PICK e : e = DataMsg(f, p)
        OBVIOUS
      <4>2. down' = down \cup {e}
        BY <3>3, <3>5, <4>1 DEF Download
      <4>3. e \in DownMessages
        BY <4>1 DEF DownMessages
      <4> QED BY <1>1, <4>2, <4>3
    <3> QED BY <1>1, <3>1, <3>4, <3>5
  <2>3. ServeStops => down' = down
    BY DEF ServeStops
  <2>4. down' \subseteq DownMessages
    BY <1>1, <1>4, <2>2, <2>3 DEF ServerRuns
  <2> QED BY <1>1, <2>1, <2>4 DEF OnlyMessages, UpMessages, DownMessages
<1>5. ASSUME NEW s \in Socks, SendConnect(s) PROVE OnlyMessages'
  <2>1. PICK f \in Flows : f = FlowOf(s)
    BY FlowTyped DEF UInv
  <2>2. PICK e : e = ConnectMsg(f)
    OBVIOUS
  <2>3. uplink' = uplink \cup {e} /\ down' = down
    BY <1>5, <2>1, <2>2 DEF SendConnect, serverVars
  <2>4. e \in UpMessages
    BY <2>2 DEF UpMessages
  <2> QED BY <1>1, <2>3, <2>4 DEF OnlyMessages, UpMessages, DownMessages
<1>6. ASSUME NEW s \in Socks, SendData(s) PROVE OnlyMessages'
  <2>1. PICK f \in Flows : f = FlowOf(s)
    BY FlowTyped DEF UInv
  <2>2. PICK n : n = client[s].next
    OBVIOUS
  <2>3. PICK p : p = [flow |-> f, seq |-> n]
    OBVIOUS
  <2>4. n <= MaxSeq /\ client[s].phase = "established"
    BY <1>6, <2>2 DEF SendData
  <2>5. n \in 0..MaxSeq
    <3>1. n \in Nat
      BY <2>2 DEF UInv, ClientState
    <3> QED BY <2>4, <3>1, ServerAssumption
  <2>6. p \in Payloads /\ p.flow = f
    BY <2>3, <2>5 DEF Payloads
  <2>7. PICK id \in Ids : id = client[s].id
    <3>1. PICK t \in Tasks : task[t].id = client[s].id
      BY <2>4 DEF UInv, EstablishedIdIsMine
    <3> QED BY <3>1 DEF UInv, SInv, ServerTypeOK, TaskState
  <2>8. PICK e : e = UplinkData(f, id, p)
    OBVIOUS
  <2>9. uplink' = uplink \cup {e} /\ down' = down
    BY <1>6, <2>1, <2>2, <2>3, <2>7, <2>8 DEF SendData, serverVars
  <2>10. e \in UpMessages
    BY <2>6, <2>8 DEF UpMessages
  <2> QED BY <1>1, <2>9, <2>10 DEF OnlyMessages, UpMessages, DownMessages
<1>7. ASSUME NEW s \in Socks,
             \/ EstablishTimeout(s) \/ CloseSocket(s)
             \/ \E m \in down : \/ ReceiveEstablish(s, m)
                                \/ ReceiveWrongFirst(s, m)
                                \/ ReceiveData(s, m)
                                \/ ReceiveOther(s, m)
      PROVE  OnlyMessages'
  BY <1>2, <1>7 DEF EstablishTimeout, CloseSocket, ReceiveEstablish, ReceiveWrongFirst,
                    ReceiveData, ReceiveOther, TakeDown, serverVars
<1>8. CASE Lose
  BY <1>2, <1>8 DEF Lose, LeaveNetwork, serverVars, clientVars
<1>9. CASE UNCHANGED vars
  BY <1>2, <1>9 DEF vars, serverVars, clientVars
<1> QED BY <1>3, <1>4, <1>5, <1>6, <1>7, <1>8, <1>9 DEF Next

\* Message::parse undoes Message::to_writer for every message that is ever on its way
\* between the two ends, the client learns who sent an answer, and no part of a message
\* is taken for another one.
THEOREM WireFaithfulTheorem == Spec => []WireFaithful
<1>1. Init => OnlyMessages
  BY DEF Init, ServerInit, OnlyMessages
<1>2. OnlyMessages => WireFaithful
  BY UpMessageSurvives, DownMessageSurvives, Zenon DEF OnlyMessages, WireFaithful
<1> QED BY <1>1, <1>2, NextMessages, EndToEndInvariance, PTL DEF Spec

=============================================================================
