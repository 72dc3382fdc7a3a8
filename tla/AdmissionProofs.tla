-------------------------- MODULE AdmissionProofs --------------------------
(***************************************************************************)
(* Admission, for any number of connections, listeners and slots: slots,    *)
(* lines and counters agree; one listener always finds the slot it counts   *)
(* on; and no ACCEPT outlives the session of its listener.                  *)
(***************************************************************************)
EXTENDS Admission, FiniteSetTheorems, SequenceTheorems, TLAPS

\* No connection has two slots.
SlotsOnce == \A i, j \in Slot : slot[i] = slot[j] /\ slot[i] # None => i = j

ParkInv == SlotsMatch /\ SlotsOnce

\* There is one ACCEPT for each connection that waits for it, of the session it
\* was offered in; end() has started a later one when the connection is stale.
EventsMatch ==
  \A k \in 1..Len(accepts) :
    LET e == accepts[k] IN
    /\ at[e.conn] \in {"offered", "promoted"} /\ server[e.conn] \in Server
    /\ e.epoch <= session[server[e.conn]]
    /\ e.conn \in stale /\ at[e.conn] = "offered" => e.epoch < session[server[e.conn]]
EventsOnce ==
  \A j, k \in 1..Len(accepts) : accepts[j].conn = accepts[k].conn => j = k
StaleStarted == \A c \in stale : at[c] # "none"
ServerKnown == \A c \in Conn : at[c] # "none" => server[c] \in Server

EventInv == EventsMatch /\ EventsOnce /\ StaleStarted /\ ServerKnown

ParkTypes ==
  /\ slot \in [Slot -> Conn \cup {None}]
  /\ line \in [Server -> Seq(Slot)]
  /\ parked \in [Server -> Nat]
PlaceTypes == at \in [Conn -> Place] /\ server \in [Conn -> Server \cup {None}]
EventTypes == accepts \in Seq(Accept) /\ session \in [Server -> Nat] /\ stale \subseteq Conn
RestTypes == lost \subseteq Conn /\ live \subseteq Conn /\ listening \subseteq Server

AdmissionInv ==
  /\ ParkTypes /\ PlaceTypes /\ EventTypes /\ RestTypes
  /\ ParkInv /\ EventInv

-----------------------------------------------------------------------------
(* Lists.                                                                  *)

\* What RemoveAt leaves: the elements before, and those behind one place up.
LEMMA RemoveAtIs ==
  ASSUME NEW S, NEW q \in Seq(S), NEW k \in 1..Len(q)
  PROVE  /\ RemoveAt(q, k) \in Seq(S) /\ Len(RemoveAt(q, k)) = Len(q) - 1
         /\ \A j \in 1..Len(q) - 1 :
              RemoveAt(q, k)[j] = IF j < k THEN q[j] ELSE q[j + 1]
<1> DEFINE a == SubSeq(q, 1, k - 1)
           b == SubSeq(q, k + 1, Len(q))
<1>1. Len(q) \in Nat /\ k \in Nat /\ 0 < k /\ k <= Len(q)
  OBVIOUS
<1>2. a \in Seq(S) /\ Len(a) = k - 1 /\ \A j \in 1..k - 1 : a[j] = q[j]
  BY <1>1
<1>3. b \in Seq(S) /\ Len(b) = Len(q) - k /\ \A j \in 1..Len(q) - k : b[j] = q[j + k]
  BY <1>1
<1> HIDE DEF a, b
<1>4. /\ a \o b \in Seq(S) /\ Len(a \o b) = Len(q) - 1
      /\ \A j \in 1..Len(q) - 1 : (a \o b)[j] = IF j < k THEN a[j] ELSE b[j - (k - 1)]
  <2>1. Len(a) + Len(b) = Len(q) - 1
    BY <1>1, <1>2, <1>3
  <2>2. /\ a \o b \in Seq(S) /\ Len(a \o b) = Len(a) + Len(b)
        /\ \A j \in 1..Len(a) + Len(b) : (a \o b)[j] = IF j <= Len(a) THEN a[j]
                                                      ELSE b[j - Len(a)]
    BY <1>2, <1>3, ConcatProperties
  <2>3. \A j \in 1..Len(q) - 1 : j <= k - 1 <=> j < k
    BY <1>1
  <2> QED
    BY <1>2, <2>1, <2>2, <2>3
<1>5. RemoveAt(q, k) = a \o b
  BY DEF RemoveAt, a, b
<1>6. ASSUME NEW j \in 1..Len(q) - 1
      PROVE  (a \o b)[j] = IF j < k THEN q[j] ELSE q[j + 1]
  <2>1. CASE j < k
    BY <1>1, <1>2, <1>4, <2>1
  <2>2. CASE ~ j < k
    <3>1. j - (k - 1) \in 1..Len(q) - k /\ (j - (k - 1)) + k = j + 1
      BY <1>1, <2>2
    <3>2. b[j - (k - 1)] = q[(j - (k - 1)) + k]
      BY <1>3, <3>1
    <3> QED
      BY <1>4, <2>2, <3>1, <3>2
  <2> QED
    BY <2>1, <2>2
<1> QED
  BY <1>4, <1>5, <1>6

-----------------------------------------------------------------------------
(* Slots and lines.                                                        *)

\* A connection that leaves its line takes its slot along, and nobody else's.
LEMMA UnlinkKeeps ==
  ASSUME ParkTypes, ParkInv, NEW s \in Server, NEW k \in 1..Len(line[s]), Unlink(s, k),
         \A c \in Conn : at[c] = "parked" /\ c # slot[line[s][k]]
                           => at'[c] = "parked" /\ server'[c] = server[c]
  PROVE  ParkTypes' /\ ParkInv'
<1> DEFINE i0 == line[s][k]
           Old(t, j) == IF t = s /\ j >= k THEN j + 1 ELSE j
<1> USE DEF ParkTypes, ParkInv, SlotsMatch
<1>1. /\ line' = [line EXCEPT ![s] = RemoveAt(@, k)]
      /\ slot' = [slot EXCEPT ![i0] = None]
      /\ parked' = [parked EXCEPT ![s] = @ - 1]
  BY DEF Unlink
<1>2. i0 \in Slot /\ line[s] \in Seq(Slot) /\ Len(line[s]) \in Nat /\ k \in Nat /\ 0 < k
  BY ElementOfSeq
<1>3. /\ RemoveAt(line[s], k) \in Seq(Slot) /\ Len(RemoveAt(line[s], k)) = Len(line[s]) - 1
      /\ \A j \in 1..Len(line[s]) - 1 :
           RemoveAt(line[s], k)[j] = IF j < k THEN line[s][j] ELSE line[s][j + 1]
  BY <1>2, RemoveAtIs
<1>4. ParkTypes' /\ CountsMatch'
  <2>1. parked[s] = Len(line[s]) /\ Len(line[s]) - 1 \in Nat
    BY <1>2 DEF CountsMatch
  <2>2. \A t \in Server : line'[t] = IF t = s THEN RemoveAt(line[s], k) ELSE line[t]
    BY <1>1
  <2>3. \A t \in Server : parked'[t] = IF t = s THEN Len(line[s]) - 1 ELSE parked[t]
    BY <1>1, <2>1
  <2>4. CountsMatch'
    BY <1>3, <2>2, <2>3 DEF CountsMatch
  <2>5. ParkTypes'
    BY <1>1, <1>3, <2>1
  <2> QED
    BY <2>4, <2>5
<1>5. \A t \in Server : \A j \in 1..Len(line'[t]) :
        Old(t, j) \in 1..Len(line[t]) /\ line'[t][j] = line[t][Old(t, j)]
          /\ (t = s => Old(t, j) # k)
  <2> SUFFICES ASSUME NEW t \in Server, NEW j \in 1..Len(line'[t])
               PROVE  Old(t, j) \in 1..Len(line[t]) /\ line'[t][j] = line[t][Old(t, j)]
                        /\ (t = s => Old(t, j) # k)
    OBVIOUS
  <2>1. CASE t # s
    BY <1>1, <2>1
  <2>2. CASE t = s
    <3>1. line'[t] = RemoveAt(line[s], k)
      BY <1>1, <2>2
    <3>2. j \in 1..Len(line[s]) - 1
      BY <1>3, <3>1
    <3>3. line'[t][j] = IF j < k THEN line[s][j] ELSE line[s][j + 1]
      BY <1>3, <3>1, <3>2
    <3> QED
      BY <1>2, <2>2, <3>2, <3>3
  <2> QED
    BY <2>1, <2>2
<1>6. \A t \in Server : \A j \in 1..Len(line'[t]) : line'[t][j] # i0
  <2>1. \A t \in Server : \A m \in 1..Len(line[t]) : line[t][m] = i0 => t = s /\ m = k
    BY DEF LinesDisjoint
  <2> HIDE DEF Old, i0
  <2> QED
    BY <1>5, <2>1
<1> HIDE DEF Old
<1>7. LinesHoldParked'
  <2> SUFFICES ASSUME NEW t \in Server, NEW j \in 1..Len(line'[t])
               PROVE  /\ slot'[line'[t][j]] # None
                      /\ at'[slot'[line'[t][j]]] = "parked" /\ server'[slot'[line'[t][j]]] = t
    BY DEF LinesHoldParked
  <2> DEFINE i == line'[t][j]
  <2>1. Old(t, j) \in 1..Len(line[t]) /\ i = line[t][Old(t, j)] /\ i # i0
    BY <1>5, <1>6
  <2>2. i \in Slot
    BY <2>1, ElementOfSeq
  <2>3. slot[i] # None /\ at[slot[i]] = "parked" /\ server[slot[i]] = t
    BY <2>1 DEF LinesHoldParked
  <2>4. slot'[i] = slot[i] /\ slot[i] \in Conn
    BY <1>1, <2>1, <2>2, <2>3
  <2>5. slot[i] # slot[i0]
    BY <1>2, <2>1, <2>2, <2>3 DEF SlotsOnce
  <2> QED
    BY <2>3, <2>4, <2>5
<1>8. LinesDisjoint'
  <2> SUFFICES ASSUME NEW t \in Server, NEW u \in Server,
                      NEW j \in 1..Len(line'[t]), NEW m \in 1..Len(line'[u]),
                      line'[t][j] = line'[u][m]
               PROVE  t = u /\ j = m
    BY DEF LinesDisjoint
  <2>1. /\ Old(t, j) \in 1..Len(line[t]) /\ line'[t][j] = line[t][Old(t, j)]
        /\ Old(u, m) \in 1..Len(line[u]) /\ line'[u][m] = line[u][Old(u, m)]
    BY <1>5
  <2>2. \A x \in 1..Len(line[t]), y \in 1..Len(line[u]) :
          line[t][x] = line[u][y] => t = u /\ x = y
    BY DEF LinesDisjoint
  <2>3. t = u /\ Old(t, j) = Old(u, m)
    BY <2>1, <2>2
  <2> QED
    BY <1>2, <2>3 DEF Old
<1>9. SlotsInLine'
  <2> SUFFICES ASSUME NEW i \in Slot, slot'[i] # None
               PROVE  \E t \in Server : \E j \in 1..Len(line'[t]) : line'[t][j] = i
    BY DEF SlotsInLine
  <2>1. i # i0 /\ slot[i] # None
    BY <1>1, <1>2
  <2>2. PICK t \in Server : \E m \in 1..Len(line[t]) : line[t][m] = i
    BY <2>1 DEF SlotsInLine
  <2>3. PICK m \in 1..Len(line[t]) : line[t][m] = i
    BY <2>2
  <2>4. CASE t # s
    BY <1>1, <2>3, <2>4
  <2>5. CASE t = s
    <3> DEFINE j == IF m < k THEN m ELSE m - 1
    <3>1. m # k /\ m \in Nat /\ m <= Len(line[s]) /\ 0 < m
      BY <1>2, <2>1, <2>3, <2>5
    <3>2. j \in 1..Len(line[s]) - 1 /\ (IF j < k THEN j ELSE j + 1) = m
      BY <1>2, <3>1
    <3>3. line'[t] = RemoveAt(line[s], k) /\ Len(line'[t]) = Len(line[s]) - 1
      BY <1>1, <1>3, <2>5
    <3>4. RemoveAt(line[s], k)[j] = IF j < k THEN line[s][j] ELSE line[s][j + 1]
      BY <1>3, <3>2
    <3>5. line'[t][j] = line[s][m]
      BY <3>2, <3>3, <3>4
    <3> QED
      BY <2>3, <2>5, <3>2, <3>3, <3>5
  <2> QED
    BY <2>4, <2>5
<1>10. SlotsOnce'
  BY <1>1, <1>2 DEF SlotsOnce
<1> QED
  BY <1>4, <1>7, <1>8, <1>9, <1>10

\* What empties a whole line leaves the other lines as they are.
LEMMA DrainKeeps ==
  ASSUME ParkTypes, ParkInv, NEW s \in Server, Drain(s),
         \A c \in Conn : at[c] = "parked" /\ server[c] # s
                           => at'[c] = "parked" /\ server'[c] = server[c]
  PROVE  ParkTypes' /\ ParkInv'
<1> USE DEF ParkTypes, ParkInv, SlotsMatch
<1>1. /\ slot' = [i \in Slot |-> IF \E k \in 1..Len(line[s]) : line[s][k] = i
                                 THEN None ELSE slot[i]]
      /\ line' = [line EXCEPT ![s] = <<>>]
      /\ parked' = [parked EXCEPT ![s] = 0]
  BY DEF Drain
<1>2. ParkTypes' /\ CountsMatch'
  BY <1>1 DEF CountsMatch
<1>3. \A t \in Server : \A j \in 1..Len(line'[t]) : t # s /\ line'[t] = line[t]
  BY <1>1
<1>4. LinesHoldParked'
  <2> SUFFICES ASSUME NEW t \in Server, NEW j \in 1..Len(line'[t])
               PROVE  /\ slot'[line'[t][j]] # None
                      /\ at'[slot'[line'[t][j]]] = "parked" /\ server'[slot'[line'[t][j]]] = t
    BY DEF LinesHoldParked
  <2> DEFINE i == line[t][j]
  <2>1. t # s /\ line'[t] = line[t] /\ j \in 1..Len(line[t])
    BY <1>3
  <2>2. i \in Slot
    BY <2>1, ElementOfSeq
  <2>3. slot[i] # None /\ at[slot[i]] = "parked" /\ server[slot[i]] = t
    BY <2>1 DEF LinesHoldParked
  <2>4. \A m \in 1..Len(line[s]) : line[s][m] # i
    BY <2>1 DEF LinesDisjoint
  <2>5. slot'[i] = slot[i] /\ slot[i] \in Conn
    BY <1>1, <2>2, <2>3, <2>4
  <2> QED
    BY <2>1, <2>3, <2>5
<1>5. LinesDisjoint'
  BY <1>3 DEF LinesDisjoint
<1>6. SlotsInLine'
  <2> SUFFICES ASSUME NEW i \in Slot, slot'[i] # None
               PROVE  \E t \in Server : \E j \in 1..Len(line'[t]) : line'[t][j] = i
    BY DEF SlotsInLine
  <2>1. slot[i] # None /\ \A m \in 1..Len(line[s]) : line[s][m] # i
    BY <1>1
  <2>2. PICK t \in Server : \E m \in 1..Len(line[t]) : line[t][m] = i
    BY <2>1 DEF SlotsInLine
  <2>3. t # s
    BY <2>1, <2>2
  <2> QED
    BY <1>1, <2>2, <2>3
<1>7. SlotsOnce'
  BY <1>1 DEF SlotsOnce
<1> QED
  BY <1>2, <1>4, <1>5, <1>6, <1>7

\* Where a connection without a slot goes is of no matter.
LEMMA ParkStays ==
  ASSUME ParkTypes, ParkInv, UNCHANGED <<slot, line, parked>>,
         \A c \in Conn : at[c] = "parked" /\ (\E i \in Slot : slot[i] = c)
                           => at'[c] = "parked" /\ server'[c] = server[c]
  PROVE  ParkTypes' /\ ParkInv'
<1> USE DEF ParkTypes, ParkInv, SlotsMatch
<1>1. LinesHoldParked'
  <2> SUFFICES ASSUME NEW t \in Server, NEW j \in 1..Len(line[t])
               PROVE  /\ slot[line[t][j]] # None
                      /\ at'[slot[line[t][j]]] = "parked" /\ server'[slot[line[t][j]]] = t
    BY DEF LinesHoldParked
  <2>1. line[t][j] \in Slot
    BY ElementOfSeq
  <2>2. /\ slot[line[t][j]] # None /\ at[slot[line[t][j]]] = "parked"
        /\ server[slot[line[t][j]]] = t
    BY DEF LinesHoldParked
  <2>3. slot[line[t][j]] \in Conn
    BY <2>1, <2>2
  <2> QED
    BY <2>1, <2>2, <2>3
<1> QED
  BY <1>1 DEF CountsMatch, LinesDisjoint, SlotsInLine, SlotsOnce

\* A connection that is parked gets a free slot at the end of the line.
LEMMA ParkAdds ==
  ASSUME ParkTypes, ParkInv, NEW c \in Conn, NEW s \in Server, NEW i \in Slot,
         at[c] # "parked", slot[i] = None, c # None,
         slot' = [slot EXCEPT ![i] = c],
         line' = [line EXCEPT ![s] = Append(@, i)],
         parked' = [parked EXCEPT ![s] = @ + 1],
         at'[c] = "parked", server'[c] = s,
         \A d \in Conn : d # c => at'[d] = at[d] /\ server'[d] = server[d]
  PROVE  ParkTypes' /\ ParkInv'
<1> USE DEF ParkTypes, ParkInv, SlotsMatch
<1>1. /\ Append(line[s], i) \in Seq(Slot) /\ Len(Append(line[s], i)) = Len(line[s]) + 1
      /\ Append(line[s], i)[Len(line[s]) + 1] = i /\ Len(line[s]) \in Nat
      /\ \A j \in 1..Len(line[s]) : Append(line[s], i)[j] = line[s][j]
  OBVIOUS
<1>2. ParkTypes' /\ CountsMatch'
  BY <1>1 DEF CountsMatch
<1>3. \A t \in Server : \A j \in 1..Len(line'[t]) :
        IF t = s /\ j = Len(line[s]) + 1 THEN line'[t][j] = i
        ELSE j \in 1..Len(line[t]) /\ line'[t][j] = line[t][j]
  BY <1>1
<1>4. \A t \in Server : \A j \in 1..Len(line[t]) :
        /\ line[t][j] \in Slot /\ line[t][j] # i
        /\ slot[line[t][j]] \in Conn /\ slot[line[t][j]] # c
  BY ElementOfSeq DEF LinesHoldParked
<1>5. LinesHoldParked'
  <2> SUFFICES ASSUME NEW t \in Server, NEW j \in 1..Len(line'[t])
               PROVE  /\ slot'[line'[t][j]] # None
                      /\ at'[slot'[line'[t][j]]] = "parked" /\ server'[slot'[line'[t][j]]] = t
    BY DEF LinesHoldParked
  <2>1. CASE t = s /\ j = Len(line[s]) + 1
    BY <1>3, <2>1
  <2>2. CASE ~ (t = s /\ j = Len(line[s]) + 1)
    <3>1. j \in 1..Len(line[t]) /\ line'[t][j] = line[t][j]
      BY <1>3, <2>2
    <3>2. slot'[line[t][j]] = slot[line[t][j]] /\ slot[line[t][j]] # c
      BY <1>4, <3>1
    <3>3. slot[line[t][j]] # None /\ at[slot[line[t][j]]] = "parked" /\ server[slot[line[t][j]]] = t
      BY <3>1 DEF LinesHoldParked
    <3> QED
      BY <1>4, <3>1, <3>2, <3>3
  <2> QED
    BY <2>1, <2>2
<1>6. LinesDisjoint'
  <2> SUFFICES ASSUME NEW t \in Server, NEW u \in Server,
                      NEW j \in 1..Len(line'[t]), NEW m \in 1..Len(line'[u]),
                      line'[t][j] = line'[u][m]
               PROVE  t = u /\ j = m
    BY DEF LinesDisjoint
  <2>1. \A x \in 1..Len(line[t]), y \in 1..Len(line[u]) :
          line[t][x] = line[u][y] => t = u /\ x = y
    BY DEF LinesDisjoint
  <2> QED
    BY <1>3, <1>4, <2>1
<1>7. SlotsInLine'
  <2> SUFFICES ASSUME NEW h \in Slot, slot'[h] # None
               PROVE  \E t \in Server : \E j \in 1..Len(line'[t]) : line'[t][j] = h
    BY DEF SlotsInLine
  <2>1. CASE h = i
    <3>1. Len(line[s]) + 1 \in 1..Len(line'[s]) /\ line'[s][Len(line[s]) + 1] = h
      BY <1>1, <2>1
    <3> QED
      BY <3>1
  <2>2. CASE h # i
    <3>1. PICK t \in Server : \E m \in 1..Len(line[t]) : line[t][m] = h
      BY <2>2 DEF SlotsInLine
    <3>2. PICK m \in 1..Len(line[t]) : line[t][m] = h
      BY <3>1
    <3>3. m \in 1..Len(line'[t]) /\ line'[t][m] = h
      BY <1>1, <3>2
    <3> QED
      BY <3>3
  <2> QED
    BY <2>1, <2>2
<1>8. SlotsOnce'
  <2>1. \A h \in Slot : slot[h] # c
    BY SMTT(30) DEF SlotsInLine, LinesHoldParked
  <2> QED
    BY <2>1 DEF SlotsOnce
<1> QED
  BY <1>2, <1>5, <1>6, <1>7, <1>8

-----------------------------------------------------------------------------
(* ACCEPT events.                                                          *)

\* An ACCEPT goes to the front: c is not on offer yet, the others stay.
LEMMA OfferKeeps ==
  ASSUME PlaceTypes, EventTypes, EventInv, NEW c \in Conn, NEW s \in Server,
         NEW place \in [Conn -> Place], NEW as \in {"offered", "promoted"},
         Offer(c, s, place, as), at[c] \in {"none", "parked"},
         \A d \in Conn : /\ at[d] \in {"offered", "promoted"} => place[d] = at[d]
                         /\ d # c => (place[d] = "none" <=> at[d] = "none"),
         server' \in [Conn -> Server \cup {None}],
         server'[c] = s, \A d \in Conn : d # c => server'[d] = server[d],
         UNCHANGED <<session, stale>>, as = "offered" => c \notin stale
  PROVE  PlaceTypes' /\ EventTypes' /\ EventInv'
<1> USE DEF PlaceTypes, EventTypes, EventInv
<1> DEFINE e0 == [conn |-> c, epoch |-> session[s]]
<1>1. e0 \in Accept
  BY DEF Accept
<1>2. accepts \in Seq(Accept) /\ Len(accepts) \in Nat
  OBVIOUS
<1>3. \A k \in 1..Len(accepts) : accepts[k].conn \in Conn /\ accepts[k].conn # c
                                   /\ at[accepts[k].conn] \in {"offered", "promoted"}
  <2>1. \A k \in 1..Len(accepts) : accepts[k] \in Accept
    BY ElementOfSeq
  <2> QED
    BY <2>1 DEF EventsMatch, Accept
<1>4. CASE at' = [place EXCEPT ![c] = as] /\ accepts' = <<e0>> \o accepts
  <2>1. PlaceTypes'
    BY <1>4 DEF Place
  <2>2. <<e0>> \in Seq(Accept) /\ Len(<<e0>>) = 1 /\ <<e0>>[1] = e0
    BY <1>1
  <2>3. /\ accepts' \in Seq(Accept) /\ Len(accepts') = 1 + Len(accepts)
        /\ \A k \in 1..1 + Len(accepts) : accepts'[k] = IF k <= 1 THEN <<e0>>[k] ELSE accepts[k - 1]
    BY <1>2, <1>4, <2>2, ConcatProperties
  <2>4. EventTypes'
    BY <2>3
  <2>5. \A k \in 1..Len(accepts') : IF k = 1 THEN accepts'[k] = e0
                                   ELSE k - 1 \in 1..Len(accepts) /\ accepts'[k] = accepts[k - 1]
    BY <1>2, <2>2, <2>3
  <2> HIDE DEF e0
  <2>6. e0.conn = c /\ e0.epoch = session[s] /\ session[s] \in Nat
    BY DEF e0
  <2>7. EventsMatch'
    <3> SUFFICES ASSUME NEW k \in 1..Len(accepts')
                 PROVE  LET e == accepts'[k] IN
                        /\ at'[e.conn] \in {"offered", "promoted"} /\ server'[e.conn] \in Server
                        /\ e.epoch <= session[server'[e.conn]]
                        /\ e.conn \in stale /\ at'[e.conn] = "offered"
                             => e.epoch < session[server'[e.conn]]
      BY DEF EventsMatch
    <3>1. CASE k = 1
      <4>1. accepts'[k].conn = c /\ accepts'[k].epoch = session[s]
        BY <2>5, <2>6, <3>1
      <4>2. at'[c] = as
        BY <1>4
      <4>3. session[s] <= session[s]
        BY <2>6
      <4> QED
        BY <4>1, <4>2, <4>3
    <3>2. CASE k # 1
      <4>1. k - 1 \in 1..Len(accepts) /\ accepts'[k] = accepts[k - 1]
        BY <2>5, <3>2
      <4> DEFINE d == accepts[k - 1].conn
      <4>2. d \in Conn /\ d # c /\ at[d] \in {"offered", "promoted"}
        BY <1>3, <4>1
      <4>3. at'[d] = at[d] /\ server'[d] = server[d]
        BY <1>4, <4>2
      <4> QED
        BY <4>1, <4>2, <4>3 DEF EventsMatch
    <3> QED
      BY <3>1, <3>2
  <2>8. EventsOnce'
    <3> SUFFICES ASSUME NEW j \in 1..Len(accepts'), NEW k \in 1..Len(accepts'),
                        accepts'[j].conn = accepts'[k].conn
                 PROVE  j = k
      BY DEF EventsOnce
    <3>1. \A x, y \in 1..Len(accepts) : accepts[x].conn = accepts[y].conn => x = y
      BY DEF EventsOnce
    <3>2. CASE j = 1 /\ k = 1
      BY <3>2
    <3>3. CASE j = 1 /\ k # 1
      BY <1>3, <2>5, <2>6, <3>3
    <3>4. CASE j # 1 /\ k = 1
      BY <1>3, <2>5, <2>6, <3>4
    <3>5. CASE j # 1 /\ k # 1
      <4>1. /\ j - 1 \in 1..Len(accepts) /\ accepts'[j] = accepts[j - 1]
            /\ k - 1 \in 1..Len(accepts) /\ accepts'[k] = accepts[k - 1]
        BY <2>5, <3>5
      <4>2. j - 1 = k - 1
        BY <3>1, <4>1
      <4> QED
        BY <4>2
    <3> QED
      BY <3>2, <3>3, <3>4, <3>5
  <2>9. StaleStarted' /\ ServerKnown'
    BY <1>4 DEF StaleStarted, ServerKnown
  <2> QED
    BY <2>1, <2>4, <2>7, <2>8, <2>9
<1>5. CASE at' = [place EXCEPT ![c] = "ending"] /\ UNCHANGED accepts
  <2>1. PlaceTypes' /\ EventTypes'
    BY <1>5 DEF Place
  <2>2. \A d \in Conn : d # c => at'[d] = place[d] /\ server'[d] = server[d]
    BY <1>5
  <2>3. EventsMatch' /\ EventsOnce'
    <3> SUFFICES ASSUME NEW k \in 1..Len(accepts)
                 PROVE  LET e == accepts[k] IN
                        /\ at'[e.conn] \in {"offered", "promoted"} /\ server'[e.conn] \in Server
                        /\ e.epoch <= session[server'[e.conn]]
                        /\ e.conn \in stale /\ at'[e.conn] = "offered"
                             => e.epoch < session[server'[e.conn]]
      BY <1>5 DEF EventsMatch, EventsOnce
    <3>1. at'[accepts[k].conn] = at[accepts[k].conn]
          /\ server'[accepts[k].conn] = server[accepts[k].conn]
      BY <1>3, <2>2
    <3> QED
      BY <3>1 DEF EventsMatch
  <2>4. StaleStarted' /\ ServerKnown'
    BY <1>5 DEF StaleStarted, ServerKnown
  <2> QED
    BY <2>1, <2>3, <2>4
<1> QED
  BY <1>4, <1>5 DEF Offer

\* What leaves the connections on offer alone keeps their events right.
LEMMA EventsStay ==
  ASSUME PlaceTypes, EventTypes, EventInv, PlaceTypes',
         accepts' = accepts, session' = session, stale' = stale,
         \A d \in Conn : /\ at[d] \in {"offered", "promoted"}
                              => at'[d] = at[d] /\ server'[d] = server[d]
                         /\ at'[d] = "none" => at[d] = "none"
                         /\ at'[d] # "none" => server'[d] \in Server
  PROVE  EventTypes' /\ EventInv'
<1> USE DEF EventTypes, EventInv
<1>1. \A k \in 1..Len(accepts) : accepts[k].conn \in Conn
  <2>1. \A k \in 1..Len(accepts) : accepts[k] \in Accept
    BY ElementOfSeq
  <2> QED
    BY <2>1 DEF Accept
<1>2. EventsMatch'
  BY <1>1 DEF EventsMatch
<1> QED
  BY <1>2 DEF EventsOnce, StaleStarted, ServerKnown

-----------------------------------------------------------------------------
(* Promotion.                                                              *)

\* The head of the line is served, or its failure empties the line; place
\* differs from at in a client that ends, or not at all.
LEMMA PromoteKeeps ==
  ASSUME PlaceTypes, EventTypes, EventInv, ParkTypes, ParkInv, None \notin Conn,
         NEW s \in Server, NEW place \in [Conn -> Place], Promote(s, place),
         \A d \in Conn : place[d] = at[d] \/ (at[d] = "ending" /\ place[d] = "ended"),
         UNCHANGED <<server, session, stale>>
  PROVE  /\ PlaceTypes' /\ EventTypes' /\ EventInv'
         /\ ParkTypes' /\ ParkInv'
<1> DEFINE c == slot[Head(line[s])]
<1>1. 1 \in 1..Len(line[s]) /\ Head(line[s]) = line[s][1] /\ line[s][1] \in Slot
  <2>1. line[s] \in Seq(Slot) /\ line[s] # <<>>
    BY DEF ParkTypes, Promote
  <2> QED
    BY <2>1, ElementOfSeq
<1>2. c \in Conn /\ at[c] = "parked" /\ server[c] = s
  BY <1>1, SMTT(30) DEF ParkTypes, ParkInv, SlotsMatch, LinesHoldParked
<1>3. place[c] = "parked"
  BY <1>2
<1>4. CASE Unlink(s, 1) /\ Offer(c, s, place, "promoted")
  <2>1. PlaceTypes' /\ EventTypes' /\ EventInv'
    <3>1. server' \in [Conn -> Server \cup {None}] /\ server'[c] = s
      BY <1>2 DEF PlaceTypes
    <3>2. \A d \in Conn : /\ at[d] \in {"offered", "promoted"} => place[d] = at[d]
                          /\ d # c => (place[d] = "none" <=> at[d] = "none")
      OBVIOUS
    <3> HIDE DEF c
    <3> QED
      BY <1>2, <1>4, <3>1, <3>2, OfferKeeps
  <2>2. \A d \in Conn : d # c => at'[d] = place[d]
    BY <1>4 DEF Offer
  <2>3. \A d \in Conn : at[d] = "parked" /\ d # slot[line[s][1]]
                          => at'[d] = "parked" /\ server'[d] = server[d]
    BY <1>1, <2>2
  <2>4. ParkTypes' /\ ParkInv'
    BY <1>1, <1>4, <2>3, UnlinkKeeps
  <2> QED
    BY <2>1, <2>4
<1>5. CASE /\ at' = [place EXCEPT ![c] = "gone"]
           /\ Drain(s)
           /\ UNCHANGED accepts
  <2>1. \A d \in Conn : d # c => at'[d] = place[d]
    BY <1>5
  <2>2. at'[c] = "gone"
    BY <1>2, <1>5
  <2>3. \A d \in Conn : at[d] = "parked" /\ server[d] # s
                          => at'[d] = "parked" /\ server'[d] = server[d]
    BY <1>2, <2>1
  <2>4. ParkTypes' /\ ParkInv'
    BY <1>5, <2>3, DrainKeeps
  <2>5. PlaceTypes'
    BY <1>5 DEF PlaceTypes, Place
  <2>6. \A d \in Conn : /\ at[d] \in {"offered", "promoted"}
                             => at'[d] = at[d] /\ server'[d] = server[d]
                        /\ at'[d] = "none" => at[d] = "none"
                        /\ at'[d] # "none" => server'[d] \in Server
    <3> SUFFICES ASSUME NEW d \in Conn
                 PROVE  /\ at[d] \in {"offered", "promoted"}
                              => at'[d] = at[d] /\ server'[d] = server[d]
                        /\ at'[d] = "none" => at[d] = "none"
                        /\ at'[d] # "none" => server'[d] \in Server
      OBVIOUS
    <3>1. at[d] # "none" => server[d] \in Server
      BY DEF EventInv, ServerKnown
    <3> HIDE DEF c
    <3> QED
      BY <1>2, <2>1, <2>2, <3>1
  <2>7. accepts' = accepts /\ session' = session /\ stale' = stale
    BY <1>5
  <2>8. EventTypes' /\ EventInv'
    BY <2>5, <2>6, <2>7, EventsStay
  <2> QED
    BY <2>4, <2>5, <2>8
<1> QED
  BY <1>4, <1>5 DEF Promote

-----------------------------------------------------------------------------
(* Steps.                                                                  *)

\* A connection that is not on offer goes elsewhere.
LEMMA MoveKeeps ==
  ASSUME PlaceTypes, EventTypes, EventInv,
         accepts' = accepts, session' = session, stale' = stale,
         NEW c \in Conn, NEW p \in Place \ {"none"}, at' = [at EXCEPT ![c] = p],
         at[c] \notin {"offered", "promoted"},
         server' \in [Conn -> Server \cup {None}], server'[c] \in Server,
         \A d \in Conn : d # c => server'[d] = server[d]
  PROVE  /\ PlaceTypes' /\ EventTypes' /\ EventInv'
         /\ at'[c] = p /\ \A d \in Conn : d # c => at'[d] = at[d]
<1>1. PlaceTypes'
  BY DEF PlaceTypes
<1>2. at'[c] = p /\ \A d \in Conn : d # c => at'[d] = at[d]
  BY DEF PlaceTypes
<1>3. \A d \in Conn : /\ at[d] \in {"offered", "promoted"}
                           => at'[d] = at[d] /\ server'[d] = server[d]
                      /\ at'[d] = "none" => at[d] = "none"
                      /\ at'[d] # "none" => server'[d] \in Server
  BY <1>2 DEF EventInv, ServerKnown
<1>4. EventTypes' /\ EventInv'
  BY <1>1, <1>3, EventsStay
<1> QED
  BY <1>1, <1>2, <1>4

\* The event at the front is taken.
LEMMA TakeKeeps ==
  ASSUME PlaceTypes, EventTypes, EventInv, TakeAccept
  PROVE  /\ PlaceTypes' /\ EventTypes' /\ EventInv'
         /\ \A d \in Conn : at[d] = "parked" => at'[d] = "parked"
<1> USE DEF PlaceTypes, EventTypes, EventInv
<1> DEFINE c == accepts[1].conn
<1>1. /\ accepts # <<>> /\ accepts' = Tail(accepts) /\ session' = session
      /\ stale' = stale \ {c} /\ server' = server
      /\ \E p \in {"checked", "ending"} : at' = [at EXCEPT ![c] = p]
  <2>1. accepts # <<>>
    BY DEF TakeAccept
  <2>2. Head(accepts) = accepts[1]
    BY <2>1, HeadTailProperties
  <2>3. at' = [at EXCEPT ![c] = IF session[server[c]] = accepts[1].epoch
                                THEN "checked" ELSE "ending"]
    BY <2>2 DEF TakeAccept
  <2>4. /\ accepts' = Tail(accepts) /\ server' = server
        /\ session' = session
    BY DEF TakeAccept, listener
  <2>5. stale' = stale \ {c}
    BY <2>2 DEF TakeAccept
  <2>6. \E p \in {"checked", "ending"} : at' = [at EXCEPT ![c] = p]
    <3> HIDE DEF c
    <3> QED
      BY <2>3
  <2> QED
    BY <2>1, <2>4, <2>5, <2>6
<1>2. /\ accepts' \in Seq(Accept) /\ Len(accepts') = Len(accepts) - 1
      /\ \A k \in 1..Len(accepts') : k + 1 \in 1..Len(accepts) /\ accepts'[k] = accepts[k + 1]
  BY <1>1, HeadTailProperties
<1>3. 1 \in 1..Len(accepts) /\ Len(accepts) \in Nat
  BY <1>1, EmptySeq
<1>4. \A k \in 1..Len(accepts) : accepts[k].conn \in Conn
  <2>1. \A k \in 1..Len(accepts) : accepts[k] \in Accept
    BY ElementOfSeq
  <2> QED
    BY <2>1 DEF Accept
<1>5. c \in Conn /\ at[c] \in {"offered", "promoted"}
  BY <1>3, <1>4 DEF EventsMatch
<1> HIDE DEF c
<1>6. PICK p \in {"checked", "ending"} : at' = [at EXCEPT ![c] = p]
  BY <1>1
<1>7. at'[c] = p /\ \A d \in Conn : d # c => at'[d] = at[d]
  BY <1>5, <1>6
<1>8. PlaceTypes' /\ EventTypes'
  BY <1>1, <1>2, <1>6 DEF Place
<1>9. \A k \in 1..Len(accepts') : accepts[k + 1].conn # c
  <2>1. \A k \in 1..Len(accepts') : k + 1 # 1 /\ k + 1 \in 1..Len(accepts)
    BY <1>2, <1>3
  <2> QED
    BY <1>3, <2>1 DEF EventsOnce, c
<1>10. EventsMatch'
  <2> SUFFICES ASSUME NEW k \in 1..Len(accepts')
               PROVE  LET e == accepts'[k] IN
                      /\ at'[e.conn] \in {"offered", "promoted"} /\ server'[e.conn] \in Server
                      /\ e.epoch <= session'[server'[e.conn]]
                      /\ e.conn \in stale' /\ at'[e.conn] = "offered"
                           => e.epoch < session'[server'[e.conn]]
    BY DEF EventsMatch
  <2>1. k + 1 \in 1..Len(accepts) /\ accepts'[k] = accepts[k + 1]
    BY <1>2
  <2> DEFINE e == accepts[k + 1]
  <2>2. e.conn \in Conn /\ e.conn # c
    BY <1>4, <1>9, <2>1
  <2>3. /\ at[e.conn] \in {"offered", "promoted"} /\ server[e.conn] \in Server
        /\ e.epoch <= session[server[e.conn]]
        /\ e.conn \in stale /\ at[e.conn] = "offered" => e.epoch < session[server[e.conn]]
    BY <2>1 DEF EventsMatch
  <2>4. at'[e.conn] = at[e.conn]
    BY <1>7, <2>2
  <2> QED
    BY <1>1, <2>1, <2>3, <2>4
<1>11. EventsOnce'
  <2> SUFFICES ASSUME NEW j \in 1..Len(accepts'), NEW k \in 1..Len(accepts'),
                      accepts'[j].conn = accepts'[k].conn
               PROVE  j = k
    BY DEF EventsOnce
  <2>1. /\ j + 1 \in 1..Len(accepts) /\ accepts'[j] = accepts[j + 1]
        /\ k + 1 \in 1..Len(accepts) /\ accepts'[k] = accepts[k + 1]
    BY <1>2
  <2>2. j + 1 = k + 1
    BY <2>1 DEF EventsOnce
  <2> QED
    BY <2>2
<1>12. StaleStarted' /\ ServerKnown'
  BY <1>1, <1>5, <1>6, <1>7 DEF StaleStarted, ServerKnown
<1>13. \A d \in Conn : at[d] = "parked" => at'[d] = "parked"
  BY <1>5, <1>7
<1> QED
  BY <1>8, <1>10, <1>11, <1>12, <1>13

\* A new session of a listener: what was on offer in the last one is stale.
LEMMA ListenerKeeps ==
  ASSUME PlaceTypes, EventTypes, EventInv, RestTypes, ListenerStep
  PROVE  PlaceTypes' /\ EventTypes' /\ EventInv' /\ RestTypes'
<1> USE DEF PlaceTypes, EventTypes, EventInv, RestTypes
<1>1. PICK s \in Server :
        /\ session' = [session EXCEPT ![s] = @ + 1]
        /\ listening' \in {listening \ {s}, listening \cup {s}}
        /\ \/ stale' = stale
           \/ stale' = stale \cup {c \in Conn : server[c] = s /\ at[c] \in {"parked", "offered", "promoted"}}
  BY DEF ListenerStep, End, Begin
<1>2. UNCHANGED <<at, server, accepts, lost, live>>
  BY DEF ListenerStep
<1>3. session' \in [Server -> Nat] /\ session'[s] = session[s] + 1
  BY <1>1
<1>4. \A t \in Server : session[t] \in Nat /\ session[t] <= session'[t]
  BY <1>1
<1>5. \A c \in stale' \ stale : c \in Conn /\ server[c] = s /\ at[c] # "none"
  BY <1>1
<1>6. PlaceTypes' /\ EventTypes' /\ RestTypes'
  BY <1>1, <1>2, <1>3
<1>7. EventsMatch'
  <2> SUFFICES ASSUME NEW k \in 1..Len(accepts)
               PROVE  LET e == accepts[k] IN
                      /\ at[e.conn] \in {"offered", "promoted"} /\ server[e.conn] \in Server
                      /\ e.epoch <= session'[server[e.conn]]
                      /\ e.conn \in stale' /\ at[e.conn] = "offered"
                           => e.epoch < session'[server[e.conn]]
    BY <1>2 DEF EventsMatch
  <2> DEFINE e == accepts[k]
             t == server[e.conn]
  <2>1. /\ at[e.conn] \in {"offered", "promoted"} /\ t \in Server
        /\ e.epoch <= session[t]
        /\ e.conn \in stale /\ at[e.conn] = "offered" => e.epoch < session[t]
    BY DEF EventsMatch
  <2>2. e.epoch \in Nat
    <3>1. e \in Accept
      BY ElementOfSeq
    <3> QED
      BY <3>1 DEF Accept
  <2>3. session[t] \in Nat /\ session'[t] \in Nat /\ session[t] <= session'[t]
    BY <1>3, <1>4, <2>1
  <2>4. e.epoch <= session'[t]
    BY <2>1, <2>2, <2>3
  <2>5. e.conn \in stale' \ stale => e.epoch < session'[t]
    <3> SUFFICES ASSUME e.conn \in stale' \ stale
                 PROVE  e.epoch < session'[t]
      OBVIOUS
    <3>1. t = s
      BY <1>5
    <3> HIDE DEF e, t
    <3> QED
      BY <1>3, <2>1, <2>2, <2>3, <3>1
  <2>6. e.conn \in stale /\ at[e.conn] = "offered" => e.epoch < session'[t]
    BY <2>1, <2>2, <2>3
  <2> QED
    BY <2>1, <2>4, <2>5, <2>6
<1>8. EventsOnce' /\ ServerKnown' /\ StaleStarted'
  BY <1>2, <1>5 DEF EventsOnce, ServerKnown, StaleStarted
<1> QED
  BY <1>6, <1>7, <1>8

-----------------------------------------------------------------------------
(* The invariant.                                                          *)

LEMMA InitInv == ASSUME Init PROVE AdmissionInv
<1> USE DEF Init, AdmissionInv
<1>1. ParkTypes /\ PlaceTypes /\ EventTypes /\ RestTypes
  BY DEF ParkTypes, PlaceTypes, EventTypes, RestTypes, Place
<1>2. ParkInv
  BY DEF ParkInv, SlotsMatch, CountsMatch, LinesHoldParked, LinesDisjoint, SlotsInLine, SlotsOnce
<1>3. EventInv
  BY DEF EventInv, EventsMatch, EventsOnce, StaleStarted, ServerKnown
<1> QED
  BY <1>1, <1>2, <1>3

\* The callbacks of a listening pcb.
LEMMA ArriveKeeps ==
  ASSUME AdmissionInv, NEW c \in Conn, NEW s \in Server,
         AcceptServe(c, s) \/ AcceptPark(c, s) \/ AcceptRefuse(c, s)
  PROVE  AdmissionInv'
<1> USE DEF AdmissionInv
<1>1. /\ at[c] = "none" /\ server' = [server EXCEPT ![c] = s]
      /\ stale' = stale /\ session' = session
      /\ lost' = lost /\ live' = live /\ listening' = listening
  BY DEF AcceptServe, AcceptPark, AcceptRefuse, Arrive, listener
<1>2. /\ server' \in [Conn -> Server \cup {None}] /\ server'[c] = s
      /\ \A d \in Conn : d # c => server'[d] = server[d]
  BY <1>1 DEF PlaceTypes
<1>3. RestTypes'
  BY <1>1 DEF RestTypes
<1>4. c \notin stale
  BY <1>1 DEF EventInv, StaleStarted
<1>5. ASSUME UNCHANGED <<slot, line, parked>>, \A d \in Conn : d # c => at'[d] = at[d]
      PROVE  ParkTypes' /\ ParkInv'
  <2>1. \A d \in Conn : at[d] = "parked" /\ (\E i \in Slot : slot[i] = d)
                          => at'[d] = "parked" /\ server'[d] = server[d]
    BY <1>1, <1>2, <1>5
  <2> QED
    BY <1>5, <2>1, ParkStays
<1>6. CASE AcceptServe(c, s)
  <2>1. UNCHANGED <<slot, line, parked>>
    BY <1>6 DEF AcceptServe
  <2>2. CASE Offer(c, s, at, "offered")
    <3>1. at \in [Conn -> Place]
      BY DEF PlaceTypes
    <3>2. PlaceTypes' /\ EventTypes' /\ EventInv'
      BY <1>1, <1>2, <1>4, <2>2, <3>1, OfferKeeps
    <3>3. \A d \in Conn : d # c => at'[d] = at[d]
      BY <2>2, <3>1 DEF Offer
    <3> QED
      BY <1>3, <1>5, <2>1, <3>2, <3>3
  <2>3. CASE at' = [at EXCEPT ![c] = "gone"] /\ UNCHANGED accepts
    <3>1. "gone" \in Place \ {"none"} /\ at[c] \notin {"offered", "promoted"} /\ accepts' = accepts
      BY <1>1, <2>3 DEF Place
    <3>2. /\ PlaceTypes' /\ EventTypes' /\ EventInv'
          /\ \A d \in Conn : d # c => at'[d] = at[d]
      BY <1>1, <1>2, <2>3, <3>1, MoveKeeps
    <3> QED
      BY <1>3, <1>5, <2>1, <3>2
  <2> QED
    BY <1>6, <2>2, <2>3 DEF AcceptServe
<1>7. CASE AcceptPark(c, s)
  <2>1. PICK i \in Slot : /\ slot[i] = None
                          /\ slot' = [slot EXCEPT ![i] = c]
                          /\ line' = [line EXCEPT ![s] = Append(@, i)]
    BY <1>7 DEF AcceptPark
  <2>2. /\ parked' = [parked EXCEPT ![s] = @ + 1] /\ accepts' = accepts
        /\ at' = [at EXCEPT ![c] = "parked"]
    BY <1>7 DEF AcceptPark
  <2>3. "parked" \in Place \ {"none"} /\ at[c] \notin {"offered", "promoted"}
    BY <1>1 DEF Place
  <2>4. /\ PlaceTypes' /\ EventTypes' /\ EventInv'
        /\ at'[c] = "parked" /\ \A d \in Conn : d # c => at'[d] = at[d]
    BY <1>1, <1>2, <2>2, <2>3, MoveKeeps
  <2>5. c # None
    BY AdmissionAssumption
  <2>6. at[c] # "parked"
    BY <1>1
  <2>7. ParkTypes' /\ ParkInv'
    BY <1>2, <2>1, <2>2, <2>4, <2>5, <2>6, ParkAdds
  <2> QED
    BY <1>3, <2>4, <2>7
<1>8. CASE AcceptRefuse(c, s)
  <2>1. /\ at' = [at EXCEPT ![c] = "gone"] /\ accepts' = accepts
        /\ UNCHANGED <<slot, line, parked>>
    BY <1>8 DEF AcceptRefuse
  <2>2. "gone" \in Place \ {"none"} /\ at[c] \notin {"offered", "promoted"}
    BY <1>1 DEF Place
  <2>3. /\ PlaceTypes' /\ EventTypes' /\ EventInv'
        /\ \A d \in Conn : d # c => at'[d] = at[d]
    BY <1>1, <1>2, <2>1, <2>2, MoveKeeps
  <2> QED
    BY <1>3, <1>5, <2>1, <2>3
<1> QED
  BY <1>6, <1>7, <1>8

\* A connection that has arrived and is not on offer goes elsewhere.
LEMMA GoKeeps ==
  ASSUME AdmissionInv, NEW c \in Conn, NEW p \in Place \ {"none"}, at' = [at EXCEPT ![c] = p],
         at[c] \notin {"none", "offered", "promoted"},
         server' = server, accepts' = accepts, session' = session, stale' = stale
  PROVE  /\ PlaceTypes' /\ EventTypes' /\ EventInv'
         /\ \A d \in Conn : d # c => at'[d] = at[d]
<1> USE DEF AdmissionInv
<1>1. /\ server' \in [Conn -> Server \cup {None}] /\ server'[c] \in Server
      /\ \A d \in Conn : d # c => server'[d] = server[d]
  BY DEF PlaceTypes, EventInv, ServerKnown
<1> QED
  BY <1>1, MoveKeeps

\* The hooks of a parked pcb.
LEMMA ShedKeeps ==
  ASSUME AdmissionInv, NEW c \in Conn, ShedParked(c) \/ ParkedFin(c) \/ ParkedError(c)
  PROVE  AdmissionInv'
<1> USE DEF AdmissionInv
<1> DEFINE s == server[c]
<1>1. /\ at[c] = "parked" /\ at' = [at EXCEPT ![c] = "gone"]
      /\ server' = server /\ accepts' = accepts /\ stale' = stale /\ session' = session
      /\ lost' = lost /\ live' = live /\ listening' = listening
  BY DEF ShedParked, ShedOrphan, ShedIdle, ParkedFin, ParkedError, listener
<1>2. RestTypes'
  BY <1>1 DEF RestTypes
<1>3. /\ PlaceTypes' /\ EventTypes' /\ EventInv'
      /\ \A d \in Conn : d # c => at'[d] = at[d]
  <2>1. "gone" \in Place \ {"none"} /\ at[c] \notin {"none", "offered", "promoted"}
    BY <1>1 DEF Place
  <2> QED
    BY <1>1, <2>1, GoKeeps
<1>4. s \in Server
  BY <1>1 DEF EventInv, ServerKnown
<1>5. CASE ShedOrphan(c)
  <2>1. UNCHANGED <<slot, line, parked>>
    BY <1>5 DEF ShedOrphan
  <2>2. ASSUME NEW i \in Slot, slot[i] = c
        PROVE  FALSE
    <3>0. PICK t \in Server : \E k \in 1..Len(line[t]) : line[t][k] = i
      BY <2>2, AdmissionAssumption DEF ParkInv, SlotsMatch, SlotsInLine
    <3>1. PICK k \in 1..Len(line[t]) : line[t][k] = i
      BY <3>0
    <3>2. t = server[c]
      BY <2>2, <3>1 DEF ParkInv, SlotsMatch, LinesHoldParked
    <3> QED
      BY <1>5, <2>2, <3>1, <3>2 DEF ShedOrphan, Orphan, InLine
  <2>3. \A d \in Conn : at[d] = "parked" /\ (\E i \in Slot : slot[i] = d)
                          => at'[d] = "parked" /\ server'[d] = server[d]
    BY <1>1, <1>3, <2>2
  <2>4. ParkTypes' /\ ParkInv'
    BY <2>1, <2>3, ParkStays
  <2> QED
    BY <1>2, <1>3, <2>4
<1>6. CASE ShedIdle(c) \/ ParkedFin(c)
  <2>1. PICK k \in 1..Len(line[s]) : InLine(c, k) /\ Unlink(s, k)
    BY <1>6 DEF ShedIdle, ParkedFin
  <2>2. slot[line[s][k]] = c
    BY <2>1 DEF InLine
  <2>3. \A d \in Conn : at[d] = "parked" /\ d # slot[line[s][k]]
                          => at'[d] = "parked" /\ server'[d] = server[d]
    BY <1>1, <1>3, <2>2
  <2> HIDE DEF s
  <2>4. ParkTypes' /\ ParkInv'
    BY <1>4, <2>1, <2>3, UnlinkKeeps
  <2> QED
    BY <1>2, <1>3, <2>4
<1>7. CASE ParkedError(c)
  <2>1. Drain(s)
    BY <1>7 DEF ParkedError
  <2>2. \A d \in Conn : at[d] = "parked" /\ server[d] # s
                          => at'[d] = "parked" /\ server'[d] = server[d]
    BY <1>1, <1>3
  <2> HIDE DEF s
  <2>3. ParkTypes' /\ ParkInv'
    BY <1>4, <2>1, <2>2, DrainKeeps
  <2> QED
    BY <1>2, <1>3, <2>3
<1> QED
  BY <1>5, <1>6, <1>7 DEF ShedParked

\* What clients do, their promotions aside: nobody's slot changes.
LEMMA ClientKeeps ==
  ASSUME AdmissionInv, NEW c \in Conn,
         \/ ClientError(c) \/ Accepted(c) \/ Close(c) \/ Destroy(c)
         \/ ConnDone(c) /\ ~ Promote(server[c], [at EXCEPT ![c] = "ended"])
  PROVE  AdmissionInv'
<1> USE DEF AdmissionInv
<1> USE DEF ClientError, Accepted, Close, Destroy, ConnDone
<1>1. /\ UNCHANGED <<slot, line, parked>>
      /\ server' = server /\ accepts' = accepts /\ stale' = stale /\ session' = session
      /\ listening' = listening
  BY DEF listener
<1>2. RestTypes'
  BY <1>1 DEF RestTypes
<1>3. \/ at' = at
      \/ /\ at[c] \in {"checked", "open", "ending", "ended"}
         /\ \E p \in {"open", "ending", "ended", "gone"} : at' = [at EXCEPT ![c] = p]
  OBVIOUS
<1>4. PlaceTypes' /\ EventTypes' /\ EventInv' /\ \A d \in Conn : at[d] = "parked" => at'[d] = "parked"
  <2>1. CASE at' = at
    <3>1. PlaceTypes'
      BY <1>1, <2>1 DEF PlaceTypes
    <3>2. EventTypes' /\ EventInv'
      BY <1>1, <2>1 DEF EventTypes, EventInv, EventsMatch, EventsOnce, StaleStarted, ServerKnown
    <3> QED
      BY <2>1, <3>1, <3>2
  <2>2. CASE /\ at[c] \in {"checked", "open", "ending", "ended"}
             /\ \E p \in {"open", "ending", "ended", "gone"} : at' = [at EXCEPT ![c] = p]
    <3>1. PICK p \in {"open", "ending", "ended", "gone"} : at' = [at EXCEPT ![c] = p]
      BY <2>2
    <3>2. p \in Place \ {"none"} /\ at[c] \notin {"none", "offered", "promoted"}
      BY <2>2 DEF Place
    <3>3. /\ PlaceTypes' /\ EventTypes' /\ EventInv'
          /\ \A d \in Conn : d # c => at'[d] = at[d]
      BY <1>1, <3>1, <3>2, GoKeeps
    <3> QED
      BY <2>2, <3>3
  <2> QED
    BY <1>3, <2>1, <2>2
<1>5. \A d \in Conn : at[d] = "parked" /\ (\E i \in Slot : slot[i] = d)
                        => at'[d] = "parked" /\ server'[d] = server[d]
  BY <1>1, <1>4
<1>6. ParkTypes' /\ ParkInv'
  BY <1>1, <1>5, ParkStays
<1> QED
  BY <1>2, <1>4, <1>6

LEMMA NextInv == ASSUME AdmissionInv, Next PROVE AdmissionInv'
<1> USE DEF AdmissionInv
<1>1. ASSUME NEW c \in Conn, NEW s \in Server,
             AcceptServe(c, s) \/ AcceptPark(c, s) \/ AcceptRefuse(c, s)
      PROVE  AdmissionInv'
  BY <1>1, ArriveKeeps
<1>2. ASSUME NEW c \in Conn, ShedParked(c) \/ ParkedFin(c) \/ ParkedError(c)
      PROVE  AdmissionInv'
  BY <1>2, ShedKeeps
<1>3. ASSUME NEW c \in Conn, PollPromote(c)
      PROVE  AdmissionInv'
  <2>1. /\ at[c] = "parked" /\ Promote(server[c], at)
        /\ UNCHANGED <<server, session, stale>> /\ UNCHANGED <<lost, live, listening>>
    BY <1>3 DEF PollPromote, listener
  <2>2. server[c] \in Server /\ at \in [Conn -> Place]
    BY <2>1 DEF EventInv, ServerKnown, PlaceTypes
  <2>3. None \notin Conn /\ \A d \in Conn : at[d] = at[d] \/ (at[d] = "ending" /\ at[d] = "ended")
    BY AdmissionAssumption
  <2>4. /\ PlaceTypes' /\ EventTypes' /\ EventInv'
        /\ ParkTypes' /\ ParkInv'
    BY <2>1, <2>2, <2>3, PromoteKeeps
  <2> QED
    BY <2>1, <2>4 DEF RestTypes
<1>4. ASSUME NEW c \in Conn, ConnDone(c)
      PROVE  AdmissionInv'
  <2> DEFINE place == [at EXCEPT ![c] = "ended"]
  <2>1. at[c] = "ending" /\ UNCHANGED <<server, session, stale>> /\ UNCHANGED <<lost, live, listening>>
    BY <1>4 DEF ConnDone, listener
  <2>2. /\ server[c] \in Server /\ place \in [Conn -> Place]
        /\ \A d \in Conn : place[d] = at[d] \/ (at[d] = "ending" /\ place[d] = "ended")
    BY <2>1 DEF EventInv, ServerKnown, PlaceTypes, Place
  <2>3. CASE Promote(server[c], place)
    <3> HIDE DEF place
    <3>1. None \notin Conn
      BY AdmissionAssumption
    <3>2. /\ PlaceTypes' /\ EventTypes' /\ EventInv'
          /\ ParkTypes' /\ ParkInv'
      BY <2>1, <2>2, <2>3, <3>1, PromoteKeeps
    <3> QED
      BY <2>1, <3>2 DEF RestTypes
  <2>4. CASE ~ Promote(server[c], place)
    BY <1>4, <2>4, ClientKeeps
  <2> QED
    BY <2>3, <2>4
<1>5. ASSUME NEW c \in Conn, ClientError(c) \/ Accepted(c) \/ Close(c) \/ Destroy(c)
      PROVE  AdmissionInv'
  BY <1>5, ClientKeeps
<1>6. ASSUME TakeAccept
      PROVE  AdmissionInv'
  <2>1. /\ PlaceTypes' /\ EventTypes' /\ EventInv'
        /\ \A d \in Conn : at[d] = "parked" => at'[d] = "parked"
    BY <1>6, TakeKeeps
  <2>2. UNCHANGED <<slot, line, parked>> /\ server' = server /\ UNCHANGED <<lost, live, listening>>
    BY <1>6 DEF TakeAccept, listener
  <2>3. \A d \in Conn : at[d] = "parked" /\ (\E i \in Slot : slot[i] = d)
                          => at'[d] = "parked" /\ server'[d] = server[d]
    BY <2>1, <2>2
  <2>4. ParkTypes' /\ ParkInv'
    BY <2>2, <2>3, ParkStays
  <2> QED
    BY <2>1, <2>2, <2>4 DEF RestTypes
<1>7. ASSUME ListenerStep
      PROVE  AdmissionInv'
  <2>1. PlaceTypes' /\ EventTypes' /\ EventInv' /\ RestTypes'
    BY <1>7, ListenerKeeps
  <2>2. UNCHANGED <<slot, line, parked>> /\ server' = server /\ at' = at
    BY <1>7 DEF ListenerStep
  <2>3. \A d \in Conn : at[d] = "parked" /\ (\E i \in Slot : slot[i] = d)
                          => at'[d] = "parked" /\ server'[d] = server[d]
    BY <2>2
  <2>4. ParkTypes' /\ ParkInv'
    BY <2>2, <2>3, ParkStays
  <2> QED
    BY <2>1, <2>4
<1> QED
  BY <1>1, <1>2, <1>3, <1>4, <1>5, <1>6, <1>7 DEF Next

LEMMA StutterInv == ASSUME AdmissionInv, UNCHANGED vars PROVE AdmissionInv'
<1> USE DEF AdmissionInv, vars, listener
<1>1. ParkTypes' /\ PlaceTypes' /\ EventTypes' /\ RestTypes'
  BY DEF ParkTypes, PlaceTypes, EventTypes, RestTypes
<1>2. ParkInv'
  BY DEF ParkInv, SlotsMatch, CountsMatch, LinesHoldParked, LinesDisjoint, SlotsInLine, SlotsOnce
<1>3. EventInv'
  BY DEF EventInv, EventsMatch, EventsOnce, StaleStarted, ServerKnown
<1> QED
  BY <1>1, <1>2, <1>3

LEMMA Invariance == Spec => []AdmissionInv
<1>1. Init => AdmissionInv
  BY InitInv
<1>2. AdmissionInv /\ [Next]_vars => AdmissionInv'
  BY NextInv, StutterInv
<1> QED
  BY <1>1, <1>2, PTL DEF Spec

-----------------------------------------------------------------------------
\* Every variable keeps its type: no counter goes below zero on any path that
\* releases a slot.
THEOREM TypeCorrect == Spec => []TypeOK
<1>1. AdmissionInv => TypeOK
  BY DEF AdmissionInv, TypeOK, ParkTypes, PlaceTypes, EventTypes, RestTypes
<1> QED
  BY <1>1, Invariance, PTL

\* Slots, lines and counters agree on every path that parks, sheds, promotes or
\* drains, whatever the number of listeners that share the pool.
THEOREM SlotsAgree == Spec => []SlotsMatch
<1>1. AdmissionInv => SlotsMatch
  BY DEF AdmissionInv, ParkInv
<1> QED
  BY <1>1, Invariance, PTL

\* A listener that has the pool to itself finds a slot whenever its counter says
\* so: the slots in use would else all be in a line too short to hold them.
THEOREM OneListenerHits ==
  ASSUME \A s, t \in Server : s = t
  PROVE  Spec => []ParkAllocHits
<1>1. ASSUME AdmissionInv, NEW s \in Server, parked[s] < Cardinality(Slot),
             \A i \in Slot : slot[i] # None
      PROVE  FALSE
  <2> DEFINE n == Len(line[s])
  <2>1. line[s] \in Seq(Slot) /\ n \in Nat /\ parked[s] = n
    BY <1>1 DEF AdmissionInv, ParkTypes, ParkInv, SlotsMatch, CountsMatch
  <2>2. line[s] \in [1..n -> Slot]
    BY <2>1
  <2>3. \A i \in Slot : \E k \in 1..n : line[s][k] = i
    BY <1>1 DEF AdmissionInv, ParkInv, SlotsMatch, SlotsInLine
  <2>4. line[s] \in Surjection(1..n, Slot)
    <3> HIDE DEF n
    <3> QED
      BY <2>2, <2>3 DEF Surjection
  <2>5. Cardinality(Slot) <= n
    <3> HIDE DEF n
    <3>1. ExistsSurjection(1..n, Slot)
      BY <2>4 DEF ExistsSurjection
    <3> QED
      BY <2>1, <3>1, FS_SurjCardinalityBound
  <2>6. Cardinality(Slot) \in Nat
    BY AdmissionAssumption, FS_CardinalityType
  <2> HIDE DEF n
  <2> QED
    BY <1>1, <2>1, <2>5, <2>6
<1>2. AdmissionInv => ParkAllocHits
  BY <1>1 DEF ParkAllocHits
<1> QED
  BY <1>2, Invariance, PTL

\* No ACCEPT reaches the application after the end() of the listener it was
\* queued under, unless the connection had been parked: its epoch is behind.
THEOREM EndedIsStale == Spec => NoStaleAccept
<1>1. ASSUME AdmissionInv, Next, NEW c \in stale, at[c] = "offered"
      PROVE  at'[c] # "checked"
  <2> USE DEF AdmissionInv
  <2>0. c \in Conn /\ at \in [Conn -> Place]
    BY <1>1 DEF EventTypes, PlaceTypes
  <2>1. ASSUME NEW d \in Conn, NEW s \in Server,
               AcceptServe(d, s) \/ AcceptPark(d, s) \/ AcceptRefuse(d, s)
        PROVE  at'[c] # "checked"
    <3>1. at[d] = "none" /\ \E p \in Place \ {"checked"} : at' = [at EXCEPT ![d] = p]
      BY <2>1 DEF AcceptServe, AcceptPark, AcceptRefuse, Arrive, Offer, Place
    <3> QED
      BY <1>1, <2>0, <3>1
  <2>2. ASSUME NEW d \in Conn, ShedParked(d) \/ ParkedFin(d) \/ ParkedError(d)
        PROVE  at'[c] # "checked"
    <3>1. at' = [at EXCEPT ![d] = "gone"]
      BY <2>2 DEF ShedParked, ShedOrphan, ShedIdle, ParkedFin, ParkedError
    <3> QED
      BY <1>1, <2>0, <3>1
  <2>3. ASSUME NEW s \in Server, NEW place \in {at} \cup {[at EXCEPT ![d] = "ended"] : d \in Conn},
               Promote(s, place)
        PROVE  at'[c] # "checked"
    <3> DEFINE d == slot[Head(line[s])]
    <3>1. \E p \in Place \ {"checked"} : at' = [place EXCEPT ![d] = p]
      BY <2>3 DEF Promote, Offer, Place
    <3> HIDE DEF d
    <3>2. place \in [Conn -> Place] /\ place[c] # "checked"
      BY <1>1, <2>0 DEF Place
    <3> QED
      BY <2>0, <3>1, <3>2
  <2>4. ASSUME NEW d \in Conn, PollPromote(d)
        PROVE  at'[c] # "checked"
    <3>1. server[d] \in Server /\ Promote(server[d], at)
      BY <1>1, <2>4 DEF PollPromote, EventInv, ServerKnown
    <3> QED
      BY <2>3, <3>1
  <2>5. ASSUME NEW d \in Conn, ConnDone(d)
        PROVE  at'[c] # "checked"
    <3> DEFINE place == [at EXCEPT ![d] = "ended"]
    <3>1. server[d] \in Server
      BY <1>1, <2>5 DEF ConnDone, EventInv, ServerKnown
    <3>2. Promote(server[d], place) \/ at' = place
      BY <2>5 DEF ConnDone
    <3>3. place[c] # "checked"
      BY <1>1, <2>0
    <3> HIDE DEF place
    <3>4. place \in {at} \cup {[at EXCEPT ![x] = "ended"] : x \in Conn}
      BY DEF place
    <3> QED
      BY <2>3, <3>1, <3>2, <3>3, <3>4
  <2>6. ASSUME NEW d \in Conn, ClientError(d) \/ Accepted(d) \/ Close(d) \/ Destroy(d)
        PROVE  at'[c] # "checked"
    <3>1. at' = at \/ \E p \in {"ending", "open", "gone"} : at' = [at EXCEPT ![d] = p]
      BY <2>6 DEF ClientError, Accepted, Close, Destroy
    <3> QED
      BY <1>1, <2>0, <3>1
  <2>7. ASSUME TakeAccept
        PROVE  at'[c] # "checked"
    <3> DEFINE e == accepts[1]
    <3>1. accepts # <<>> /\ Head(accepts) = e /\ 1 \in 1..Len(accepts) /\ e \in Accept
      <4>1. accepts \in Seq(Accept) /\ accepts # <<>>
        BY <1>1, <2>7 DEF EventTypes, TakeAccept
      <4> QED
        BY <4>1, HeadTailProperties, EmptySeq, ElementOfSeq
    <3>2. at' = [at EXCEPT ![e.conn] = IF session[server[e.conn]] = e.epoch
                                        THEN "checked" ELSE "ending"]
      BY <2>7, <3>1 DEF TakeAccept
    <3>3. CASE e.conn # c
      <4> HIDE DEF e
      <4> QED
        BY <1>1, <2>0, <3>2, <3>3
    <3>4. CASE e.conn = c
      <4>1. e.epoch < session[server[c]] /\ server[c] \in Server
        BY <1>1, <3>1, <3>4 DEF EventInv, EventsMatch
      <4>2. e.epoch \in Nat /\ session[server[c]] \in Nat
        BY <1>1, <3>1, <4>1 DEF Accept, EventTypes
      <4>3. session[server[c]] # e.epoch
        BY <4>1, <4>2
      <4> HIDE DEF e
      <4> QED
        BY <2>0, <3>2, <3>4, <4>3
    <3> QED
      BY <3>3, <3>4
  <2>8. ASSUME ListenerStep
        PROVE  at'[c] # "checked"
    BY <1>1, <2>8 DEF ListenerStep
  <2> QED
    BY <1>1, <2>1, <2>2, <2>4, <2>5, <2>6, <2>7, <2>8 DEF Next
<1>2. AdmissionInv /\ [Next]_vars => [\A c \in stale : at[c] = "offered" => at'[c] # "checked"]_vars
  BY <1>1
<1> QED
  BY <1>2, Invariance, PTL DEF Spec, NoStaleAccept

=============================================================================
