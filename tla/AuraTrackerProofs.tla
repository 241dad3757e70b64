--------------------------- MODULE AuraTrackerProofs ---------------------------
(***************************************************************************)
(* Theorems about AuraTracker: its lists and its stack, then its two       *)
(* caches, the earliest expiry of a unit's list and the earliest of those. *)
(* The caches never run late, so no advance leaves an aura behind; the two *)
(* theorems on them assume what no class does: that class code run by one  *)
(* advance dismisses a pet and then summons one.                           *)
(***************************************************************************)
EXTENDS AuraTracker, TLAPS

\* The frames: the event loop's at the bottom, an advance only directly above it,
\* and class code running from those between the bottom and the top.
IsEvent(f) == stack[f].type = "event"
IsAdvance(f) == stack[f].type = "advance"

ShapeInv ==
    /\ stack[1].type = "loop"
    /\ \A f \in 1..Len(stack) : 1 < f /\ f < Len(stack) => stack[f].calling
    /\ \A f \in 1..Len(stack) : IsAdvance(f) =>
          f = 2 /\ (stack[f].calling => stack[f].next <= stack[f].size /\ stack[f].unit \in Units)

\* The nested events of a unit use its buffers in turn, one each.
EventInv ==
    /\ \A f \in 1..Len(stack) : IsEvent(f) =>
          /\ stack[f].slot \in 1..depth[stack[f].unit] /\ stack[f].slot < f
          /\ buffers[stack[f].unit][stack[f].slot] = stack[f].heard
    /\ \A u \in Units : \A d \in 1..depth[u] :
          \E f \in 1..Len(stack) : IsEvent(f) /\ stack[f].unit = u /\ stack[f].slot = d
    /\ \A f, g \in 1..Len(stack) :
          f < g /\ IsEvent(f) /\ IsEvent(g) /\ stack[f].unit = stack[g].unit =>
              stack[f].slot < stack[g].slot

\* An aura stands where it remembers to stand, and nowhere else.
PlaceInv ==
    /\ \A u \in Units, l \in Lists : \A i \in 1..Len(list[u][l]) :
          HomeOf(list[u][l][i]) = u /\ index[list[u][l][i]][l] = i
    /\ \A a \in Auras, l \in Lists :
          /\ index[a][l] # 0 <=> active[a] /\ Joins(a, l)
          /\ index[a][l] # 0 => index[a][l] \in 1..Len(list[HomeOf(a)][l])
                                /\ list[HomeOf(a)][l][index[a][l]] = a

\* What has been finished, or is not yet reset, has no active aura.
QuietInv ==
    /\ pc = "resetting" =>
          /\ turn <= Len(ResetOrder)
          /\ \A a \in Auras : active[a] => \E i \in 1..turn : ResetOrder[i] = HomeOf(a)
    /\ pc = "finishing" =>
          /\ turn >= 1
          /\ \A a \in Auras : active[a] => \E i \in turn..Len(FinishOrder) : FinishOrder[i] = HomeOf(a)

\* Places that are listed, or that an advance comes to, hold trackers.
WalkInv ==
    /\ \A j \in 1..listed : trackers[j] \in Units
    /\ \A f \in 1..Len(stack) : IsAdvance(f) => \A j \in 1..stack[f].size : trackers[j] \in Units
    /\ \A f \in 1..Len(stack) : IsAdvance(f) /\ ~removed => stack[f].size <= listed

\* TypeOK in four parts.
AuraTypes ==
    /\ active \in [Auras -> BOOLEAN] /\ expires \in [Auras -> Nat]
    /\ list \in [Units -> [Lists -> Seq(Auras)]] /\ index \in [Auras -> [Lists -> Nat]]
StackTypes == stack \in Seq(FrameTypes) /\ stack # <<>> /\ Len(stack) <= MaxDepth
SendTypes == /\ buffers \in [Units -> [1..MaxDepth -> Seq(Auras)]]
             /\ depth \in [Units -> 0..(MaxDepth - 1)]
RestTypes ==
    /\ now \in Nat /\ pc \in {"resetting", "running", "finishing"}
    /\ turn \in Nat /\ iter \in Nat /\ ops \in 0..MaxOps
    /\ minExpires \in [Units -> Nat] /\ minTracker \in Nat
    /\ enabled \in [Units -> BOOLEAN]
    /\ trackers \in [1..Capacity -> Units \cup {Nil}] /\ listed \in 0..Capacity
    /\ removed \in BOOLEAN

StackInv == StackTypes /\ SendTypes /\ ShapeInv /\ EventInv
TrackerInv == RestTypes /\ AuraTypes /\ PlaceInv /\ QuietInv /\ StackInv /\ WalkInv

-----------------------------------------------------------------------------
(* Lists *)

\* What removeBySwappingToBack leaves.
LEMMA SwapFacts ==
  ASSUME NEW s \in Seq(Auras), NEW i \in 1..Len(s)
  PROVE  /\ SwapRemove(s, i) \in Seq(Auras) /\ Len(SwapRemove(s, i)) = Len(s) - 1
         /\ \A j \in 1..(Len(s) - 1) : SwapRemove(s, i)[j] = IF j = i THEN s[Len(s)] ELSE s[j]
<1>1. Len(s) - 1 \in Nat /\ \A j \in 1..Len(s) : s[j] \in Auras
  OBVIOUS
<1>2. SwapRemove(s, i) \in [1..(Len(s) - 1) -> Auras]
  BY <1>1 DEF SwapRemove
<1>3. SwapRemove(s, i) \in Seq(Auras)
  BY <1>1, <1>2
<1>4. DOMAIN SwapRemove(s, i) = 1..(Len(s) - 1)
  BY DEF SwapRemove
<1>5. Len(SwapRemove(s, i)) = Len(s) - 1
  BY <1>1, <1>3, <1>4
<1> QED BY <1>3, <1>5 DEF SwapRemove

\* Deactivate takes an aura out of its lists, and the last of a list into its place.
LEMMA FadeKeeps ==
  ASSUME AuraTypes, PlaceInv, NEW a \in Auras, active[a], Fade(a)
  PROVE  /\ AuraTypes' /\ PlaceInv'
         /\ \A b \in Auras : /\ active'[b] = (active[b] /\ b # a)
                             /\ expires'[b] = IF b = a THEN 0 ELSE expires[b]
<1> DEFINE h == HomeOf(a)
           n(l) == Len(list[h][l])
           k(l) == index[a][l]
<1>1. h \in Units
  BY TrackerAssumption
<1>2. /\ active' \in [Auras -> BOOLEAN] /\ expires' \in [Auras -> Nat]
      /\ \A b \in Auras : /\ active'[b] = (active[b] /\ b # a)
                          /\ expires'[b] = IF b = a THEN 0 ELSE expires[b]
  BY DEF Fade, AuraTypes
<1>3. ASSUME NEW l \in Lists
      PROVE  /\ list[h][l] \in Seq(Auras) /\ n(l) \in Nat /\ k(l) \in Nat
             /\ k(l) # 0 => k(l) \in 1..n(l) /\ list[h][l][k(l)] = a
  BY <1>1 DEF AuraTypes, PlaceInv
<1>4. ASSUME NEW u \in Units, NEW l \in Lists
      PROVE  list'[u][l] = IF u = h /\ k(l) # 0 THEN SwapRemove(list[u][l], k(l)) ELSE list[u][l]
  <2>1. list' = [list EXCEPT ![h] = [m \in Lists |-> IF index[a][m] = 0 THEN @[m] ELSE SwapRemove(@[m], index[a][m])]]
    BY DEF Fade, Left
  <2> QED BY <1>1, <2>1 DEF AuraTypes
<1>5. ASSUME NEW b \in Auras, NEW l \in Lists
      PROVE  index'[b][l] = IF b = a THEN 0
                            ELSE IF k(l) # 0 /\ k(l) < n(l) /\ b = list[h][l][n(l)] THEN k(l)
                            ELSE index[b][l]
  BY DEF Fade, IndexLeft
<1>6. ASSUME NEW l \in Lists, k(l) # 0
      PROVE  /\ list'[h][l] \in Seq(Auras) /\ Len(list'[h][l]) = n(l) - 1
             /\ \A j \in 1..(n(l) - 1) :
                   list'[h][l][j] = IF j = k(l) THEN list[h][l][n(l)] ELSE list[h][l][j]
  <2> DEFINE s == list[h][l]
             i == index[a][l]
  <2>1. s \in Seq(Auras) /\ i \in 1..Len(s)
    BY <1>3, <1>6
  <2>2. list'[h][l] = SwapRemove(s, i)
    BY <1>1, <1>4, <1>6
  <2> HIDE DEF s, i
  <2>3. /\ SwapRemove(s, i) \in Seq(Auras) /\ Len(SwapRemove(s, i)) = Len(s) - 1
        /\ \A j \in 1..(Len(s) - 1) : SwapRemove(s, i)[j] = IF j = i THEN s[Len(s)] ELSE s[j]
    BY <2>1, SwapFacts
  <2>4. s = list[h][l] /\ n(l) = Len(s) /\ k(l) = i
    BY DEF s, i
  <2> HIDE DEF n, k, h
  <2> QED BY <2>2, <2>3, <2>4
<1>7. index' \in [Auras -> [Lists -> Nat]]
  <2>1. index' = [b \in Auras |-> [l \in Lists |-> index'[b][l]]]
    BY DEF Fade, IndexLeft
  <2>2. \A b \in Auras, l \in Lists : index'[b][l] \in Nat
    BY <1>3, <1>5 DEF AuraTypes
  <2> QED BY <2>1, <2>2
<1>8. list' \in [Units -> [Lists -> Seq(Auras)]]
  <2>1. list' = [list EXCEPT ![h] = list'[h]] /\ list'[h] = [l \in Lists |-> list'[h][l]]
    BY <1>1 DEF Fade, Left, AuraTypes
  <2>2. \A l \in Lists : list'[h][l] \in Seq(Auras)
    BY <1>1, <1>3, <1>4, <1>6
  <2> QED BY <1>1, <2>1, <2>2 DEF AuraTypes
<1> HIDE DEF n, k, h
<1>9. ASSUME NEW u \in Units, NEW l \in Lists, NEW i \in 1..Len(list'[u][l])
      PROVE  HomeOf(list'[u][l][i]) = u /\ index'[list'[u][l][i]][l] = i
  <2>1. ASSUME NEW j \in 1..Len(list[u][l])
        PROVE  /\ list[u][l][j] \in Auras /\ HomeOf(list[u][l][j]) = u /\ index[list[u][l][j]][l] = j
    BY DEF AuraTypes, PlaceInv
  <2>2. CASE u = h /\ k(l) # 0
    <3>1. /\ i \in 1..(n(l) - 1) /\ n(l) \in Nat /\ Len(list[u][l]) = n(l) /\ k(l) \in 1..n(l)
          /\ list[u][l][k(l)] = a
      BY <1>3, <1>6, <2>2 DEF n, h
    <3>2. CASE i = k(l)
      <4>1. list'[u][l][i] = list[u][l][n(l)] /\ n(l) \in 1..Len(list[u][l])
        BY <1>6, <2>2, <3>1, <3>2
      <4>2. list[u][l][n(l)] # a
        BY <2>1, <3>1, <3>2, <4>1
      <4> QED BY <1>5, <2>1, <2>2, <3>1, <3>2, <4>1, <4>2
    <3>3. CASE i # k(l)
      <4>1. list'[u][l][i] = list[u][l][i] /\ i \in 1..Len(list[u][l]) /\ n(l) \in 1..Len(list[u][l])
        BY <1>6, <2>2, <3>1, <3>3
      <4>2. list[u][l][i] # a /\ list[u][l][i] # list[u][l][n(l)]
        BY <2>1, <3>1, <3>3, <4>1
      <4> QED BY <1>5, <2>1, <2>2, <4>1, <4>2
    <3> QED BY <3>2, <3>3
  <2>3. CASE ~(u = h /\ k(l) # 0)
    <3>1. list'[u][l] = list[u][l]
      BY <1>4, <2>3
    <3>2. /\ list[u][l][i] \in Auras /\ HomeOf(list[u][l][i]) = u /\ index[list[u][l][i]][l] = i
      BY <2>1, <3>1
    <3>3. list[u][l][i] # a
      <4>1. CASE u # h
        BY <3>2, <4>1 DEF h
      <4>2. CASE u = h /\ k(l) = 0
        BY <3>1, <3>2, <4>2 DEF k
      <4> QED BY <2>3, <4>1, <4>2
    <3>4. ~(k(l) # 0 /\ list[u][l][i] = list[h][l][n(l)] /\ k(l) < n(l))
      <4> SUFFICES ASSUME k(l) # 0, k(l) < n(l), list[u][l][i] = list[h][l][n(l)] PROVE FALSE
        OBVIOUS
      <4>1. n(l) \in 1..Len(list[h][l]) /\ u # h
        BY <1>3, <2>3 DEF n
      <4>2. HomeOf(list[h][l][n(l)]) = h
        BY <1>1, <4>1 DEF PlaceInv
      <4> QED BY <3>2, <4>1, <4>2
    <3> QED BY <1>5, <3>1, <3>2, <3>3, <3>4
  <2> QED BY <2>2, <2>3
<1>10. ASSUME NEW b \in Auras, NEW l \in Lists
       PROVE  /\ index'[b][l] # 0 <=> active'[b] /\ Joins(b, l)
              /\ index'[b][l] # 0 => index'[b][l] \in 1..Len(list'[HomeOf(b)][l])
                                     /\ list'[HomeOf(b)][l][index'[b][l]] = b
  <2> DEFINE v == HomeOf(b)
             j == index[b][l]
  <2>1. /\ j # 0 <=> active[b] /\ Joins(b, l)
        /\ j # 0 => j \in 1..Len(list[v][l]) /\ list[v][l][j] = b
        /\ j \in Nat /\ v \in Units
    BY TrackerAssumption DEF PlaceInv, AuraTypes
  <2>2. CASE b = a
    BY <1>2, <1>5, <2>2
  <2>3. CASE b # a /\ k(l) # 0 /\ k(l) < n(l) /\ b = list[h][l][n(l)]
    <3>1. n(l) \in 1..Len(list[h][l]) /\ n(l) \in Nat /\ k(l) \in 1..n(l)
      BY <1>3, <2>3 DEF n
    <3>2. v = h /\ j = n(l)
      BY <1>1, <2>3, <3>1 DEF PlaceInv
    <3>3. index'[b][l] = k(l)
      BY <1>5, <2>3
    <3>4. k(l) \in 1..(n(l) - 1)
      BY <2>3, <3>1
    <3> QED BY <1>2, <1>6, <2>1, <2>3, <3>1, <3>2, <3>3, <3>4
  <2>4. CASE b # a /\ ~(k(l) # 0 /\ k(l) < n(l) /\ b = list[h][l][n(l)])
    <3>1. index'[b][l] = j
      BY <1>5, <2>4
    <3>2. CASE v = h /\ k(l) # 0 /\ j # 0
      <4>1. /\ n(l) \in Nat /\ k(l) \in 1..n(l) /\ list[h][l][k(l)] = a /\ n(l) = Len(list[h][l])
        BY <1>3, <3>2 DEF n
      <4>2. j # k(l) /\ j \in 1..n(l)
        BY <2>1, <2>4, <3>2, <4>1
      <4>3. j # n(l)
        BY <2>1, <2>4, <3>2, <4>1, <4>2
      <4>4. j \in 1..(n(l) - 1)
        BY <4>1, <4>2, <4>3
      <4>5. list'[v][l][j] = list[v][l][j] /\ Len(list'[v][l]) = n(l) - 1
        BY <1>6, <3>2, <4>2, <4>4
      <4>6. list'[v][l][j] = b /\ j \in 1..Len(list'[v][l])
        BY <2>1, <3>2, <4>4, <4>5
      <4>7. active'[b] <=> active[b]
        BY <1>2, <2>4
      <4> QED BY <2>1, <3>1, <3>2, <4>6, <4>7
    <3>3. CASE v # h \/ k(l) = 0 \/ j = 0
      <4>1. j # 0 => list'[v][l] = list[v][l]
        BY <1>4, <2>1, <3>3
      <4> QED BY <1>2, <2>1, <2>4, <3>1, <4>1
    <3> QED BY <3>2, <3>3, <2>1
  <2> QED BY <2>2, <2>3, <2>4
<1>11. PlaceInv'
  BY <1>9, <1>10 DEF PlaceInv, Joins
<1> QED BY <1>2, <1>7, <1>8, <1>11 DEF AuraTypes

\* Activate puts an aura at the end of the lists it belongs to.
LEMMA GainKeeps ==
  ASSUME AuraTypes, PlaceInv, NEW a \in Auras, ~active[a], NEW t \in Nat,
         expires' = [expires EXCEPT ![a] = t], active' = [active EXCEPT ![a] = TRUE],
         list' = Joined(a), index' = IndexJoined(a)
  PROVE  /\ AuraTypes' /\ PlaceInv'
         /\ \A b \in Auras : /\ active'[b] = (active[b] \/ b = a)
                             /\ expires'[b] = IF b = a THEN t ELSE expires[b]
<1> DEFINE h == HomeOf(a)
<1>1. h \in Units
  BY TrackerAssumption
<1>2. /\ active' \in [Auras -> BOOLEAN] /\ expires' \in [Auras -> Nat]
      /\ \A b \in Auras : /\ active'[b] = (active[b] \/ b = a)
                          /\ expires'[b] = IF b = a THEN t ELSE expires[b]
  BY DEF AuraTypes
<1>3. ASSUME NEW l \in Lists
      PROVE  list[h][l] \in Seq(Auras) /\ Len(list[h][l]) \in Nat /\ index[a][l] = 0
  BY <1>1 DEF AuraTypes, PlaceInv
<1>4. ASSUME NEW u \in Units, NEW l \in Lists
      PROVE  list'[u][l] = IF u = h /\ Joins(a, l) THEN Append(list[u][l], a) ELSE list[u][l]
  <2>1. list' = [list EXCEPT ![h] = [m \in Lists |-> IF Joins(a, m) THEN Append(@[m], a) ELSE @[m]]]
    BY DEF Joined
  <2> QED BY <1>1, <2>1 DEF AuraTypes
<1>5. ASSUME NEW b \in Auras, NEW l \in Lists
      PROVE  index'[b][l] = IF b = a /\ Joins(a, l) THEN Len(list[h][l]) + 1 ELSE index[b][l]
  <2>1. index' = [index EXCEPT ![a] = [m \in Lists |-> IF Joins(a, m) THEN Len(list[HomeOf(a)][m]) + 1 ELSE @[m]]]
    BY DEF IndexJoined
  <2> QED BY <2>1 DEF AuraTypes
<1>6. ASSUME NEW l \in Lists, Joins(a, l)
      PROVE  /\ list'[h][l] \in Seq(Auras) /\ Len(list'[h][l]) = Len(list[h][l]) + 1
             /\ \A j \in 1..Len(list[h][l]) : list'[h][l][j] = list[h][l][j]
             /\ list'[h][l][Len(list[h][l]) + 1] = a
  <2>1. list'[h][l] = Append(list[h][l], a)
    BY <1>1, <1>4, <1>6
  <2> HIDE DEF h
  <2> QED BY <1>3, <2>1
<1>7. index' \in [Auras -> [Lists -> Nat]]
  <2>1. index' = [index EXCEPT ![a] = index'[a]] /\ index'[a] = [l \in Lists |-> index'[a][l]]
    BY DEF IndexJoined, AuraTypes
  <2>2. \A l \in Lists : index'[a][l] \in Nat
    BY <1>3, <1>5
  <2> QED BY <2>1, <2>2 DEF AuraTypes
<1>8. list' \in [Units -> [Lists -> Seq(Auras)]]
  <2>1. list' = [list EXCEPT ![h] = list'[h]] /\ list'[h] = [l \in Lists |-> list'[h][l]]
    BY <1>1 DEF Joined, AuraTypes
  <2>2. \A l \in Lists : list'[h][l] \in Seq(Auras)
    BY <1>1, <1>3, <1>4, <1>6
  <2> QED BY <1>1, <2>1, <2>2 DEF AuraTypes
<1> HIDE DEF h
<1>9. ASSUME NEW u \in Units, NEW l \in Lists, NEW i \in 1..Len(list'[u][l])
      PROVE  HomeOf(list'[u][l][i]) = u /\ index'[list'[u][l][i]][l] = i
  <2>1. ASSUME NEW j \in 1..Len(list[u][l])
        PROVE  /\ list[u][l][j] \in Auras /\ HomeOf(list[u][l][j]) = u /\ index[list[u][l][j]][l] = j
               /\ j # 0
    BY DEF AuraTypes, PlaceInv
  <2>2. CASE u = h /\ Joins(a, l)
    <3>1. Len(list[u][l]) \in Nat /\ (i \in 1..Len(list[u][l]) \/ i = Len(list[u][l]) + 1)
      BY <1>3, <1>6, <2>2
    <3>2. CASE i \in 1..Len(list[u][l])
      <4>1. list[u][l][i] # a
        BY <1>3, <2>1, <3>2
      <4> QED BY <1>5, <1>6, <2>1, <2>2, <3>2, <4>1
    <3>3. CASE i = Len(list[u][l]) + 1
      BY <1>5, <1>6, <2>2, <3>3 DEF h
    <3> QED BY <3>1, <3>2, <3>3
  <2>3. CASE ~(u = h /\ Joins(a, l))
    <3>1. list'[u][l] = list[u][l]
      BY <1>4, <2>3
    <3>2. list[u][l][i] # a
      BY <1>3, <2>1, <3>1
    <3> QED BY <1>5, <2>1, <3>1, <3>2
  <2> QED BY <2>2, <2>3
<1>10. ASSUME NEW b \in Auras, NEW l \in Lists
       PROVE  /\ index'[b][l] # 0 <=> active'[b] /\ Joins(b, l)
              /\ index'[b][l] # 0 => index'[b][l] \in 1..Len(list'[HomeOf(b)][l])
                                     /\ list'[HomeOf(b)][l][index'[b][l]] = b
  <2> DEFINE v == HomeOf(b)
             j == index[b][l]
  <2>1. /\ j # 0 <=> active[b] /\ Joins(b, l)
        /\ j # 0 => j \in 1..Len(list[v][l]) /\ list[v][l][j] = b
        /\ j \in Nat /\ v \in Units
    BY TrackerAssumption DEF PlaceInv, AuraTypes
  <2>2. CASE b = a
    BY <1>2, <1>3, <1>5, <1>6, <2>2 DEF h
  <2>3. CASE b # a
    <3>1. index'[b][l] = j /\ active'[b] = active[b]
      BY <1>2, <1>5, <2>3
    <3>2. CASE v = h /\ Joins(a, l)
      <4>1. CASE j = 0
        BY <2>1, <3>1, <4>1
      <4>2. CASE j # 0
        <5>1. j \in 1..Len(list[h][l]) /\ Len(list[h][l]) \in Nat /\ list[h][l][j] = b
          BY <1>3, <2>1, <3>2, <4>2
        <5>2. list'[v][l][j] = b /\ j \in 1..Len(list'[v][l])
          BY <1>6, <3>2, <5>1
        <5> HIDE DEF v, j
        <5> QED BY <2>1, <3>1, <5>2 DEF v, j
      <4> QED BY <4>1, <4>2
    <3>3. CASE ~(v = h /\ Joins(a, l))
      BY <1>4, <2>1, <3>1, <3>3
    <3> QED BY <3>2, <3>3
  <2> QED BY <2>2, <2>3
<1>11. PlaceInv'
  BY <1>9, <1>10 DEF PlaceInv, Joins
<1> QED BY <1>2, <1>7, <1>8, <1>11 DEF AuraTypes

-----------------------------------------------------------------------------
(* The stack *)

\* What becomes of the frame on top: it calls, goes on to the next, scans a tracker.
Calling(g, b) == [g EXCEPT !.calling = b]
Onward(g, b) == [g EXCEPT !.next = @ + 1, !.calling = b]
Scanning(g, u) == [g EXCEPT !.unit = u, !.calling = TRUE]
Retop(g) == [stack EXCEPT ![Len(stack)] = g]
Put(g) == Append(stack, g)

\* The fields of a frame.
LEMMA FrameFacts ==
  ASSUME NEW g \in FrameTypes
  PROVE  /\ g.calling \in BOOLEAN /\ g.type \in {"loop", "event", "advance", "expireAll"}
         /\ g.type = "event" => /\ g.unit \in Units /\ g.slot \in 1..MaxDepth
                                /\ g.next \in Nat \ {0} /\ g.heard \in Seq(Auras)
         /\ g.type = "advance" => /\ g.unit \in Units \cup {Nil} /\ g.next \in Nat \ {0}
                                  /\ g.size \in 0..Capacity
         /\ g.type = "expireAll" => g.unit \in Units
BY DEF FrameTypes

\* A frame that calls, or no longer does, is otherwise as it was.
LEMMA CallingFacts ==
  ASSUME NEW g \in FrameTypes, NEW b \in BOOLEAN
  PROVE  /\ Calling(g, b) \in FrameTypes
         /\ Calling(g, b).type = g.type /\ Calling(g, b).calling = b
         /\ g.type = "event" => /\ Calling(g, b).unit = g.unit /\ Calling(g, b).slot = g.slot
                                /\ Calling(g, b).heard = g.heard
<1>1. CASE g \in [type : {"loop"}, calling : BOOLEAN]
  BY <1>1 DEF Calling, FrameTypes
<1>2. CASE g \in [type : {"event"}, unit : Units, slot : 1..MaxDepth, next : Nat \ {0},
                  heard : Seq(Auras), calling : BOOLEAN]
  <2> DEFINE q == Seq(Auras)
  <2>1. g \in [type : {"event"}, unit : Units, slot : 1..MaxDepth, next : Nat \ {0},
               heard : q, calling : BOOLEAN]
    BY <1>2
  <2> HIDE DEF q
  <2>2. /\ Calling(g, b) \in [type : {"event"}, unit : Units, slot : 1..MaxDepth, next : Nat \ {0},
                              heard : q, calling : BOOLEAN]
        /\ Calling(g, b).type = g.type /\ Calling(g, b).calling = b
        /\ Calling(g, b).unit = g.unit /\ Calling(g, b).slot = g.slot
        /\ Calling(g, b).heard = g.heard
    BY <2>1 DEF Calling
  <2> QED BY <2>2 DEF FrameTypes, q
<1>3. CASE g \in [type : {"advance"}, unit : Units \cup {Nil}, next : Nat \ {0}, size : 0..Capacity,
                  calling : BOOLEAN]
  BY <1>3 DEF Calling, FrameTypes
<1>4. CASE g \in [type : {"expireAll"}, unit : Units, calling : BOOLEAN]
  BY <1>4 DEF Calling, FrameTypes
<1> QED BY <1>1, <1>2, <1>3, <1>4 DEF FrameTypes

\* An event that goes on to its next aura.
LEMMA HearFacts ==
  ASSUME NEW g \in FrameTypes, g.type = "event", NEW b \in BOOLEAN
  PROVE  /\ Onward(g, b) \in FrameTypes
         /\ Onward(g, b).type = "event" /\ Onward(g, b).unit = g.unit
         /\ Onward(g, b).slot = g.slot /\ Onward(g, b).heard = g.heard
<1> DEFINE q == Seq(Auras)
           R == [type : {"event"}, unit : Units, slot : 1..MaxDepth, next : Nat \ {0},
                 heard : q, calling : BOOLEAN]
<1>1. g \in R
  BY DEF FrameTypes
<1> HIDE DEF q
<1>2. g.next + 1 \in Nat \ {0} /\ Onward(g, b) = [g EXCEPT !.next = g.next + 1, !.calling = b]
  BY <1>1 DEF Onward
<1>3. /\ Onward(g, b) \in R
      /\ Onward(g, b).type = "event" /\ Onward(g, b).unit = g.unit
      /\ Onward(g, b).slot = g.slot /\ Onward(g, b).heard = g.heard
  BY <1>1, <1>2
<1> QED BY <1>3 DEF FrameTypes, q

\* An advance that goes on to its next tracker, or scans the one it is at.
LEMMA WalkFacts ==
  ASSUME NEW g \in FrameTypes, g.type = "advance"
  PROVE  /\ Onward(g, FALSE) \in FrameTypes
         /\ Onward(g, FALSE).type = "advance" /\ ~Onward(g, FALSE).calling
         /\ Onward(g, FALSE).size = g.size /\ Onward(g, FALSE).next = g.next + 1
         /\ \A u \in Units : /\ Scanning(g, u) \in FrameTypes
                             /\ Scanning(g, u).type = "advance" /\ Scanning(g, u).calling
                             /\ Scanning(g, u).unit = u /\ Scanning(g, u).size = g.size
                             /\ Scanning(g, u).next = g.next
<1> DEFINE R == [type : {"advance"}, unit : Units \cup {Nil}, next : Nat \ {0}, size : 0..Capacity,
                 calling : BOOLEAN]
<1>1. g \in R
  BY DEF FrameTypes
<1>2. g.next + 1 \in Nat \ {0} /\ Onward(g, FALSE) = [g EXCEPT !.next = g.next + 1, !.calling = FALSE]
  BY <1>1 DEF Onward
<1>3. /\ Onward(g, FALSE) \in R
      /\ Onward(g, FALSE).type = "advance" /\ ~Onward(g, FALSE).calling
      /\ Onward(g, FALSE).size = g.size /\ Onward(g, FALSE).next = g.next + 1
  BY <1>1, <1>2
<1>4. ASSUME NEW u \in Units
      PROVE  /\ Scanning(g, u) \in R
             /\ Scanning(g, u).type = "advance" /\ Scanning(g, u).calling
             /\ Scanning(g, u).unit = u /\ Scanning(g, u).size = g.size
             /\ Scanning(g, u).next = g.next
  BY <1>1 DEF Scanning
<1> QED BY <1>3, <1>4 DEF FrameTypes

\* The frame on top.
LEMMA TopFacts ==
  ASSUME StackTypes
  PROVE  /\ Len(stack) \in Nat /\ Len(stack) >= 1 /\ Len(stack) \in 1..Len(stack)
         /\ Frame = stack[Len(stack)] /\ Frame \in FrameTypes
         /\ \A f \in 1..Len(stack) : stack[f] \in FrameTypes
<1> DEFINE s == stack
<1>1. s \in Seq(FrameTypes) /\ s # <<>>
  BY DEF StackTypes
<1> HIDE DEF s
<1>2. Len(s) \in Nat /\ Len(s) >= 1 /\ \A f \in 1..Len(s) : s[f] \in FrameTypes
  BY <1>1
<1> QED BY <1>2 DEF s, Frame, Last

\* The new stack, frame by frame.
LEMMA RetopFacts ==
  ASSUME StackTypes, NEW g \in FrameTypes
  PROVE  /\ Retop(g) \in Seq(FrameTypes) /\ Len(Retop(g)) = Len(stack)
         /\ \A f \in 1..Len(stack) : Retop(g)[f] = IF f = Len(stack) THEN g ELSE stack[f]
<1> DEFINE s == stack
<1>1. s \in Seq(FrameTypes) /\ Len(s) \in 1..Len(s)
  BY TopFacts DEF StackTypes
<1> HIDE DEF s
<1>2. /\ [s EXCEPT ![Len(s)] = g] \in Seq(FrameTypes) /\ Len([s EXCEPT ![Len(s)] = g]) = Len(s)
      /\ \A f \in 1..Len(s) : [s EXCEPT ![Len(s)] = g][f] = IF f = Len(s) THEN g ELSE s[f]
  BY <1>1
<1> QED BY <1>2 DEF s, Retop

\* A frame on top of the others.
LEMMA PutFacts ==
  ASSUME StackTypes, NEW g \in FrameTypes
  PROVE  /\ Put(g) \in Seq(FrameTypes) /\ Len(Put(g)) = Len(stack) + 1
         /\ Put(g)[Len(stack) + 1] = g /\ \A f \in 1..Len(stack) : Put(g)[f] = stack[f]
<1> DEFINE s == stack
<1>1. s \in Seq(FrameTypes)
  BY DEF StackTypes
<1> HIDE DEF s
<1>2. /\ Append(s, g) \in Seq(FrameTypes) /\ Len(Append(s, g)) = Len(s) + 1
      /\ Append(s, g)[Len(s) + 1] = g /\ \A f \in 1..Len(s) : Append(s, g)[f] = s[f]
  BY <1>1
<1> QED BY <1>2 DEF s, Put

\* The frames below the one on top.
LEMMA PopFacts ==
  ASSUME StackTypes
  PROVE  /\ Pop \in Seq(FrameTypes) /\ Len(Pop) = Len(stack) - 1
         /\ \A f \in 1..(Len(stack) - 1) : Pop[f] = stack[f]
<1> DEFINE s == stack
           n == Len(s) - 1
           T == FrameTypes
<1>1. s \in Seq(T) /\ n \in 0..Len(s)
  BY TopFacts DEF StackTypes
<1> HIDE DEF s, n, T
<1>2. /\ SubSeq(s, 1, n) \in Seq(T) /\ Len(SubSeq(s, 1, n)) = n
      /\ \A f \in 1..n : SubSeq(s, 1, n)[f] = s[f]
  BY <1>1
<1> QED BY <1>2 DEF s, n, T, Pop

\* The advance under way, if there is one, is as it was.
AdvancesKept ==
    \A f \in Nat : /\ f \in 1..Len(stack) /\ IsAdvance(f) <=> f \in 1..Len(stack') /\ IsAdvance(f)'
                   /\ f \in 1..Len(stack) /\ IsAdvance(f) => stack'[f] = stack[f]

\* The frame on top changes, but not what an event has under way.
LEMMA RetopKeeps ==
  ASSUME StackInv, NEW g \in FrameTypes, stack' = Retop(g), UNCHANGED sendVars,
         g.type = Frame.type,
         g.type = "event" => g.unit = Frame.unit /\ g.slot = Frame.slot /\ g.heard = Frame.heard,
         g.type = "advance" /\ g.calling => g.next <= g.size /\ g.unit \in Units
  PROVE  StackInv' /\ (g.type # "advance" => AdvancesKept)
<1> DEFINE n == Len(stack)
<1>1. /\ n \in Nat /\ n >= 1 /\ n \in 1..n /\ Frame = stack[n] /\ n <= MaxDepth
      /\ \A f \in 1..n : stack[f] \in FrameTypes
  BY TopFacts DEF StackInv, StackTypes
<1>2. /\ stack' \in Seq(FrameTypes) /\ Len(stack') = n
      /\ \A f \in 1..n : stack'[f] = IF f = n THEN g ELSE stack[f]
  BY RetopFacts DEF StackInv
<1>3. stack' # <<>>
  BY <1>1, <1>2
<1>4. ShapeInv'
  BY <1>1, <1>2 DEF StackInv, ShapeInv, IsAdvance
<1>5. EventInv'
  <2>1. ASSUME NEW f \in 1..n
        PROVE  /\ stack'[f].type = stack[f].type
               /\ stack[f].type = "event" => /\ stack'[f].unit = stack[f].unit /\ stack'[f].slot = stack[f].slot
                                             /\ stack'[f].heard = stack[f].heard
    BY <1>1, <1>2
  <2> HIDE DEF n
  <2>2. depth' = depth /\ buffers' = buffers /\ Len(stack') = n
    BY <1>2 DEF sendVars
  <2>3. ASSUME NEW f \in 1..Len(stack'), IsEvent(f)'
        PROVE  (/\ stack[f].slot \in 1..depth[stack[f].unit] /\ stack[f].slot < f
                /\ buffers[stack[f].unit][stack[f].slot] = stack[f].heard)'
    BY <2>1, <2>2, <2>3 DEF StackInv, EventInv, IsEvent, n
  <2>4. ASSUME NEW u \in Units, NEW d \in 1..depth'[u]
        PROVE  \E f \in 1..Len(stack') : (IsEvent(f) /\ stack[f].unit = u /\ stack[f].slot = d)'
    <3>1. PICK f \in 1..n : IsEvent(f) /\ stack[f].unit = u /\ stack[f].slot = d
      BY <2>2 DEF StackInv, EventInv, n
    <3> QED BY <2>1, <2>2, <3>1 DEF IsEvent
  <2>5. ASSUME NEW f \in 1..Len(stack'), NEW k \in 1..Len(stack'), f < k, IsEvent(f)', IsEvent(k)',
               stack'[f].unit = stack'[k].unit
        PROVE  stack'[f].slot < stack'[k].slot
    BY <2>1, <2>2, <2>5 DEF StackInv, EventInv, IsEvent, n
  <2> QED BY <2>3, <2>4, <2>5 DEF EventInv
<1>6. SendTypes'
  BY DEF StackInv, SendTypes, sendVars
<1>7. g.type # "advance" => AdvancesKept
  BY <1>1, <1>2 DEF AdvancesKept, IsAdvance
<1> QED BY <1>1, <1>2, <1>3, <1>4, <1>5, <1>6, <1>7 DEF StackInv, StackTypes

\* A unit has no more events under way than there are frames above the bottom.
LEMMA DepthFacts ==
  ASSUME StackInv, NEW u \in Units
  PROVE  depth[u] \in Nat /\ depth[u] < Len(stack)
<1>1. depth[u] \in 0..(MaxDepth - 1) /\ MaxDepth \in Nat /\ Len(stack) \in Nat /\ Len(stack) >= 1
  BY TopFacts, TrackerAssumption DEF StackInv, SendTypes
<1>2. CASE depth[u] = 0
  BY <1>1, <1>2
<1>3. CASE depth[u] # 0
  <2>1. depth[u] \in 1..depth[u]
    BY <1>1, <1>3
  <2>2. PICK f \in 1..Len(stack) : IsEvent(f) /\ stack[f].unit = u /\ stack[f].slot = depth[u]
    BY <2>1 DEF StackInv, EventInv
  <2>3. stack[f].slot < f
    BY <2>2 DEF StackInv, EventInv
  <2> QED BY <1>1, <2>2, <2>3
<1> QED BY <1>2, <1>3

\* beginDispatch: the event's copy goes into a buffer no event under way uses.
LEMMA FireKeeps ==
  ASSUME StackInv, AuraTypes, NEW u \in Units, NEW e \in Events, Fire(u, e)
  PROVE  StackInv' /\ AdvancesKept
<1> DEFINE n == Len(stack)
           s == depth[u] + 1
           q == list[u][e]
           g == [type |-> "event", unit |-> u, slot |-> s, next |-> 1, heard |-> q, calling |-> FALSE]
<1>1. /\ n \in Nat /\ n >= 1 /\ n \in 1..n /\ Frame = stack[n]
      /\ \A f \in 1..n : stack[f] \in FrameTypes
  BY TopFacts DEF StackInv
<1>2. /\ Frame.calling /\ n < MaxDepth /\ MaxDepth \in Nat /\ q \in Seq(Auras)
      /\ depth' = [depth EXCEPT ![u] = @ + 1] /\ buffers' = [buffers EXCEPT ![u][s] = q]
      /\ stack' = Append(stack, g)
  BY TrackerAssumption DEF Fire, Call, Push, AuraTypes, Lists
<1>3. depth[u] \in Nat /\ s \in 1..n /\ s \in 1..MaxDepth /\ s <= MaxDepth - 1
  BY <1>1, <1>2, DepthFacts
<1>4. g \in FrameTypes
  BY <1>2, <1>3 DEF FrameTypes
<1>5. /\ g.type = "event" /\ g.unit = u /\ g.slot = s /\ g.heard = q /\ ~g.calling
  OBVIOUS
<1> HIDE DEF g, s, q
<1>6. /\ stack' \in Seq(FrameTypes) /\ Len(stack') = n + 1
      /\ stack'[n + 1] = g /\ \A f \in 1..n : stack'[f] = stack[f]
  BY <1>2, <1>4, PutFacts DEF StackInv, Put
<1>7. StackTypes'
  <2>1. stack' # <<>> /\ Len(stack') <= MaxDepth
    BY <1>1, <1>2, <1>6
  <2> QED BY <1>6, <2>1 DEF StackTypes
<1>8. SendTypes'
  <2>1. depth' \in [Units -> 0..(MaxDepth - 1)]
    BY <1>2, <1>3 DEF StackInv, SendTypes, s
  <2>2. buffers' \in [Units -> [1..MaxDepth -> Seq(Auras)]]
    BY <1>2, <1>3 DEF StackInv, SendTypes
  <2> QED BY <2>1, <2>2 DEF SendTypes
<1>9. /\ \A v \in Units : depth'[v] = IF v = u THEN s ELSE depth[v]
      /\ \A v \in Units, d \in 1..MaxDepth :
            buffers'[v][d] = IF v = u /\ d = s THEN q ELSE buffers[v][d]
  BY <1>2, <1>3 DEF StackInv, SendTypes, s
<1>10. ShapeInv'
  <2>1. stack'[1].type = "loop"
    BY <1>1, <1>6 DEF StackInv, ShapeInv
  <2>2. ASSUME NEW f \in 1..Len(stack'), 1 < f, f < Len(stack') PROVE stack'[f].calling
    BY <1>1, <1>2, <1>6, <2>2 DEF StackInv, ShapeInv
  <2>3. ASSUME NEW f \in 1..Len(stack'), IsAdvance(f)'
        PROVE  f = 2 /\ (stack'[f].calling => stack'[f].next <= stack'[f].size /\ stack'[f].unit \in Units)
    <3>1. f # n + 1
      BY <1>5, <1>6, <2>3 DEF IsAdvance
    <3>2. f \in 1..n /\ stack'[f] = stack[f]
      BY <1>1, <1>6, <3>1
    <3> QED BY <2>3, <3>2 DEF StackInv, ShapeInv, IsAdvance
  <2> QED BY <2>1, <2>2, <2>3 DEF ShapeInv
<1>11. EventInv'
  <2>1. ASSUME NEW f \in 1..n, IsEvent(f)
        PROVE  /\ stack[f].unit \in Units /\ stack[f].slot \in 1..MaxDepth /\ stack[f].slot < f
               /\ stack[f].slot \in 1..depth[stack[f].unit]
               /\ buffers[stack[f].unit][stack[f].slot] = stack[f].heard
               /\ stack[f].unit = u => stack[f].slot < s
    BY <1>1, <1>3, <2>1, FrameFacts DEF StackInv, EventInv, IsEvent, s
  <2>2. ASSUME NEW f \in 1..Len(stack'), IsEvent(f)'
        PROVE  (/\ stack[f].slot \in 1..depth[stack[f].unit] /\ stack[f].slot < f
                /\ buffers[stack[f].unit][stack[f].slot] = stack[f].heard)'
    <3>1. CASE f = n + 1
      <4>1. s \in 1..s /\ s < n + 1 /\ depth'[u] = s /\ buffers'[u][s] = q
        BY <1>1, <1>3, <1>9
      <4> QED BY <1>5, <1>6, <3>1, <4>1
    <3>2. CASE f # n + 1
      <4>1. f \in 1..n /\ stack'[f] = stack[f] /\ IsEvent(f)
        BY <1>1, <1>6, <2>2, <3>2 DEF IsEvent
      <4>2. depth'[stack[f].unit] >= depth[stack[f].unit] /\ depth'[stack[f].unit] \in Nat
            /\ depth[stack[f].unit] \in Nat
        BY <1>3, <1>9, <2>1, <4>1, DepthFacts DEF s
      <4>3. stack[f].slot \in 1..depth'[stack[f].unit]
        BY <2>1, <4>1, <4>2
      <4>4. buffers'[stack[f].unit][stack[f].slot] = stack[f].heard
        BY <1>3, <1>9, <2>1, <4>1
      <4> QED BY <2>1, <4>1, <4>3, <4>4
    <3> QED BY <3>1, <3>2
  <2>3. ASSUME NEW v \in Units, NEW d \in 1..depth'[v]
        PROVE  \E f \in 1..Len(stack') : (IsEvent(f) /\ stack[f].unit = v /\ stack[f].slot = d)'
    <3>1. CASE v = u /\ d = s
      <4>1. n + 1 \in 1..Len(stack')
        BY <1>1, <1>6
      <4> QED BY <1>5, <1>6, <3>1, <4>1 DEF IsEvent
    <3>2. CASE ~(v = u /\ d = s)
      <4>1. d \in 1..depth[v]
        BY <1>3, <1>9, <3>2, DepthFacts DEF s
      <4>2. PICK f \in 1..n : IsEvent(f) /\ stack[f].unit = v /\ stack[f].slot = d
        BY <4>1 DEF StackInv, EventInv
      <4>3. f \in 1..Len(stack') /\ stack'[f] = stack[f]
        BY <1>1, <1>6
      <4> QED BY <4>2, <4>3 DEF IsEvent
    <3> QED BY <3>1, <3>2
  <2>4. ASSUME NEW f \in 1..Len(stack'), NEW k \in 1..Len(stack'), f < k, IsEvent(f)', IsEvent(k)',
               stack'[f].unit = stack'[k].unit
        PROVE  stack'[f].slot < stack'[k].slot
    <3>1. f \in 1..n /\ stack'[f] = stack[f] /\ IsEvent(f)
      BY <1>1, <1>6, <2>4 DEF IsEvent
    <3>2. CASE k = n + 1
      BY <1>5, <1>6, <2>1, <2>4, <3>1, <3>2
    <3>3. CASE k # n + 1
      <4>1. k \in 1..n /\ stack'[k] = stack[k] /\ IsEvent(k)
        BY <1>1, <1>6, <2>4, <3>3 DEF IsEvent
      <4> QED BY <2>4, <3>1, <4>1 DEF StackInv, EventInv
    <3> QED BY <3>2, <3>3
  <2> HIDE DEF n
  <2> QED BY <2>2, <2>3, <2>4 DEF EventInv
<1>12. AdvancesKept
  BY <1>1, <1>5, <1>6 DEF AdvancesKept, IsAdvance
<1> QED BY <1>7, <1>8, <1>10, <1>11, <1>12 DEF StackInv

\* A loop that is not an event's begins.
LEMMA PutKeeps ==
  ASSUME StackInv, NEW g \in FrameTypes, stack' = Put(g), UNCHANGED sendVars,
         Len(stack) < MaxDepth, Len(stack) = 1 \/ Frame.calling,
         g.type \in {"expireAll", "advance"},
         g.type = "advance" => Len(stack) = 1 /\ ~g.calling
  PROVE  StackInv' /\ (g.type # "advance" => AdvancesKept)
<1> DEFINE n == Len(stack)
<1>1. /\ n \in Nat /\ n >= 1 /\ n \in 1..n /\ Frame = stack[n] /\ MaxDepth \in Nat
      /\ \A f \in 1..n : stack[f] \in FrameTypes
  BY TopFacts, TrackerAssumption DEF StackInv
<1>2. /\ stack' \in Seq(FrameTypes) /\ Len(stack') = n + 1
      /\ stack'[n + 1] = g /\ \A f \in 1..n : stack'[f] = stack[f]
  BY PutFacts DEF StackInv
<1>3. StackTypes'
  <2>1. stack' # <<>> /\ Len(stack') <= MaxDepth
    BY <1>1, <1>2
  <2> QED BY <1>2, <2>1 DEF StackTypes
<1>4. ShapeInv'
  <2>1. stack'[1].type = "loop"
    BY <1>1, <1>2 DEF StackInv, ShapeInv
  <2>2. ASSUME NEW f \in 1..Len(stack'), 1 < f, f < Len(stack') PROVE stack'[f].calling
    BY <1>1, <1>2, <2>2 DEF StackInv, ShapeInv
  <2>3. ASSUME NEW f \in 1..Len(stack'), IsAdvance(f)'
        PROVE  f = 2 /\ (stack'[f].calling => stack'[f].next <= stack'[f].size /\ stack'[f].unit \in Units)
    <3>1. CASE f = n + 1
      BY <1>2, <2>3, <3>1 DEF IsAdvance
    <3>2. CASE f # n + 1
      <4>1. f \in 1..n /\ stack'[f] = stack[f]
        BY <1>1, <1>2, <3>2
      <4> QED BY <2>3, <4>1 DEF StackInv, ShapeInv, IsAdvance
    <3> QED BY <3>1, <3>2
  <2> QED BY <2>1, <2>2, <2>3 DEF ShapeInv
<1>5. ASSUME NEW f \in 1..Len(stack'), IsEvent(f)'
      PROVE  f \in 1..n /\ stack'[f] = stack[f] /\ IsEvent(f)
  <2>1. f # n + 1
    BY <1>2, <1>5 DEF IsEvent
  <2> QED BY <1>1, <1>2, <1>5, <2>1 DEF IsEvent
<1>6. depth' = depth /\ buffers' = buffers
  BY DEF sendVars
<1>7. EventInv'
  <2>1. ASSUME NEW f \in 1..Len(stack'), IsEvent(f)'
        PROVE  (/\ stack[f].slot \in 1..depth[stack[f].unit] /\ stack[f].slot < f
                /\ buffers[stack[f].unit][stack[f].slot] = stack[f].heard)'
    BY <1>5, <1>6, <2>1 DEF StackInv, EventInv
  <2>2. ASSUME NEW v \in Units, NEW d \in 1..depth'[v]
        PROVE  \E f \in 1..Len(stack') : (IsEvent(f) /\ stack[f].unit = v /\ stack[f].slot = d)'
    <3>1. PICK f \in 1..n : IsEvent(f) /\ stack[f].unit = v /\ stack[f].slot = d
      BY <1>6 DEF StackInv, EventInv
    <3>2. f \in 1..Len(stack') /\ stack'[f] = stack[f]
      BY <1>1, <1>2
    <3> QED BY <3>1, <3>2 DEF IsEvent
  <2>3. ASSUME NEW f \in 1..Len(stack'), NEW k \in 1..Len(stack'), f < k, IsEvent(f)', IsEvent(k)',
               stack'[f].unit = stack'[k].unit
        PROVE  stack'[f].slot < stack'[k].slot
    BY <1>5, <2>3 DEF StackInv, EventInv
  <2> HIDE DEF n
  <2> QED BY <2>1, <2>2, <2>3 DEF EventInv
<1>8. SendTypes'
  BY <1>6 DEF StackInv, SendTypes
<1>9. g.type # "advance" => AdvancesKept
  BY <1>1, <1>2 DEF AdvancesKept, IsAdvance
<1> QED BY <1>3, <1>4, <1>7, <1>8, <1>9 DEF StackInv

\* A loop ends; if it is an event's, endDispatch gives its buffer back.
LEMMA PopKeeps ==
  ASSUME StackInv, stack' = Pop, Frame.type # "loop", buffers' = buffers,
         IF Frame.type = "event" THEN depth' = [depth EXCEPT ![Frame.unit] = @ - 1] ELSE depth' = depth
  PROVE  /\ StackInv'
         /\ IF Frame.type = "advance" THEN ~\E f \in 1..Len(stack') : IsAdvance(f)' ELSE AdvancesKept
<1> DEFINE n == Len(stack)
<1>1. /\ n \in Nat /\ n >= 1 /\ n \in 1..n /\ Frame = stack[n] /\ MaxDepth \in Nat /\ n <= MaxDepth
      /\ \A f \in 1..n : stack[f] \in FrameTypes
  BY TopFacts, TrackerAssumption DEF StackInv, StackTypes
<1>2. n # 1
  BY <1>1 DEF StackInv, ShapeInv
<1>3. /\ stack' \in Seq(FrameTypes) /\ Len(stack') = n - 1
      /\ \A f \in 1..(n - 1) : stack'[f] = stack[f]
  BY PopFacts DEF StackInv
<1>4. StackTypes'
  <2>1. stack' # <<>> /\ Len(stack') <= MaxDepth
    BY <1>1, <1>2, <1>3
  <2> QED BY <1>3, <2>1 DEF StackTypes
<1>5. ASSUME NEW f \in 1..Len(stack') PROVE f \in 1..n /\ f < n /\ stack'[f] = stack[f]
  BY <1>1, <1>3
<1>6. ShapeInv'
  <2>1. stack'[1].type = "loop"
    BY <1>1, <1>2, <1>3 DEF StackInv, ShapeInv
  <2>2. ASSUME NEW f \in 1..Len(stack'), 1 < f, f < Len(stack') PROVE stack'[f].calling
    BY <1>5, <2>2 DEF StackInv, ShapeInv
  <2>3. ASSUME NEW f \in 1..Len(stack'), IsAdvance(f)'
        PROVE  f = 2 /\ (stack'[f].calling => stack'[f].next <= stack'[f].size /\ stack'[f].unit \in Units)
    BY <1>5, <2>3 DEF StackInv, ShapeInv, IsAdvance
  <2> QED BY <2>1, <2>2, <2>3 DEF ShapeInv
<1>7. CASE Frame.type = "event"
  <2> DEFINE u == Frame.unit
             s == Frame.slot
  <2>1. /\ u \in Units /\ s \in 1..depth[u] /\ depth[u] \in 0..(MaxDepth - 1) /\ IsEvent(n)
        /\ stack[n].unit = u /\ stack[n].slot = s /\ s \in Nat
    BY <1>1, <1>7, FrameFacts DEF StackInv, EventInv, SendTypes, IsEvent
  <2>2. \A v \in Units : depth'[v] = IF v = u THEN depth[u] - 1 ELSE depth[v]
    BY <1>7, <2>1 DEF StackInv, SendTypes
  <2>3. s = depth[u]
    <3>1. depth[u] \in 1..depth[u]
      BY <2>1
    <3>2. PICK f \in 1..n : IsEvent(f) /\ stack[f].unit = u /\ stack[f].slot = depth[u]
      BY <2>1, <3>1 DEF StackInv, EventInv
    <3>3. CASE f = n
      BY <2>1, <3>2, <3>3
    <3>4. CASE f # n
      <4>1. f < n
        BY <1>1, <3>4
      <4>2. stack[f].slot < stack[n].slot
        BY <1>1, <2>1, <3>2, <4>1 DEF StackInv, EventInv
      <4> QED BY <2>1, <3>2, <4>2
    <3> QED BY <3>3, <3>4
  <2>4. SendTypes'
    <3>1. depth[u] - 1 \in 0..(MaxDepth - 1) /\ depth' = [depth EXCEPT ![u] = depth[u] - 1]
      BY <1>1, <1>7, <2>1 DEF StackInv, SendTypes
    <3> HIDE DEF u
    <3>2. depth' \in [Units -> 0..(MaxDepth - 1)]
      BY <3>1 DEF StackInv, SendTypes
    <3> QED BY <3>2 DEF StackInv, SendTypes
  <2> HIDE DEF u, s
  <2>5. EventInv'
    <3>1. ASSUME NEW f \in 1..Len(stack'), IsEvent(f)'
          PROVE  (/\ stack[f].slot \in 1..depth[stack[f].unit] /\ stack[f].slot < f
                  /\ buffers[stack[f].unit][stack[f].slot] = stack[f].heard)'
      <4>1. f \in 1..n /\ f < n /\ stack'[f] = stack[f] /\ IsEvent(f) /\ stack[f].unit \in Units
        BY <1>1, <1>5, <3>1, FrameFacts DEF IsEvent
      <4>2. /\ stack[f].slot \in 1..depth[stack[f].unit] /\ stack[f].slot < f
            /\ buffers[stack[f].unit][stack[f].slot] = stack[f].heard
        BY <4>1 DEF StackInv, EventInv
      <4>3. stack[f].unit = u => stack[f].slot < s
        BY <1>1, <2>1, <4>1 DEF StackInv, EventInv
      <4>4. stack[f].slot \in 1..depth'[stack[f].unit]
        BY <2>1, <2>2, <2>3, <4>1, <4>2, <4>3
      <4> QED BY <4>1, <4>2, <4>4
    <3>2. ASSUME NEW v \in Units, NEW d \in 1..depth'[v]
          PROVE  \E f \in 1..Len(stack') : (IsEvent(f) /\ stack[f].unit = v /\ stack[f].slot = d)'
      <4>1. d \in 1..depth[v] /\ (v = u => d # s)
        BY <2>1, <2>2, <2>3, DepthFacts
      <4>2. PICK f \in 1..n : IsEvent(f) /\ stack[f].unit = v /\ stack[f].slot = d
        BY <4>1 DEF StackInv, EventInv
      <4>3. f # n
        BY <2>1, <4>1, <4>2
      <4>4. f \in 1..Len(stack') /\ stack'[f] = stack[f]
        BY <1>1, <1>3, <4>3
      <4> QED BY <4>2, <4>4 DEF IsEvent
    <3>3. ASSUME NEW f \in 1..Len(stack'), NEW k \in 1..Len(stack'), f < k, IsEvent(f)', IsEvent(k)',
                 stack'[f].unit = stack'[k].unit
          PROVE  stack'[f].slot < stack'[k].slot
      BY <1>5, <3>3 DEF StackInv, EventInv, IsEvent
    <3> HIDE DEF n
    <3> QED BY <3>1, <3>2, <3>3 DEF EventInv
  <2>6. AdvancesKept
    BY <1>1, <1>3, <1>7 DEF AdvancesKept, IsAdvance
  <2> QED BY <1>4, <1>6, <1>7, <2>4, <2>5, <2>6 DEF StackInv
<1>8. CASE Frame.type # "event"
  <2>1. depth' = depth
    BY <1>8
  <2>2. EventInv'
    <3>1. ASSUME NEW f \in 1..Len(stack'), IsEvent(f)'
          PROVE  (/\ stack[f].slot \in 1..depth[stack[f].unit] /\ stack[f].slot < f
                  /\ buffers[stack[f].unit][stack[f].slot] = stack[f].heard)'
      BY <1>5, <2>1, <3>1 DEF StackInv, EventInv, IsEvent
    <3>2. ASSUME NEW v \in Units, NEW d \in 1..depth'[v]
          PROVE  \E f \in 1..Len(stack') : (IsEvent(f) /\ stack[f].unit = v /\ stack[f].slot = d)'
      <4>1. PICK f \in 1..n : IsEvent(f) /\ stack[f].unit = v /\ stack[f].slot = d
        BY <2>1 DEF StackInv, EventInv
      <4>2. f # n
        BY <1>1, <1>8, <4>1 DEF IsEvent
      <4>3. f \in 1..Len(stack') /\ stack'[f] = stack[f]
        BY <1>1, <1>3, <4>2
      <4> QED BY <4>1, <4>3 DEF IsEvent
    <3>3. ASSUME NEW f \in 1..Len(stack'), NEW k \in 1..Len(stack'), f < k, IsEvent(f)', IsEvent(k)',
                 stack'[f].unit = stack'[k].unit
          PROVE  stack'[f].slot < stack'[k].slot
      BY <1>5, <3>3 DEF StackInv, EventInv, IsEvent
    <3> HIDE DEF n
    <3> QED BY <3>1, <3>2, <3>3 DEF EventInv
  <2>3. SendTypes'
    BY <2>1 DEF StackInv, SendTypes
  <2>4. CASE Frame.type = "advance"
    <3>1. n = 2
      BY <1>1, <2>4 DEF StackInv, ShapeInv, IsAdvance
    <3>2. ~\E f \in 1..Len(stack') : IsAdvance(f)'
      BY <1>3, <1>5, <3>1 DEF StackInv, ShapeInv, IsAdvance
    <3> QED BY <1>4, <1>6, <2>2, <2>3, <2>4, <3>2 DEF StackInv
  <2>5. CASE Frame.type # "advance"
    <3>1. AdvancesKept
      BY <1>1, <1>3, <2>5 DEF AdvancesKept, IsAdvance
    <3> QED BY <1>4, <1>6, <2>2, <2>3, <2>5, <3>1 DEF StackInv
  <2> QED BY <2>4, <2>5
<1> QED BY <1>7, <1>8

-----------------------------------------------------------------------------
(* Every step keeps TrackerInv *)

\* The list of those that may expire holds the active auras that may.
LEMMA ExpiringFacts ==
  ASSUME AuraTypes, PlaceInv, NEW u \in Units
  PROVE  /\ Expiring(u) \in Seq(Auras) /\ Len(Expiring(u)) \in Nat
         /\ \A i \in 1..Len(Expiring(u)) :
               /\ Expiring(u)[i] \in Auras /\ HomeOf(Expiring(u)[i]) = u
               /\ active[Expiring(u)[i]] /\ Expiring(u)[i] \notin Permanent
         /\ \A a \in Auras \ Permanent : active[a] /\ HomeOf(a) = u =>
               \E i \in 1..Len(Expiring(u)) : Expiring(u)[i] = a
<1>1. "expiring" \in Lists /\ \A a \in Auras : Joins(a, "expiring") <=> a \notin Permanent
  BY DEF Lists, Joins
<1>2. list[u]["expiring"] \in Seq(Auras)
  BY <1>1 DEF AuraTypes
<1>3. ASSUME NEW i \in 1..Len(list[u]["expiring"])
      PROVE  LET a == list[u]["expiring"][i]
             IN  a \in Auras /\ HomeOf(a) = u /\ active[a] /\ a \notin Permanent
  <2> DEFINE a == list[u]["expiring"][i]
  <2>1. a \in Auras /\ HomeOf(a) = u /\ index[a]["expiring"] = i /\ i # 0
    BY <1>1, <1>2 DEF PlaceInv
  <2> HIDE DEF a
  <2>2. active[a] /\ a \notin Permanent
    BY <1>1, <2>1 DEF PlaceInv
  <2> QED BY <2>1, <2>2 DEF a
<1>4. ASSUME NEW a \in Auras \ Permanent, active[a], HomeOf(a) = u
      PROVE  \E i \in 1..Len(list[u]["expiring"]) : list[u]["expiring"][i] = a
  <2>1. index[a]["expiring"] # 0
    BY <1>1, <1>4 DEF PlaceInv
  <2> QED BY <1>1, <1>4, <2>1 DEF PlaceInv
<1>5. Len(list[u]["expiring"]) \in Nat
  BY <1>2
<1> QED BY <1>2, <1>3, <1>4, <1>5 DEF Expiring

\* The tracker an advance is at.
LEMMA WalkedFacts ==
  ASSUME TrackerInv, Frame.type = "advance", Frame.next <= Frame.size
  PROVE  /\ Walked \in Units /\ Len(stack) = 2 /\ Frame = stack[2] /\ Frame \in FrameTypes
         /\ Frame.next \in Nat /\ Frame.size \in Nat /\ Frame.next >= 1
<1>1. /\ Frame = stack[Len(stack)] /\ Frame \in FrameTypes /\ Len(stack) \in 1..Len(stack)
  BY TopFacts DEF TrackerInv, StackInv
<1>2. IsAdvance(Len(stack))
  BY <1>1 DEF IsAdvance
<1>3. Len(stack) = 2 /\ (Frame.calling => Frame.unit \in Units)
  BY <1>1, <1>2 DEF TrackerInv, StackInv, ShapeInv
<1>4. Frame.next \in Nat \ {0} /\ Frame.size \in 0..Capacity /\ Capacity \in Nat
  BY <1>1, FrameFacts, TrackerAssumption
<1>5. Frame.next \in 1..Frame.size
  BY <1>4
<1>6. trackers[Frame.next] \in Units
  BY <1>1, <1>2, <1>5 DEF TrackerInv, WalkInv
<1> QED BY <1>1, <1>3, <1>4, <1>6 DEF Walked

\* Nothing of the stack changes.
LEMMA StackSame ==
  ASSUME StackInv, UNCHANGED <<stack, sendVars>> PROVE StackInv' /\ AdvancesKept
<1>1. stack' = stack /\ buffers' = buffers /\ depth' = depth
  BY DEF sendVars
<1> QED BY <1>1 DEF StackInv, StackTypes, SendTypes, ShapeInv, EventInv, AdvancesKept, IsEvent, IsAdvance

\* The places of the trackers, while the walk and they stay as they are.
LEMMA WalkSame ==
  ASSUME StackInv, WalkInv, AdvancesKept, UNCHANGED <<trackers, listed, removed>> PROVE WalkInv'
<1>1. ASSUME NEW f \in 1..Len(stack'), IsAdvance(f)'
      PROVE  f \in 1..Len(stack) /\ IsAdvance(f) /\ stack'[f] = stack[f]
  <2>1. f \in Nat
    OBVIOUS
  <2> QED BY <1>1, <2>1 DEF AdvancesKept
<1> QED BY <1>1 DEF WalkInv

\* Auras end, and those in reach of class code are gained.
LEMMA QuietKeeps ==
  ASSUME QuietInv, UNCHANGED <<pc, turn>>,
         \A b \in Auras : active'[b] => active[b] \/ WithinReach(HomeOf(b))
  PROVE  QuietInv'
BY DEF QuietInv, WithinReach

\* An aura's time is a natural number, as are the caches lowered to it.
LEMMA RefreshTypes ==
  ASSUME RestTypes, AuraTypes, NEW a \in Auras, NEW t \in Nat, Refresh(a, t)
  PROVE  /\ expires' \in [Auras -> Nat] /\ minExpires' \in [Units -> Nat] /\ minTracker' \in Nat
         /\ minTracker' <= minTracker
         /\ \A u \in Units : minExpires'[u] <= minExpires[u]
         /\ minExpires'[HomeOf(a)] <= t
         /\ \A b \in Auras : expires'[b] = IF b = a THEN t ELSE expires[b]
         /\ \A u \in Units : minTracker <= minExpires[u] => minTracker' <= minExpires'[u]
<1>1. HomeOf(a) \in Units
  BY TrackerAssumption
<1>2. minExpires[HomeOf(a)] \in Nat /\ minTracker \in Nat /\ minExpires \in [Units -> Nat]
  BY <1>1 DEF RestTypes
<1> QED BY <1>1, <1>2 DEF Refresh, Earlier, AuraTypes

\* Class code: what it calls leaves an advance under way alone.
LEMMA ActivateKeeps ==
  ASSUME TrackerInv, NEW a \in Auras, NEW d \in Durations, Activate(a, d)
  PROVE  TrackerInv' /\ AdvancesKept
<1>1. /\ UNCHANGED <<runVars, enabled, trackers, listed, removed, sendVars, stack>>
      /\ ops' \in 0..MaxOps /\ WithinReach(HomeOf(a)) /\ Refresh(a, End(a, d))
  BY TrackerAssumption DEF Activate, Call, TrackerInv, RestTypes
<1>2. End(a, d) \in Nat
  BY TrackerAssumption DEF End, TrackerInv, RestTypes
<1>3. /\ expires' \in [Auras -> Nat] /\ minExpires' \in [Units -> Nat] /\ minTracker' \in Nat
  BY <1>1, <1>2, RefreshTypes DEF TrackerInv
<1>4. RestTypes'
  BY <1>1, <1>3 DEF TrackerInv, RestTypes, runVars
<1>5. StackInv' /\ AdvancesKept
  BY <1>1, StackSame DEF TrackerInv
<1>6. WalkInv'
  BY <1>1, <1>5, WalkSame DEF TrackerInv
<1>7. /\ AuraTypes' /\ PlaceInv'
      /\ \A b \in Auras : active'[b] => active[b] \/ b = a
  <2>1. CASE active[a]
    <3>1. UNCHANGED <<active, list, index>>
      BY <2>1 DEF Activate
    <3> QED BY <1>3, <3>1 DEF TrackerInv, AuraTypes, PlaceInv
  <2>2. CASE ~active[a]
    <3>1. /\ active' = [active EXCEPT ![a] = TRUE] /\ list' = Joined(a) /\ index' = IndexJoined(a)
          /\ expires' = [expires EXCEPT ![a] = End(a, d)]
      BY <1>1, <2>2 DEF Activate, Refresh
    <3> QED BY <1>2, <2>2, <3>1, GainKeeps DEF TrackerInv
  <2> QED BY <2>1, <2>2
<1>8. QuietInv'
  BY <1>1, <1>7, QuietKeeps DEF TrackerInv, runVars
<1> QED BY <1>4, <1>5, <1>6, <1>7, <1>8 DEF TrackerInv

\* An aura that fades leaves the rest as it is.
LEMMA FadeLeaves ==
  ASSUME TrackerInv, NEW a \in Auras, active[a], Fade(a), UNCHANGED <<pc, turn>>
  PROVE  AuraTypes' /\ PlaceInv' /\ QuietInv'
<1>1. AuraTypes' /\ PlaceInv' /\ \A b \in Auras : active'[b] => active[b]
  BY FadeKeeps DEF TrackerInv
<1> QED BY <1>1, QuietKeeps DEF TrackerInv

\* Deactivate, called by class code.
LEMMA DeactivateKeeps ==
  ASSUME TrackerInv, NEW a \in Auras, Deactivate(a)
  PROVE  TrackerInv' /\ AdvancesKept
<1>1. /\ UNCHANGED <<runVars, minExpires, simVars, sendVars, stack>>
      /\ ops' \in 0..MaxOps /\ active[a] /\ Fade(a)
  BY TrackerAssumption DEF Deactivate, Call, TrackerInv, RestTypes
<1>2. RestTypes'
  BY <1>1 DEF TrackerInv, RestTypes, runVars, simVars
<1>3. StackInv' /\ AdvancesKept
  BY <1>1, StackSame DEF TrackerInv
<1>4. WalkInv'
  BY <1>1, <1>3, WalkSame DEF TrackerInv, simVars
<1>5. AuraTypes' /\ PlaceInv' /\ QuietInv'
  BY <1>1, FadeLeaves DEF runVars
<1> QED BY <1>2, <1>3, <1>4, <1>5 DEF TrackerInv

\* An event fired by class code.
LEMMA FireStep ==
  ASSUME TrackerInv, NEW u \in Units, NEW e \in Events, Fire(u, e)
  PROVE  TrackerInv' /\ AdvancesKept
<1>1. UNCHANGED <<runVars, auraVars, minExpires, simVars>> /\ ops' \in 0..MaxOps
  <2>1. Call /\ UNCHANGED <<auraVars, minExpires, simVars>>
    BY DEF Fire
  <2>2. ops \in 0..MaxOps /\ MaxOps \in Nat
    BY TrackerAssumption DEF TrackerInv, RestTypes
  <2> QED BY <2>1, <2>2 DEF Call
<1>2. RestTypes' /\ AuraTypes' /\ PlaceInv' /\ QuietInv'
  BY <1>1 DEF TrackerInv, RestTypes, AuraTypes, PlaceInv, QuietInv, runVars, simVars, auraVars
<1>3. StackInv' /\ AdvancesKept
  BY FireKeeps DEF TrackerInv
<1>4. WalkInv'
  BY <1>1, <1>3, WalkSame DEF TrackerInv, simVars
<1> QED BY <1>2, <1>3, <1>4 DEF TrackerInv

\* A pet or a target is dismissed.
LEMMA DismissKeeps ==
  ASSUME TrackerInv, NEW u \in Pets \cup Targets, Dismiss(u)
  PROVE  TrackerInv' /\ AdvancesKept
<1> DEFINE g == [type |-> "expireAll", unit |-> u, calling |-> TRUE]
<1>1. /\ UNCHANGED <<runVars, auraVars, minExpires, trackers, listed, minTracker, removed, sendVars>>
      /\ ops' \in 0..MaxOps /\ enabled' = [enabled EXCEPT ![u] = FALSE]
      /\ Len(stack) < MaxDepth /\ Frame.calling /\ stack' = Put(g) /\ u \in Units
  BY TrackerAssumption DEF Dismiss, Call, TrackerInv, RestTypes, Push, Put
<1>2. RestTypes' /\ AuraTypes' /\ PlaceInv' /\ QuietInv'
  BY <1>1 DEF TrackerInv, RestTypes, AuraTypes, PlaceInv, QuietInv, runVars, auraVars
<1>3. g \in FrameTypes /\ g.type = "expireAll"
  BY <1>1 DEF FrameTypes
<1> HIDE DEF g
<1>4. StackInv' /\ AdvancesKept
  BY <1>1, <1>3, PutKeeps DEF TrackerInv
<1>5. WalkInv'
  BY <1>1, <1>4, WalkSame DEF TrackerInv
<1> QED BY <1>2, <1>4, <1>5 DEF TrackerInv

\* A pet is summoned, a target enabled.
LEMMA SummonKeeps ==
  ASSUME TrackerInv, NEW u \in Units, Summon(u)
  PROVE  TrackerInv' /\ AdvancesKept
<1>1. /\ UNCHANGED <<runVars, auraVars, minExpires, removed, sendVars, stack>>
      /\ ops' \in 0..MaxOps /\ enabled' = [enabled EXCEPT ![u] = TRUE]
  BY TrackerAssumption DEF Summon, Call, TrackerInv, RestTypes
<1>2. /\ trackers' \in [1..Capacity -> Units \cup {Nil}] /\ listed' \in 0..Capacity /\ minTracker' \in Nat
      /\ \/ UNCHANGED <<trackers, listed>>
         \/ /\ listed' = listed + 1
            /\ \A j \in 1..Capacity : trackers'[j] = IF j = listed + 1 THEN u ELSE trackers[j]
  <2>1. CASE u \in Pets
    <3>1. /\ listed < Capacity /\ listed' = listed + 1 /\ trackers' = [trackers EXCEPT ![listed + 1] = u]
          /\ minTracker' = Earlier(minTracker, minExpires[u])
      BY <2>1 DEF Summon
    <3>2. /\ listed \in 0..Capacity /\ Capacity \in Nat /\ trackers \in [1..Capacity -> Units \cup {Nil}]
          /\ minTracker \in Nat /\ minExpires[u] \in Nat
      BY TrackerAssumption DEF TrackerInv, RestTypes
    <3>3. listed' \in 0..Capacity /\ listed + 1 \in 1..Capacity
      BY <3>1, <3>2
    <3>4. minTracker' \in Nat
      BY <3>1, <3>2 DEF Earlier
    <3> QED BY <3>1, <3>2, <3>3, <3>4
  <2>2. CASE u \notin Pets
    BY <2>2 DEF Summon, TrackerInv, RestTypes
  <2> QED BY <2>1, <2>2
<1>3. RestTypes' /\ AuraTypes' /\ PlaceInv' /\ QuietInv'
  BY <1>1, <1>2 DEF TrackerInv, RestTypes, AuraTypes, PlaceInv, QuietInv, runVars, auraVars
<1>4. StackInv' /\ AdvancesKept /\ stack' = stack
  BY <1>1, StackSame DEF TrackerInv
<1>5. WalkInv'
  <2>1. listed \in 0..Capacity /\ Capacity \in Nat
    BY TrackerAssumption DEF TrackerInv, RestTypes
  <2>2. \A j \in 1..listed' : trackers'[j] \in Units
    BY <1>2, <2>1 DEF TrackerInv, WalkInv, RestTypes
  <2>3. ASSUME NEW f \in 1..Len(stack), IsAdvance(f)
        PROVE  /\ \A j \in 1..stack[f].size : trackers'[j] \in Units
               /\ ~removed => stack[f].size <= listed'
    <3>1. stack[f].size \in 0..Capacity
      BY <2>3, TopFacts, FrameFacts DEF TrackerInv, StackInv, IsAdvance
    <3> QED BY <1>2, <2>1, <2>3, <3>1 DEF TrackerInv, WalkInv
  <2> QED BY <1>1, <1>4, <2>2, <2>3 DEF WalkInv, IsAdvance
<1> QED BY <1>3, <1>4, <1>5 DEF TrackerInv

\* An event reaches its next aura.
LEMMA HearKeeps ==
  ASSUME TrackerInv, HearNext PROVE TrackerInv' /\ AdvancesKept
<1> DEFINE a == buffers[Frame.unit][Frame.slot][Frame.next]
           g == Onward(Frame, active[a])
<1>1. /\ UNCHANGED <<runVars, auraVars, minExpires, simVars, sendVars, ops>>
      /\ Frame.type = "event" /\ Frame.next <= Len(Frame.heard)
      /\ stack' = [stack EXCEPT ![Len(stack)].next = @ + 1, ![Len(stack)].calling = active[a]]
  BY DEF HearNext
<1>2. /\ Frame = stack[Len(stack)] /\ Frame \in FrameTypes /\ Len(stack) \in 1..Len(stack)
  BY TopFacts DEF TrackerInv, StackInv
<1>3. a \in Auras
  <2>1. buffers[Frame.unit][Frame.slot] = Frame.heard
    BY <1>1, <1>2 DEF TrackerInv, StackInv, EventInv, IsEvent
  <2> DEFINE q == Frame.heard
             k == Frame.next
  <2>2. q \in Seq(Auras) /\ k \in Nat \ {0} /\ k <= Len(q)
    BY <1>1, <1>2, FrameFacts
  <2> HIDE DEF q, k
  <2>3. q[k] \in Auras
    BY <2>2
  <2> QED BY <2>1, <2>3 DEF q, k
<1>4. active[a] \in BOOLEAN
  BY <1>3 DEF TrackerInv, AuraTypes
<1>5. stack' = Retop(g)
  BY <1>1, <1>2 DEF Retop, Onward
<1> HIDE DEF a
<1>6. g \in FrameTypes /\ g.type = "event" /\ g.unit = Frame.unit /\ g.slot = Frame.slot /\ g.heard = Frame.heard
  BY <1>1, <1>2, <1>4, HearFacts
<1> HIDE DEF g
<1>7. StackInv' /\ AdvancesKept
  BY <1>1, <1>5, <1>6, RetopKeeps DEF TrackerInv
<1>8. RestTypes' /\ AuraTypes' /\ PlaceInv' /\ QuietInv'
  BY <1>1 DEF TrackerInv, RestTypes, AuraTypes, PlaceInv, QuietInv, runVars, simVars, auraVars
<1>9. WalkInv'
  BY <1>1, <1>7, WalkSame DEF TrackerInv, simVars
<1> QED BY <1>7, <1>8, <1>9 DEF TrackerInv

\* endDispatch.
LEMMA EventEndsKeeps ==
  ASSUME TrackerInv, EventEnds PROVE TrackerInv' /\ AdvancesKept
<1>1. /\ UNCHANGED <<runVars, auraVars, minExpires, simVars, buffers, ops>>
      /\ Frame.type = "event" /\ stack' = Pop /\ depth' = [depth EXCEPT ![Frame.unit] = @ - 1]
  BY DEF EventEnds
<1>2. StackInv' /\ AdvancesKept
  BY <1>1, PopKeeps DEF TrackerInv
<1>3. RestTypes' /\ AuraTypes' /\ PlaceInv' /\ QuietInv'
  BY <1>1 DEF TrackerInv, RestTypes, AuraTypes, PlaceInv, QuietInv, runVars, simVars, auraVars
<1>4. WalkInv'
  BY <1>1, <1>2, WalkSame DEF TrackerInv, simVars
<1> QED BY <1>2, <1>3, <1>4 DEF TrackerInv

\* The frame on top calls, or no longer does.
LEMMA CallsKeeps ==
  ASSUME StackInv, NEW b \in BOOLEAN, Calls(b), UNCHANGED sendVars, Frame.type # "advance"
  PROVE  StackInv' /\ AdvancesKept
<1>1. Frame = stack[Len(stack)] /\ Frame \in FrameTypes /\ Len(stack) \in 1..Len(stack)
  BY TopFacts DEF StackInv
<1>2. stack' = Retop(Calling(Frame, b))
  BY <1>1 DEF Calls, Retop, Calling
<1> DEFINE g == Calling(Frame, b)
<1>3. /\ g \in FrameTypes /\ g.type = Frame.type
      /\ g.type = "event" => g.unit = Frame.unit /\ g.slot = Frame.slot /\ g.heard = Frame.heard
  BY <1>1, CallingFacts
<1> HIDE DEF g
<1> QED BY <1>2, <1>3, RetopKeeps DEF g

\* expireAll ends the first aura of the list.
LEMMA ExpireAllStepKeeps ==
  ASSUME TrackerInv, ExpireAllStep PROVE TrackerInv' /\ AdvancesKept
<1> DEFINE q == Expiring(Frame.unit)
<1>1. /\ UNCHANGED <<runVars, minExpires, simVars, sendVars, ops>>
      /\ Frame.type = "expireAll" /\ q # <<>> /\ Fade(q[1]) /\ Calls(TRUE)
  BY DEF ExpireAllStep
<1>2. Frame.unit \in Units
  BY <1>1, TopFacts, FrameFacts DEF TrackerInv, StackInv
<1>3. q[1] \in Auras /\ active[q[1]]
  <2>1. q \in Seq(Auras) /\ \A i \in 1..Len(q) : q[i] \in Auras /\ active[q[i]]
    BY <1>2, ExpiringFacts DEF TrackerInv
  <2> HIDE DEF q
  <2>2. 1 \in 1..Len(q)
    BY <1>1, <2>1
  <2> QED BY <2>1, <2>2
<1>4. AuraTypes' /\ PlaceInv' /\ QuietInv'
  BY <1>1, <1>3, FadeLeaves DEF runVars
<1>5. StackInv' /\ AdvancesKept
  BY <1>1, CallsKeeps DEF TrackerInv
<1>6. RestTypes'
  BY <1>1 DEF TrackerInv, RestTypes, runVars, simVars
<1>7. WalkInv'
  BY <1>1, <1>5, WalkSame DEF TrackerInv, simVars
<1> QED BY <1>4, <1>5, <1>6, <1>7 DEF TrackerInv

\* removeTracker: the other trackers stay listed and keep the places an advance finds
\* them at.
LEMMA DelistFacts ==
  ASSUME TrackerInv, NEW u \in Units, Delist(u)
  PROVE  /\ trackers' \in [1..Capacity -> Units \cup {Nil}] /\ listed' \in 0..Capacity
         /\ removed' \in BOOLEAN /\ listed' <= listed
         /\ (removed => removed') /\ (listed' # listed /\ InWalk => removed')
         /\ \A j \in 1..listed' : trackers'[j] \in Units
         /\ \A j \in 1..Capacity : trackers[j] \in Units => trackers'[j] \in Units
         /\ \A j \in 1..Capacity : trackers[j] # u => trackers'[j] = trackers[j]
         /\ \A v \in Units : Listed(v)' => Listed(v)
         /\ \A v \in Units : v # u \/ u \notin Pets => (Listed(v) => Listed(v)')
<1>1. /\ listed \in 0..Capacity /\ Capacity \in Nat /\ removed \in BOOLEAN
      /\ trackers \in [1..Capacity -> Units \cup {Nil}] /\ \A j \in 1..listed : trackers[j] \in Units
  BY TrackerAssumption DEF TrackerInv, RestTypes, WalkInv
<1>2. CASE u \in Pets /\ \E i \in 1..listed : trackers[i] = u
  <2>1. PICK i \in 1..listed : trackers[i] = u /\ trackers' = [trackers EXCEPT ![i] = trackers[listed]]
    BY <1>2 DEF Delist
  <2>2. listed' = listed - 1 /\ removed' = (removed \/ InWalk)
    BY <1>2 DEF Delist
  <2>3. listed \in 1..Capacity /\ i \in 1..Capacity /\ i <= listed
    BY <1>1
  <2>4. \A j \in 1..Capacity : trackers'[j] = IF j = i THEN trackers[listed] ELSE trackers[j]
    BY <1>1, <2>1
  <2>5. trackers' \in [1..Capacity -> Units \cup {Nil}]
    BY <1>1, <2>1, <2>3
  <2>6. ASSUME NEW v \in Units, Listed(v)' PROVE Listed(v)
    <3>1. PICK j \in 1..listed' : trackers'[j] = v
      BY <2>6 DEF Listed
    <3>2. j \in 1..listed /\ listed \in 1..listed /\ j \in 1..Capacity
      BY <1>1, <2>2, <2>3
    <3> QED BY <2>4, <3>1, <3>2 DEF Listed
  <2>7. ASSUME NEW v \in Units, v # u, Listed(v) PROVE Listed(v)'
    <3>1. PICK j \in 1..listed : trackers[j] = v
      BY <2>7 DEF Listed
    <3>2. j # i /\ j \in 1..Capacity
      BY <1>1, <2>1, <2>7, <3>1
    <3>3. CASE j = listed
      <4>1. i \in 1..listed' /\ trackers'[i] = v
        BY <2>2, <2>3, <2>4, <3>1, <3>2, <3>3
      <4> QED BY <4>1 DEF Listed
    <3>4. CASE j # listed
      <4>1. j \in 1..listed' /\ trackers'[j] = v
        BY <2>2, <2>3, <2>4, <3>1, <3>2, <3>4
      <4> QED BY <4>1 DEF Listed
    <3> QED BY <3>3, <3>4
  <2>8. listed' \in 0..Capacity /\ listed' <= listed
    BY <1>1, <2>2, <2>3
  <2>9. \A j \in 1..listed' : trackers'[j] \in Units
    BY <1>1, <2>2, <2>3, <2>4
  <2>10. /\ \A j \in 1..Capacity : trackers[j] \in Units => trackers'[j] \in Units
         /\ \A j \in 1..Capacity : trackers[j] # u => trackers'[j] = trackers[j]
    BY <1>1, <2>1, <2>3, <2>4
  <2>11. removed' \in BOOLEAN /\ (removed => removed') /\ (InWalk => removed')
    BY <2>2
  <2> QED BY <1>2, <2>5, <2>6, <2>7, <2>8, <2>9, <2>10, <2>11
<1>3. CASE ~(u \in Pets /\ \E i \in 1..listed : trackers[i] = u)
  <2>1. UNCHANGED <<trackers, listed, removed>>
    BY <1>3 DEF Delist
  <2> QED BY <1>1, <2>1 DEF Listed
<1> QED BY <1>2, <1>3

\* expireAll comes to its end, and the tracker is delisted.
LEMMA ExpireAllEndsKeeps ==
  ASSUME TrackerInv, ExpireAllEnds PROVE TrackerInv' /\ AdvancesKept
<1> DEFINE u == Frame.unit
<1>1. /\ UNCHANGED <<runVars, auraVars, enabled, minTracker, sendVars, ops>>
      /\ Frame.type = "expireAll" /\ minExpires' = [minExpires EXCEPT ![u] = Never] /\ Delist(u)
      /\ stack' = Pop
  BY DEF ExpireAllEnds
<1>2. u \in Units
  BY <1>1, TopFacts, FrameFacts DEF TrackerInv, StackInv
<1> HIDE DEF u
<1>3. StackInv' /\ AdvancesKept
  BY <1>1, PopKeeps DEF TrackerInv, sendVars
<1>4. /\ trackers' \in [1..Capacity -> Units \cup {Nil}] /\ listed' \in 0..Capacity
      /\ removed' \in BOOLEAN /\ listed' <= listed
      /\ (removed => removed') /\ (listed' # listed /\ InWalk => removed')
      /\ \A j \in 1..listed' : trackers'[j] \in Units
      /\ \A j \in 1..Capacity : trackers[j] \in Units => trackers'[j] \in Units
  BY <1>1, <1>2, DelistFacts
<1>5. RestTypes'
  <2>1. minExpires' \in [Units -> Nat]
    BY <1>1, TrackerAssumption DEF TrackerInv, RestTypes
  <2> QED BY <1>1, <1>4, <2>1 DEF TrackerInv, RestTypes, runVars
<1>6. AuraTypes' /\ PlaceInv' /\ QuietInv'
  BY <1>1 DEF TrackerInv, AuraTypes, PlaceInv, QuietInv, runVars, auraVars
<1>7. WalkInv'
  <2>1. ASSUME NEW f \in 1..Len(stack'), IsAdvance(f)'
        PROVE  /\ \A j \in 1..stack'[f].size : trackers'[j] \in Units
               /\ ~removed' => stack'[f].size <= listed'
    <3>1. f \in 1..Len(stack) /\ IsAdvance(f) /\ stack'[f] = stack[f]
      <4>1. f \in Nat
        OBVIOUS
      <4> QED BY <1>3, <2>1, <4>1 DEF AdvancesKept
    <3>2. stack[f].size \in 0..Capacity /\ Capacity \in Nat
      BY <3>1, TopFacts, FrameFacts, TrackerAssumption DEF TrackerInv, StackInv, IsAdvance
    <3>3. InWalk
      BY <3>1 DEF InWalk, IsAdvance
    <3> QED BY <1>4, <3>1, <3>2, <3>3 DEF TrackerInv, WalkInv
  <2> QED BY <1>4, <2>1 DEF WalkInv
<1> QED BY <1>3, <1>5, <1>6, <1>7 DEF TrackerInv

\* At the bottom no advance is under way.
LEMMA BottomFacts ==
  ASSUME StackInv, Len(stack) = 1
  PROVE  /\ Frame = stack[1] /\ Frame.type = "loop" /\ \A f \in 1..Len(stack) : ~IsAdvance(f)
         /\ \A u \in Units : depth[u] = 0
<1>1. Frame = stack[1] /\ stack[1].type = "loop"
  BY TopFacts DEF StackInv, ShapeInv
<1>2. ASSUME NEW u \in Units PROVE depth[u] = 0
  BY DepthFacts
<1> QED BY <1>1, <1>2 DEF IsAdvance

\* The clock moves, and the walk may begin.
LEMMA AdvanceKeeps ==
  ASSUME TrackerInv, NEW t \in 1..Horizon, Advance(t) PROVE TrackerInv'
<1>1. /\ Len(stack) = 1 /\ pc = "running" /\ now' = t /\ t \in Nat
      /\ UNCHANGED <<pc, turn, iter, auraVars, minExpires, enabled, trackers, listed, sendVars, ops>>
  BY TrackerAssumption DEF Advance
<1>2. AuraTypes' /\ PlaceInv' /\ QuietInv'
  BY <1>1 DEF TrackerInv, AuraTypes, PlaceInv, QuietInv, auraVars
<1>3. CASE t >= minTracker
  <2> DEFINE g == [type |-> "advance", unit |-> Nil, next |-> 1, size |-> listed, calling |-> FALSE]
  <2>1. minTracker' = Never /\ removed' = FALSE /\ stack' = Put(g)
    BY <1>3 DEF Advance, Push, Put
  <2>2. g \in FrameTypes /\ g.type = "advance" /\ ~g.calling /\ g.size = listed
    BY DEF FrameTypes, TrackerInv, RestTypes
  <2>3. MaxDepth > 1 /\ MaxDepth \in Nat
    BY TrackerAssumption
  <2> HIDE DEF g
  <2>4. StackInv'
    BY <1>1, <2>1, <2>2, <2>3, PutKeeps DEF TrackerInv
  <2>5. RestTypes'
    BY <1>1, <2>1, TrackerAssumption DEF TrackerInv, RestTypes
  <2>6. Len(stack') = 2 /\ stack'[2] = g /\ stack'[1] = stack[1]
    BY <1>1, <2>1, <2>2, PutFacts DEF TrackerInv, StackInv
  <2>7. WalkInv'
    <3>1. ASSUME NEW f \in 1..Len(stack'), IsAdvance(f)' PROVE stack'[f].size = listed
      <4>1. f # 1
        BY <1>1, <2>6, <3>1, BottomFacts DEF TrackerInv, IsAdvance
      <4>2. f = 2
        BY <2>6, <4>1
      <4> QED BY <2>2, <2>6, <4>2
    <3>2. listed \in Nat /\ listed' = listed /\ trackers' = trackers
      BY <1>1, TrackerAssumption DEF TrackerInv, RestTypes
    <3> QED BY <3>1, <3>2 DEF TrackerInv, WalkInv
  <2> QED BY <1>2, <2>4, <2>5, <2>7 DEF TrackerInv
<1>4. CASE ~(t >= minTracker)
  <2>1. UNCHANGED <<minTracker, removed, stack>>
    BY <1>4 DEF Advance
  <2>2. StackInv' /\ AdvancesKept
    BY <1>1, <2>1, StackSame DEF TrackerInv
  <2>3. RestTypes'
    BY <1>1, <2>1 DEF TrackerInv, RestTypes
  <2>4. WalkInv'
    BY <1>1, <2>1, <2>2, WalkSame DEF TrackerInv
  <2> QED BY <1>2, <2>2, <2>3, <2>4 DEF TrackerInv
<1> QED BY <1>3, <1>4

\* The walk goes on: over the same trackers.
LEMMA WalkGoesOn ==
  ASSUME TrackerInv, Frame.type = "advance", NEW g \in FrameTypes, stack' = Retop(g),
         g.type = "advance", g.size = Frame.size, g.calling => g.next <= g.size /\ g.unit \in Units,
         UNCHANGED <<trackers, listed, removed, sendVars>>
  PROVE  StackInv' /\ WalkInv'
<1>1. StackInv'
  BY RetopKeeps DEF TrackerInv
<1>2. /\ Len(stack') = Len(stack)
      /\ \A f \in 1..Len(stack) : stack'[f] = IF f = Len(stack) THEN g ELSE stack[f]
  BY RetopFacts DEF TrackerInv, StackInv
<1>3. Frame = stack[Len(stack)] /\ Len(stack) \in 1..Len(stack)
  BY TopFacts DEF TrackerInv, StackInv
<1>4. \A f \in 1..Len(stack') : IsAdvance(f)' => IsAdvance(f) /\ stack'[f].size = stack[f].size
  BY <1>2, <1>3 DEF IsAdvance
<1>5. WalkInv'
  BY <1>2, <1>4 DEF TrackerInv, WalkInv
<1> QED BY <1>1, <1>5

\* A tracker with nothing to expire.
LEMMA PassesKeeps ==
  ASSUME TrackerInv, TrackerPasses PROVE TrackerInv' /\ stack' = Retop(Onward(Frame, FALSE))
<1>1. /\ Frame.type = "advance" /\ Frame.next <= Frame.size /\ ~Frame.calling
      /\ minTracker' = Earlier(minTracker, minExpires[Walked])
      /\ stack' = [stack EXCEPT ![Len(stack)].next = @ + 1]
      /\ UNCHANGED <<runVars, auraVars, minExpires, enabled, trackers, listed, removed, sendVars, ops>>
  BY DEF TrackerPasses
<1>2. Walked \in Units /\ Frame = stack[2] /\ Len(stack) = 2 /\ Frame \in FrameTypes
  BY <1>1, WalkedFacts
<1>3. stack' = Retop(Onward(Frame, FALSE))
  <2>1. Frame.calling = FALSE
    BY <1>1, <1>2, FrameFacts
  <2> DEFINE g == [Frame EXCEPT !.next = @ + 1]
  <2>2. g = Onward(Frame, FALSE)
    <3>1. Frame \in [type : {"advance"}, unit : Units \cup {Nil}, next : Nat \ {0}, size : 0..Capacity,
                     calling : BOOLEAN]
      BY <1>1, <1>2 DEF FrameTypes
    <3> QED BY <2>1, <3>1 DEF Onward
  <2>3. stack' = [stack EXCEPT ![Len(stack)] = g]
    BY <1>1, <1>2
  <2> QED BY <2>2, <2>3 DEF Retop
<1> DEFINE g == Onward(Frame, FALSE)
<1>4. /\ g \in FrameTypes /\ g.type = "advance" /\ ~g.calling /\ g.size = Frame.size
  BY <1>1, <1>2, WalkFacts
<1> HIDE DEF g
<1>5. StackInv' /\ WalkInv'
  BY <1>1, <1>3, <1>4, WalkGoesOn DEF g
<1>6. AuraTypes' /\ PlaceInv' /\ QuietInv'
  BY <1>1 DEF TrackerInv, AuraTypes, PlaceInv, QuietInv, runVars, auraVars
<1>7. RestTypes'
  BY <1>1, <1>2 DEF TrackerInv, RestTypes, runVars, Earlier
<1> QED BY <1>3, <1>5, <1>6, <1>7 DEF TrackerInv

\* The earliest of some times is one of them, or Never.
LEMMA EarliestFacts ==
  ASSUME TrackerInv, NEW u \in Units, NEW n \in 0..Len(Expiring(u)), NEW m,
         IsEarliest(m, ExpiresOf(u, n))
  PROVE  /\ m \in Nat /\ m <= Never
         /\ \A i \in 1..n : m <= expires[Expiring(u)[i]]
<1>1. Len(Expiring(u)) \in Nat /\ \A i \in 1..n : Expiring(u)[i] \in Auras
  BY ExpiringFacts DEF TrackerInv
<1>2. \A i \in 1..n : expires[Expiring(u)[i]] \in Nat
  BY <1>1 DEF TrackerInv, AuraTypes
<1> DEFINE T == ExpiresOf(u, n)
<1>3. T \subseteq Nat /\ \A i \in 1..n : expires[Expiring(u)[i]] \in T
  BY <1>2 DEF ExpiresOf
<1>4. Never \in Nat
  BY TrackerAssumption
<1> HIDE DEF T
<1>5. m \in T \cup {Never} /\ \A t \in T \cup {Never} : m <= t
  BY DEF IsEarliest, T
<1> QED BY <1>3, <1>4, <1>5

\* The first aura that is due ends.
LEMMA AuraExpiresKeeps ==
  ASSUME TrackerInv, AuraExpires
  PROVE  /\ TrackerInv' /\ stack' = Retop(Scanning(Frame, Walked))
         /\ \E a \in Auras : active[a] /\ Fade(a)
<1>1. /\ Scans /\ UNCHANGED <<runVars, simVars, sendVars, ops>>
      /\ stack' = [stack EXCEPT ![Len(stack)].unit = Walked, ![Len(stack)].calling = TRUE]
  BY DEF AuraExpires
<1>2. Frame.type = "advance" /\ Frame.next <= Frame.size
  BY <1>1 DEF Scans
<1>3. Walked \in Units /\ Frame = stack[2] /\ Len(stack) = 2 /\ Frame \in FrameTypes
      /\ Frame.next \in Nat /\ Frame.size \in Nat
  BY <1>2, WalkedFacts
<1> DEFINE w == Walked
           q == Expiring(w)
<1>4. PICK i \in 1..Len(q) :
         /\ \E m \in ExpiresOf(w, i - 1) \cup {Never} :
               /\ IsEarliest(m, ExpiresOf(w, i - 1))
               /\ minExpires' = [minExpires EXCEPT ![w] = m]
         /\ Fade(q[i])
  BY DEF AuraExpires
<1>5. q[i] \in Auras /\ active[q[i]] /\ Len(q) \in Nat
  BY <1>3, ExpiringFacts DEF TrackerInv
<1>6. stack' = Retop(Scanning(Frame, w))
  BY <1>1, <1>3 DEF Retop, Scanning
<1>7. PICK m : IsEarliest(m, ExpiresOf(w, i - 1)) /\ minExpires' = [minExpires EXCEPT ![w] = m]
  BY <1>4
<1>8. i - 1 \in 0..Len(q)
  BY <1>5
<1> HIDE DEF w
<1>9. m \in Nat
  BY <1>3, <1>7, <1>8, EarliestFacts DEF w
<1>10. RestTypes'
  <2>1. minExpires' \in [Units -> Nat]
    BY <1>7, <1>9 DEF TrackerInv, RestTypes
  <2> QED BY <1>1, <2>1 DEF TrackerInv, RestTypes, runVars, simVars
<1>11. AuraTypes' /\ PlaceInv' /\ QuietInv'
  BY <1>1, <1>4, <1>5, FadeLeaves DEF runVars
<1> DEFINE g == Scanning(Frame, w)
<1>12. /\ g \in FrameTypes /\ g.type = "advance" /\ g.unit \in Units /\ g.size = Frame.size
       /\ g.next = Frame.next
  BY <1>2, <1>3, WalkFacts DEF w
<1> HIDE DEF g
<1>13. StackInv' /\ WalkInv'
  <2>1. UNCHANGED <<trackers, listed, removed, sendVars>>
    BY <1>1 DEF simVars
  <2>2. g.next <= g.size
    BY <1>2, <1>12
  <2> QED BY <1>2, <1>6, <1>12, <2>1, <2>2, WalkGoesOn DEF g
<1> QED BY <1>4, <1>5, <1>6, <1>10, <1>11, <1>13 DEF TrackerInv, w

\* The scan ends: nothing of the tracker is due.
LEMMA ScanEndsKeeps ==
  ASSUME TrackerInv, ScanEnds
  PROVE  TrackerInv' /\ stack' = Retop(Onward(Frame, FALSE))
<1>1. /\ Scans /\ UNCHANGED <<runVars, auraVars, enabled, trackers, listed, removed, sendVars, ops>>
      /\ stack' = [stack EXCEPT ![Len(stack)].next = @ + 1, ![Len(stack)].calling = FALSE]
  BY DEF ScanEnds
<1>2. Frame.type = "advance" /\ Frame.next <= Frame.size
  BY <1>1 DEF Scans
<1>3. Walked \in Units /\ Frame = stack[2] /\ Len(stack) = 2 /\ Frame \in FrameTypes
  BY <1>2, WalkedFacts
<1> DEFINE w == Walked
           n == Len(Expiring(w))
<1>4. PICK m : /\ IsEarliest(m, ExpiresOf(w, n))
               /\ minExpires' = [minExpires EXCEPT ![w] = m]
               /\ minTracker' = Earlier(minTracker, m)
  BY DEF ScanEnds
<1>5. n \in 0..n
  BY <1>3, ExpiringFacts DEF TrackerInv
<1> HIDE DEF w
<1>6. m \in Nat
  BY <1>3, <1>4, <1>5, EarliestFacts DEF w
<1>7. RestTypes'
  <2>1. minExpires' \in [Units -> Nat]
    BY <1>4, <1>6 DEF TrackerInv, RestTypes
  <2>2. minTracker' \in Nat
    BY <1>4, <1>6 DEF TrackerInv, RestTypes, Earlier
  <2> QED BY <1>1, <2>1, <2>2 DEF TrackerInv, RestTypes, runVars
<1>8. AuraTypes' /\ PlaceInv' /\ QuietInv'
  BY <1>1 DEF TrackerInv, AuraTypes, PlaceInv, QuietInv, runVars, auraVars
<1> DEFINE g == Onward(Frame, FALSE)
<1>9. stack' = Retop(g)
  BY <1>1, <1>3 DEF Retop, Onward
<1>10. /\ g \in FrameTypes /\ g.type = "advance" /\ ~g.calling /\ g.size = Frame.size
  BY <1>2, <1>3, WalkFacts
<1> HIDE DEF g
<1>11. StackInv' /\ WalkInv'
  BY <1>1, <1>2, <1>9, <1>10, WalkGoesOn
<1> QED BY <1>7, <1>8, <1>9, <1>11 DEF TrackerInv, g

\* The walk ends.
LEMMA AdvanceEndsKeeps ==
  ASSUME TrackerInv, AdvanceEnds
  PROVE  TrackerInv' /\ ~\E f \in 1..Len(stack') : IsAdvance(f)'
<1>1. /\ Frame.type = "advance" /\ stack' = Pop /\ removed' = FALSE
      /\ UNCHANGED <<runVars, auraVars, minExpires, enabled, trackers, listed, minTracker, sendVars, ops>>
  BY DEF AdvanceEnds
<1>2. StackInv' /\ ~\E f \in 1..Len(stack') : IsAdvance(f)'
  BY <1>1, PopKeeps DEF TrackerInv, sendVars
<1>3. RestTypes'
  BY <1>1 DEF TrackerInv, RestTypes, runVars
<1>4. AuraTypes' /\ PlaceInv' /\ QuietInv'
  BY <1>1 DEF TrackerInv, AuraTypes, PlaceInv, QuietInv, runVars, auraVars
<1>5. WalkInv'
  BY <1>1, <1>2 DEF TrackerInv, WalkInv
<1> QED BY <1>2, <1>3, <1>4, <1>5 DEF TrackerInv

\* Where no advance is under way, and none begins, it does not matter which
\* trackers the places behind the list hold.
LEMMA WalkIdle ==
  ASSUME TrackerInv, Len(stack) = 1, AdvancesKept, \A j \in 1..listed' : trackers'[j] \in Units
  PROVE  WalkInv' /\ \A f \in 1..Len(stack') : ~IsAdvance(f)'
<1>1. ASSUME NEW f \in 1..Len(stack') PROVE ~IsAdvance(f)'
  <2>1. f \in Nat
    OBVIOUS
  <2>2. ~(f \in 1..Len(stack) /\ IsAdvance(f))
    BY BottomFacts DEF TrackerInv
  <2> QED BY <2>1, <2>2 DEF AdvancesKept
<1> QED BY <1>1 DEF WalkInv

\* The tracker of a unit that has been reset is listed.
LEMMA SettledFacts ==
  ASSUME TrackerInv, listed < Capacity, turn <= Len(ResetOrder), Settled
  PROVE  /\ trackers' \in [1..Capacity -> Units \cup {Nil}] /\ listed' \in 0..Capacity /\ minTracker' \in Nat
         /\ minTracker' <= minTracker
         /\ \A j \in 1..listed' : trackers'[j] \in Units
         /\ \A v \in Units : Listed(v) => Listed(v)'
         /\ \A v \in Units \ Pets : turn # 0 /\ ResetOrder[turn] = v => Listed(v)'
         /\ \A v \in Units : Listed(v)' => Listed(v) \/ minTracker' <= minExpires[v]
<1>1. /\ listed \in 0..Capacity /\ Capacity \in Nat /\ trackers \in [1..Capacity -> Units \cup {Nil}]
      /\ minTracker \in Nat /\ minExpires \in [Units -> Nat] /\ turn \in Nat
      /\ \A j \in 1..listed : trackers[j] \in Units
  BY TrackerAssumption DEF TrackerInv, RestTypes, WalkInv
<1>2. CASE turn = 0 \/ ResetOrder[turn] \in Pets
  <2>1. UNCHANGED <<trackers, listed, minTracker>>
    BY <1>2 DEF Settled
  <2> QED BY <1>1, <1>2, <2>1 DEF Listed
<1>3. CASE ~(turn = 0 \/ ResetOrder[turn] \in Pets)
  <2> DEFINE q == ResetOrder
  <2>1. q \in Seq(Units)
    BY TrackerAssumption
  <2>2. turn \in 1..Len(q)
    BY <1>1, <1>3, <2>1
  <2>3. PICK u \in Units : u = ResetOrder[turn]
    <3> HIDE DEF q
    <3>1. q[turn] \in Units
      BY <2>1, <2>2
    <3> QED BY <3>1 DEF q
  <2> HIDE DEF q
  <2>4. /\ trackers' = [trackers EXCEPT ![listed + 1] = u] /\ listed' = listed + 1
        /\ minTracker' = Earlier(minTracker, minExpires[u])
    BY <1>3, <2>3 DEF Settled
  <2>5. listed + 1 \in 1..Capacity /\ listed' \in 0..Capacity
    BY <1>1, <2>4
  <2>6. \A j \in 1..Capacity : trackers'[j] = IF j = listed + 1 THEN u ELSE trackers[j]
    BY <1>1, <2>4
  <2>7. minTracker' \in Nat /\ minTracker' <= minTracker /\ minTracker' <= minExpires[u]
    BY <1>1, <2>3, <2>4 DEF Earlier
  <2>8. trackers' \in [1..Capacity -> Units \cup {Nil}]
    BY <1>1, <2>3, <2>4
  <2>9. \A j \in 1..listed' : trackers'[j] \in Units
    BY <1>1, <2>3, <2>4, <2>5, <2>6
  <2>10. Listed(u)'
    <3>1. trackers'[listed + 1] = u /\ listed + 1 \in 1..listed'
      BY <1>1, <2>4, <2>5, <2>6
    <3> QED BY <3>1 DEF Listed
  <2>11. ASSUME NEW v \in Units, Listed(v) PROVE Listed(v)'
    <3>1. PICK j \in 1..listed : trackers[j] = v
      BY <2>11 DEF Listed
    <3>2. j \in 1..listed' /\ trackers'[j] = v
      BY <1>1, <2>4, <2>6, <3>1
    <3> QED BY <3>2 DEF Listed
  <2>12. ASSUME NEW v \in Units, Listed(v)', v # u PROVE Listed(v)
    <3>1. PICK j \in 1..listed' : trackers'[j] = v
      BY <2>12 DEF Listed
    <3>2. j \in 1..listed /\ trackers[j] = v
      BY <1>1, <2>4, <2>5, <2>6, <2>12, <3>1
    <3> QED BY <3>2 DEF Listed
  <2> QED BY <2>3, <2>5, <2>7, <2>8, <2>9, <2>10, <2>11, <2>12
<1> QED BY <1>2, <1>3

\* A unit is reset: it has no active aura to lose its place.
LEMMA ResetUnitKeeps ==
  ASSUME TrackerInv, ResetUnit
  PROVE  /\ TrackerInv' /\ AdvancesKept
         /\ \A a \in Auras : active[a] => HomeOf(a) # ResetOrder[turn + 1]
<1> DEFINE u == ResetOrder[turn + 1]
           q == ResetOrder
<1>1. /\ pc = "resetting" /\ Len(stack) = 1 /\ turn < Len(ResetOrder) /\ listed < Capacity /\ Settled
      /\ turn' = turn + 1 /\ Calls(TRUE)
      /\ list' = [list EXCEPT ![u] = [l \in Lists |-> <<>>]]
      /\ minExpires' = [minExpires EXCEPT ![u] = Never]
      /\ enabled' = [enabled EXCEPT ![u] = IF u \in Targets THEN @ ELSE u \notin Pets]
      /\ UNCHANGED <<now, pc, iter, active, expires, index, removed, sendVars, ops>>
  BY DEF ResetUnit
<1>2. turn \in Nat /\ q \in Seq(Units) /\ Len(q) \in Nat
  BY TrackerAssumption DEF TrackerInv, RestTypes
<1>3. turn + 1 \in 1..Len(q) /\ turn <= Len(q)
  BY <1>1, <1>2
<1>4. u \in Units
  <2> HIDE DEF q
  <2>1. q[turn + 1] \in Units
    BY <1>2, <1>3
  <2> QED BY <2>1 DEF q
<1>5. ASSUME NEW a \in Auras, active[a] PROVE HomeOf(a) # u
  <2>1. PICK i \in 1..turn : ResetOrder[i] = HomeOf(a)
    BY <1>1, <1>5 DEF TrackerInv, QuietInv
  <2>2. i \in 1..Len(q) /\ i # turn + 1
    BY <1>2, <1>3
  <2> QED BY <1>3, <2>1, <2>2, TrackerAssumption
<1> HIDE DEF u, q
<1>6. StackInv' /\ AdvancesKept
  BY <1>1, BottomFacts, CallsKeeps DEF TrackerInv
<1>7. /\ trackers' \in [1..Capacity -> Units \cup {Nil}] /\ listed' \in 0..Capacity /\ minTracker' \in Nat
      /\ \A j \in 1..listed' : trackers'[j] \in Units
  BY <1>1, <1>3, SettledFacts DEF q
<1>8. WalkInv'
  BY <1>1, <1>6, <1>7, WalkIdle
<1>9. RestTypes'
  <2>1. minExpires' \in [Units -> Nat]
    BY <1>1, TrackerAssumption DEF TrackerInv, RestTypes
  <2>2. enabled' \in [Units -> BOOLEAN]
    <3>1. (IF u \in Targets THEN enabled[u] ELSE u \notin Pets) \in BOOLEAN
      BY <1>4 DEF TrackerInv, RestTypes
    <3> QED BY <1>1, <3>1 DEF TrackerInv, RestTypes
  <2> QED BY <1>1, <1>2, <1>7, <2>1, <2>2 DEF TrackerInv, RestTypes
<1>10. /\ list' \in [Units -> [Lists -> Seq(Auras)]]
       /\ \A v \in Units, l \in Lists : list'[v][l] = IF v = u THEN <<>> ELSE list[v][l]
  <2>1. [l \in Lists |-> <<>>] \in [Lists -> Seq(Auras)]
    OBVIOUS
  <2> QED BY <1>1, <1>4, <2>1 DEF TrackerInv, AuraTypes
<1>11. AuraTypes'
  BY <1>1, <1>10 DEF TrackerInv, AuraTypes
<1>12. PlaceInv'
  <2>1. ASSUME NEW v \in Units, NEW l \in Lists, NEW i \in 1..Len(list'[v][l])
        PROVE  HomeOf(list'[v][l][i]) = v /\ index[list'[v][l][i]][l] = i
    <3>1. v # u
      BY <1>10
    <3>2. list'[v][l] = list[v][l]
      BY <1>10, <3>1
    <3> QED BY <3>2 DEF TrackerInv, PlaceInv
  <2>2. ASSUME NEW a \in Auras, NEW l \in Lists
        PROVE  /\ index[a][l] # 0 <=> active[a] /\ Joins(a, l)
               /\ index[a][l] # 0 => index[a][l] \in 1..Len(list'[HomeOf(a)][l])
                                     /\ list'[HomeOf(a)][l][index[a][l]] = a
    <3>1. /\ index[a][l] # 0 <=> active[a] /\ Joins(a, l)
          /\ index[a][l] # 0 => index[a][l] \in 1..Len(list[HomeOf(a)][l])
                                /\ list[HomeOf(a)][l][index[a][l]] = a
      BY DEF TrackerInv, PlaceInv
    <3>2. index[a][l] # 0 => HomeOf(a) # u /\ HomeOf(a) \in Units
      BY <1>5, <3>1, TrackerAssumption
    <3>3. index[a][l] # 0 => list'[HomeOf(a)][l] = list[HomeOf(a)][l]
      BY <1>10, <3>2
    <3> QED BY <3>1, <3>3
  <2> QED BY <1>1, <2>1, <2>2 DEF PlaceInv
<1>13. QuietInv'
  <2>1. turn' <= Len(ResetOrder)
    BY <1>1, <1>2, <1>3 DEF q
  <2>2. ASSUME NEW a \in Auras, active[a] PROVE \E i \in 1..turn' : ResetOrder[i] = HomeOf(a)
    <3>1. PICK i \in 1..turn : ResetOrder[i] = HomeOf(a)
      BY <1>1, <2>2 DEF TrackerInv, QuietInv
    <3>2. i \in 1..turn'
      BY <1>1, <1>2
    <3> QED BY <3>1, <3>2
  <2> QED BY <1>1, <2>1, <2>2 DEF QuietInv
<1> QED BY <1>5, <1>6, <1>8, <1>9, <1>11, <1>12, <1>13 DEF TrackerInv, u

\* The last unit is reset, and the iteration runs.
LEMMA ResetsEndKeeps ==
  ASSUME TrackerInv, ResetsEnd PROVE TrackerInv' /\ AdvancesKept
<1>1. /\ Len(stack) = 1 /\ turn = Len(ResetOrder) /\ listed < Capacity /\ Settled /\ pc' = "running"
      /\ Calls(TRUE)
      /\ UNCHANGED <<now, turn, iter, auraVars, minExpires, enabled, removed, sendVars, ops>>
  BY DEF ResetsEnd
<1>2. StackInv' /\ AdvancesKept
  BY <1>1, BottomFacts, CallsKeeps DEF TrackerInv
<1>3. turn <= Len(ResetOrder)
  BY <1>1 DEF TrackerInv, RestTypes
<1>4. /\ trackers' \in [1..Capacity -> Units \cup {Nil}] /\ listed' \in 0..Capacity /\ minTracker' \in Nat
      /\ \A j \in 1..listed' : trackers'[j] \in Units
  BY <1>1, <1>3, SettledFacts
<1>5. WalkInv'
  BY <1>1, <1>2, <1>4, WalkIdle
<1>6. RestTypes'
  BY <1>1, <1>4 DEF TrackerInv, RestTypes
<1>7. AuraTypes' /\ PlaceInv' /\ QuietInv'
  BY <1>1 DEF TrackerInv, AuraTypes, PlaceInv, QuietInv, auraVars
<1> QED BY <1>2, <1>5, <1>6, <1>7 DEF TrackerInv

\* The iteration is over: every unit is still to be finished.
LEMMA FinishBeginsKeeps ==
  ASSUME TrackerInv, FinishBegins PROVE TrackerInv' /\ AdvancesKept
<1>1. /\ Len(stack) = 1 /\ pc' = "finishing" /\ turn' = 1 /\ now' = Horizon /\ Calls(FALSE)
      /\ UNCHANGED <<iter, auraVars, minExpires, simVars, sendVars, ops>>
  BY DEF FinishBegins
<1>2. StackInv' /\ AdvancesKept
  BY <1>1, BottomFacts, CallsKeeps DEF TrackerInv
<1>3. WalkInv'
  BY <1>1, <1>2, WalkSame DEF TrackerInv, simVars
<1>4. RestTypes'
  BY <1>1, TrackerAssumption DEF TrackerInv, RestTypes, simVars
<1>5. AuraTypes' /\ PlaceInv'
  BY <1>1 DEF TrackerInv, AuraTypes, PlaceInv, auraVars
<1>6. QuietInv'
  BY <1>1, TrackerAssumption DEF QuietInv
<1> QED BY <1>2, <1>3, <1>4, <1>5, <1>6 DEF TrackerInv

\* An aura ends with the iteration.
LEMMA FinishAuraKeeps ==
  ASSUME TrackerInv, FinishAura PROVE TrackerInv' /\ AdvancesKept
<1>1. /\ Len(stack) = 1 /\ Calls(TRUE) /\ UNCHANGED <<runVars, minExpires, simVars, sendVars, ops>>
  BY DEF FinishAura
<1>2. PICK a \in Auras : active[a] /\ Fade(a)
  BY DEF FinishAura
<1>3. AuraTypes' /\ PlaceInv' /\ QuietInv'
  BY <1>1, <1>2, FadeLeaves DEF runVars
<1>4. StackInv' /\ AdvancesKept
  BY <1>1, BottomFacts, CallsKeeps DEF TrackerInv
<1>5. WalkInv'
  BY <1>1, <1>4, WalkSame DEF TrackerInv, simVars
<1>6. RestTypes'
  BY <1>1 DEF TrackerInv, RestTypes, runVars, simVars
<1> QED BY <1>3, <1>4, <1>5, <1>6 DEF TrackerInv

\* A unit is finished once none of its auras is active.
LEMMA FinishUnitKeeps ==
  ASSUME TrackerInv, FinishUnit PROVE TrackerInv' /\ AdvancesKept
<1> DEFINE u == FinishOrder[turn]
           q == FinishOrder
           g == [type |-> "expireAll", unit |-> u, calling |-> TRUE]
<1>1. /\ pc = "finishing" /\ Len(stack) = 1 /\ turn <= Len(FinishOrder) /\ turn' = turn + 1
      /\ \A a \in Auras : HomeOf(a) = u => ~active[a]
      /\ UNCHANGED <<now, pc, iter, auraVars, minExpires, trackers, listed, minTracker, removed,
                     sendVars, ops>>
  BY DEF FinishUnit
<1>2. turn \in Nat /\ turn >= 1 /\ q \in Seq(Units) /\ Len(q) \in Nat
  BY <1>1, TrackerAssumption DEF TrackerInv, RestTypes, QuietInv
<1>3. u \in Units
  <2>1. turn \in 1..Len(q)
    BY <1>1, <1>2
  <2> HIDE DEF q
  <2>2. q[turn] \in Units
    BY <1>2, <2>1
  <2> QED BY <2>2 DEF q
<1>4. /\ Len(stack) = 1 /\ stack[1].type = "loop" /\ (\A f \in 1..1 : ~IsAdvance(f)) /\ \A v \in Units : depth[v] = 0
  BY <1>1, BottomFacts DEF TrackerInv
<1>5. StackInv' /\ AdvancesKept /\ enabled' \in [Units -> BOOLEAN]
  <2>1. CASE u \in Pets /\ enabled[u]
    <3>1. enabled' = [enabled EXCEPT ![u] = FALSE] /\ stack' = <<Base(FALSE), g>>
      BY <2>1 DEF FinishUnit
    <3>2. Base(FALSE) \in FrameTypes /\ Base(FALSE).type = "loop" /\ g \in FrameTypes /\ g.type = "expireAll"
      BY <1>3 DEF Base, FrameTypes
    <3> HIDE DEF g
    <3> DEFINE h == Base(FALSE)
    <3>14. h \in FrameTypes
      BY <3>2
    <3> HIDE DEF h
    <3>3. /\ <<h, g>> \in Seq(FrameTypes) /\ Len(<<h, g>>) = 2 /\ <<h, g>>[1] = h /\ <<h, g>>[2] = g
          /\ <<h, g>> # <<>>
      BY <3>2, <3>14
    <3>4. /\ stack' \in Seq(FrameTypes) /\ Len(stack') = 2 /\ stack'[1] = h /\ stack'[2] = g /\ stack' # <<>>
      BY <3>1, <3>3 DEF h
    <3>5. \A f \in 1..Len(stack') : f = 1 \/ f = 2
      BY <3>4
    <3>6. \A f \in 1..Len(stack') : ~IsAdvance(f)' /\ ~IsEvent(f)'
      BY <3>2, <3>4, <3>5 DEF IsAdvance, IsEvent, h
    <3>7. StackTypes'
      BY <3>4, TrackerAssumption DEF StackTypes
    <3>8. ShapeInv'
      <4>1. stack'[1].type = "loop"
        BY <3>2, <3>4 DEF h
      <4>2. \A f \in 1..Len(stack') : ~(1 < f /\ f < Len(stack'))
        BY <3>4, <3>5
      <4> QED BY <3>6, <4>1, <4>2 DEF ShapeInv
    <3>9. depth' = depth /\ buffers' = buffers
      BY <1>1 DEF sendVars
    <3>10. EventInv'
      <4>1. \A v \in Units : 1..depth'[v] = {}
        BY <1>4, <3>9
      <4> QED BY <3>6, <4>1 DEF EventInv
    <3>11. SendTypes'
      BY <3>9 DEF TrackerInv, StackInv, SendTypes
    <3>12. AdvancesKept
      BY <1>4, <3>6 DEF AdvancesKept
    <3>13. enabled' \in [Units -> BOOLEAN]
      BY <3>1 DEF TrackerInv, RestTypes
    <3> QED BY <3>7, <3>8, <3>10, <3>11, <3>12, <3>13 DEF StackInv
  <2>2. CASE ~(u \in Pets /\ enabled[u])
    <3>1. Calls(FALSE) /\ enabled' = enabled
      BY <2>2 DEF FinishUnit
    <3>2. StackInv' /\ AdvancesKept
      BY <1>1, <3>1, BottomFacts, CallsKeeps DEF TrackerInv
    <3> QED BY <3>1, <3>2 DEF TrackerInv, RestTypes
  <2> QED BY <2>1, <2>2
<1>6. WalkInv'
  BY <1>1, <1>5, WalkSame DEF TrackerInv
<1>7. RestTypes'
  BY <1>1, <1>2, <1>5 DEF TrackerInv, RestTypes
<1>8. AuraTypes' /\ PlaceInv'
  BY <1>1 DEF TrackerInv, AuraTypes, PlaceInv, auraVars
<1>9. QuietInv'
  <2>1. ASSUME NEW a \in Auras, active[a] PROVE \E i \in turn'..Len(FinishOrder) : FinishOrder[i] = HomeOf(a)
    <3>1. PICK i \in turn..Len(FinishOrder) : FinishOrder[i] = HomeOf(a)
      BY <1>1, <2>1 DEF TrackerInv, QuietInv
    <3>2. i # turn
      BY <1>1, <2>1, <3>1
    <3>3. i \in turn'..Len(FinishOrder)
      BY <1>1, <1>2, <3>2 DEF q
    <3> QED BY <3>1, <3>3
  <2>2. turn' >= 1 /\ active' = active
    BY <1>1, <1>2 DEF auraVars
  <2> QED BY <1>1, <2>1, <2>2 DEF QuietInv
<1> QED BY <1>5, <1>6, <1>7, <1>8, <1>9 DEF TrackerInv

\* The next iteration finds no aura active.
LEMMA NextIterationKeeps ==
  ASSUME TrackerInv, NextIteration PROVE TrackerInv' /\ AdvancesKept /\ \A a \in Auras : ~active'[a]
<1>1. /\ pc = "finishing" /\ Len(stack) = 1 /\ turn > Len(FinishOrder)
      /\ iter' = iter + 1 /\ pc' = "resetting" /\ turn' = 0 /\ now' = 0
      /\ listed' = 0 /\ minTracker' = Never
      /\ UNCHANGED <<auraVars, minExpires, enabled, trackers, removed, sendVars, stack, ops>>
  BY DEF NextIteration
<1>2. ASSUME NEW a \in Auras PROVE ~active[a]
  <2>1. Len(FinishOrder) \in Nat /\ turn \in Nat
    BY TrackerAssumption DEF TrackerInv, RestTypes
  <2>2. turn..Len(FinishOrder) = {}
    BY <1>1, <2>1
  <2> QED BY <1>1, <2>2 DEF TrackerInv, QuietInv
<1>3. StackInv' /\ AdvancesKept
  BY <1>1, StackSame DEF TrackerInv
<1>4. WalkInv'
  <2>1. \A j \in 1..listed' : trackers'[j] \in Units
    BY <1>1
  <2> QED BY <1>1, <1>3, <2>1, WalkIdle
<1>5. RestTypes'
  BY <1>1, TrackerAssumption DEF TrackerInv, RestTypes
<1>6. AuraTypes' /\ PlaceInv'
  BY <1>1 DEF TrackerInv, AuraTypes, PlaceInv, auraVars
<1>7. QuietInv'
  <2>1. 0 <= Len(ResetOrder)
    BY TrackerAssumption
  <2> QED BY <1>1, <1>2, <2>1 DEF QuietInv, auraVars
<1> QED BY <1>1, <1>2, <1>3, <1>4, <1>5, <1>6, <1>7 DEF TrackerInv, auraVars

\* Before the first iteration nothing is listed and no loop runs.
LEMMA TrackerInit == ASSUME Init PROVE TrackerInv
<1> DEFINE h == Base(FALSE)
<1>1. h \in FrameTypes /\ h.type = "loop"
  BY DEF Base, FrameTypes
<1>2. stack = <<h>>
  BY DEF Init
<1> HIDE DEF h
<1>3. <<h>> \in Seq(FrameTypes) /\ Len(<<h>>) = 1 /\ <<h>>[1] = h /\ <<h>> # <<>>
  BY <1>1
<1>4. stack \in Seq(FrameTypes) /\ Len(stack) = 1 /\ stack[1] = h /\ stack # <<>>
  BY <1>2, <1>3
<1>5. \A f \in 1..Len(stack) : f = 1
  BY <1>4
<1>6. \A f \in 1..Len(stack) : ~IsAdvance(f) /\ ~IsEvent(f)
  BY <1>1, <1>4, <1>5 DEF IsAdvance, IsEvent
<1>7. StackTypes
  BY <1>4, TrackerAssumption DEF StackTypes
<1>8. ShapeInv
  BY <1>1, <1>4, <1>5, <1>6 DEF ShapeInv
<1>9. EventInv
  <2>1. \A u \in Units : 1..depth[u] = {}
    BY DEF Init
  <2> QED BY <1>6, <2>1 DEF EventInv
<1>10. SendTypes
  <2>1. <<>> \in Seq(Auras)
    OBVIOUS
  <2>2. buffers \in [Units -> [1..MaxDepth -> Seq(Auras)]]
    BY <2>1 DEF Init
  <2>3. 0 \in 0..(MaxDepth - 1)
    BY TrackerAssumption
  <2> QED BY <2>2, <2>3 DEF SendTypes, Init
<1>11. AuraTypes
  <2>1. <<>> \in Seq(Auras)
    OBVIOUS
  <2>2. list \in [Units -> [Lists -> Seq(Auras)]]
    BY <2>1 DEF Init
  <2> QED BY <2>2 DEF AuraTypes, Init
<1>12. PlaceInv
  <2>1. \A u \in Units, l \in Lists : 1..Len(list[u][l]) = {}
    BY DEF Init
  <2>2. \A a \in Auras, l \in Lists : index[a][l] = 0 /\ ~active[a]
    BY DEF Init
  <2> QED BY <2>1, <2>2 DEF PlaceInv
<1>13. RestTypes
  <2>1. trackers \in [1..Capacity -> Units \cup {Nil}]
    BY DEF Init
  <2>2. enabled \in [Units -> BOOLEAN]
    <3>1. enabled = [u \in Units |-> u \in Targets]
      BY DEF Init
    <3> DEFINE e(u) == u \in Targets
    <3>2. \A u \in Units : e(u) \in BOOLEAN
      OBVIOUS
    <3>3. enabled = [u \in Units |-> e(u)]
      BY <3>1
    <3> HIDE DEF e
    <3> QED BY <3>2, <3>3
  <2>3. minExpires \in [Units -> Nat] /\ minTracker \in Nat
    BY TrackerAssumption DEF Init
  <2>4. /\ now \in Nat /\ pc \in {"resetting", "running", "finishing"} /\ turn \in Nat /\ iter \in Nat
        /\ ops \in 0..MaxOps /\ listed \in 0..Capacity /\ removed \in BOOLEAN
    <3>1. /\ now = 0 /\ pc = "resetting" /\ turn = 0 /\ iter = 1 /\ ops = 0 /\ listed = 0 /\ removed = FALSE
      BY DEF Init
    <3>2. 0 \in 0..MaxOps /\ 0 \in 0..Capacity
      BY TrackerAssumption
    <3> QED BY <3>1, <3>2
  <2> QED BY <2>1, <2>2, <2>3, <2>4 DEF RestTypes
<1>14. QuietInv
  <2>1. 0 <= Len(ResetOrder)
    BY TrackerAssumption
  <2> QED BY <2>1 DEF QuietInv, Init
<1>15. WalkInv
  <2>1. 1..listed = {}
    BY DEF Init
  <2> QED BY <1>6, <2>1 DEF WalkInv
<1> QED BY <1>7, <1>8, <1>9, <1>10, <1>11, <1>12, <1>13, <1>14, <1>15 DEF TrackerInv, StackInv

\* Every step but those of the walk leaves an advance under way alone.
LEMMA OtherKeeps ==
  ASSUME TrackerInv,
         \/ ClassCode \/ HearNext \/ EventEnds \/ ExpireAllStep \/ ExpireAllEnds
         \/ ResetUnit \/ ResetsEnd \/ FinishBegins \/ FinishAura \/ FinishUnit \/ NextIteration
  PROVE  TrackerInv' /\ AdvancesKept
<1>1. CASE ClassCode
  BY <1>1, ActivateKeeps, DeactivateKeeps, FireStep, DismissKeeps, SummonKeeps DEF ClassCode
<1> QED BY <1>1, HearKeeps, EventEndsKeeps, ExpireAllStepKeeps, ExpireAllEndsKeeps, ResetUnitKeeps,
           ResetsEndKeeps, FinishBeginsKeeps, FinishAuraKeeps, FinishUnitKeeps, NextIterationKeeps

\* TrackerInv is inductive.
LEMMA TrackerStep == ASSUME TrackerInv, [Next]_vars PROVE TrackerInv'
<1>1. CASE UNCHANGED vars
  BY <1>1 DEF vars, runVars, auraVars, simVars, sendVars, TrackerInv, RestTypes, AuraTypes, PlaceInv,
              QuietInv, StackInv, StackTypes, SendTypes, ShapeInv, EventInv, WalkInv, IsEvent, IsAdvance
<1>2. CASE Next
  BY <1>2, OtherKeeps, AdvanceKeeps, PassesKeeps, AuraExpiresKeeps, ScanEndsKeeps, AdvanceEndsKeeps
     DEF Next, LoopStep
<1> QED BY <1>1, <1>2

\* So it holds of every behaviour.
LEMMA TrackerInvariant == Spec => []TrackerInv
BY TrackerInit, TrackerStep, PTL DEF Spec

-----------------------------------------------------------------------------
(* What follows from it *)

\* Whatever callbacks gained and ended, an aura is in each list at the position it
\* remembers, exactly while it is active: for any auras, lists and nesting of
\* callbacks (Activate, Deactivate and removeBySwappingToBack, aura.go).
THEOREM IndexesCorrect == Spec => []IndexesAgree
<1>1. ASSUME TrackerInv PROVE IndexesAgree
  <2>1. ASSUME NEW a \in Auras, NEW l \in Lists PROVE index[a][l] \in 0..Len(list[HomeOf(a)][l])
    <3>1. list[HomeOf(a)][l] \in Seq(Auras) /\ index[a][l] \in Nat
      BY <1>1, TrackerAssumption DEF TrackerInv, AuraTypes
    <3>2. index[a][l] # 0 => index[a][l] \in 1..Len(list[HomeOf(a)][l])
      BY <1>1 DEF TrackerInv, PlaceInv
    <3> QED BY <3>1, <3>2
  <2> QED BY <1>1, <2>1 DEF TrackerInv, PlaceInv, IndexesAgree
<1> QED BY <1>1, TrackerInvariant, PTL

\* An event reaches the auras its list held when it was fired, however events nest
\* (beginDispatch, endDispatch); and every variable has its type.
THEOREM DispatchCorrect == Spec => []DispatchIntact
<1>1. ASSUME TrackerInv PROVE DispatchIntact
  <2>1. TypeOK
    BY <1>1 DEF TrackerInv, StackInv, RestTypes, AuraTypes, SendTypes, StackTypes, TypeOK
  <2>2. ASSUME NEW f \in 1..Len(stack), stack[f].type = "event",
               NEW i \in stack[f].next..Len(stack[f].heard)
        PROVE  /\ Len(buffers[stack[f].unit][stack[f].slot]) >= i
               /\ buffers[stack[f].unit][stack[f].slot][i] = stack[f].heard[i]
    <3>1. buffers[stack[f].unit][stack[f].slot] = stack[f].heard
      BY <1>1, <2>2 DEF TrackerInv, StackInv, EventInv, IsEvent
    <3> DEFINE q == stack[f].heard
               k == stack[f].next
    <3>2. q \in Seq(Auras) /\ k \in Nat
      BY <1>1, <2>2, TopFacts, FrameFacts DEF TrackerInv, StackInv
    <3>3. i \in k..Len(q)
      OBVIOUS
    <3> HIDE DEF q, k
    <3>4. Len(q) >= i
      BY <3>2, <3>3
    <3> QED BY <3>1, <3>4 DEF q
  <2> QED BY <2>1, <2>2 DEF DispatchIntact
<1> QED BY <1>1, TrackerInvariant, PTL

\* No aura is active when its unit is reset ("Active aura during reset", aura.go):
\* the end of the last iteration ended those its own callbacks gained, too.
THEOREM ResetCorrect == Spec => []ResetFindsNoneActive
<1>1. ASSUME TrackerInv PROVE ResetFindsNoneActive
  <2> SUFFICES ASSUME pc = "resetting", NEW i \in (turn + 1)..Len(ResetOrder), NEW a \in Auras,
                      HomeOf(a) = ResetOrder[i]
               PROVE  ~active[a] /\ \A l \in Lists : index[a][l] = 0
    BY DEF ResetFindsNoneActive
  <2>1. turn \in Nat /\ Len(ResetOrder) \in Nat
    BY <1>1, TrackerAssumption DEF TrackerInv, RestTypes
  <2>2. ~\E j \in 1..turn : ResetOrder[j] = HomeOf(a)
    <3> SUFFICES ASSUME NEW j \in 1..turn, ResetOrder[j] = ResetOrder[i] PROVE FALSE
      OBVIOUS
    <3>1. j \in 1..Len(ResetOrder) /\ i \in 1..Len(ResetOrder) /\ j # i
      BY <2>1
    <3> QED BY <3>1, TrackerAssumption
  <2>3. ~active[a]
    BY <1>1, <2>2 DEF TrackerInv, QuietInv
  <2> QED BY <1>1, <2>3 DEF TrackerInv, PlaceInv
<1> QED BY <1>1, TrackerInvariant, PTL

-----------------------------------------------------------------------------
(* The caches *)

\* The scan of u's list was interrupted by the callback of an aura that expired.
Scanned(u) == \E f \in 1..Len(stack) : IsAdvance(f) /\ stack[f].calling /\ stack[f].unit = u

\* The caches, aura by aura.
CacheInv ==
    /\ minTracker <= Never
    /\ \A a \in Auras \ Permanent : active[a] =>
          Scanned(HomeOf(a)) \/ minExpires[HomeOf(a)] <= expires[a]
    /\ \A u \in Units : Listed(u) => StillWalked(u) \/ minTracker <= minExpires[u]

\* Units that are not pets are listed once they are reset; an advance has dealt with
\* those it has left behind.
DueInv ==
    /\ pc = "resetting" => \A i \in 1..(turn - 1) : ResetOrder[i] \notin Pets => Listed(ResetOrder[i])
    /\ pc = "running" => \A u \in Units \ Pets : Listed(u)
    /\ (\E f \in 1..Len(stack) : IsAdvance(f)) =>
          \A a \in Auras \ Permanent : active[a] /\ HomeOf(a) \notin Pets =>
              StillWalked(HomeOf(a)) \/ expires[a] > now

-----------------------------------------------------------------------------
(* The walk *)

\* u stands where the walk will find it.
PlacesKept(u) ==
    \A f \in 1..Len(stack) : IsAdvance(f) =>
        \A j \in 1..stack[f].size : trackers[j] = u => trackers'[j] = u

\* Where u is met by the walk of frame g.
Met(g, u, t) ==
    \/ g.calling /\ g.unit = u
    \/ \E j \in (g.next + 1)..g.size : t[j] = u
    \/ ~g.calling /\ g.next <= g.size /\ t[g.next] = u

\* An advance that is left alone comes to the trackers it was to come to.
LEMMA WalkKept ==
  ASSUME TrackerInv, AdvancesKept, NEW u \in Units
  PROVE  /\ Scanned(u) => Scanned(u)'
         /\ PlacesKept(u) /\ StillWalked(u) => StillWalked(u)'
         /\ (\E f \in 1..Len(stack') : IsAdvance(f)') => \E f \in 1..Len(stack) : IsAdvance(f)
<1>1. ASSUME NEW f \in 1..Len(stack), IsAdvance(f)
      PROVE  f \in 1..Len(stack') /\ IsAdvance(f)' /\ stack'[f] = stack[f]
  <2>1. f \in Nat
    OBVIOUS
  <2> QED BY <1>1, <2>1 DEF AdvancesKept
<1>2. Scanned(u) => Scanned(u)'
  BY <1>1 DEF Scanned
<1>3. ASSUME PlacesKept(u), StillWalked(u) PROVE StillWalked(u)'
  <2>1. PICK f \in 1..Len(stack) : IsAdvance(f) /\ Met(stack[f], u, trackers)
    BY <1>3 DEF StillWalked, IsAdvance, Met
  <2> DEFINE g == stack[f]
  <2>2. g.next \in Nat \ {0} /\ g.size \in 0..Capacity /\ Capacity \in Nat
    BY <2>1, TopFacts, FrameFacts, TrackerAssumption DEF TrackerInv, StackInv, IsAdvance
  <2>3. \A j \in 1..g.size : trackers[j] = u => trackers'[j] = u
    BY <1>3, <2>1 DEF PlacesKept
  <2>4. Met(g, u, trackers)
    BY <2>1
  <2>5. f \in 1..Len(stack') /\ stack'[f] = g /\ g.type = "advance"
    BY <1>1, <2>1 DEF IsAdvance
  <2> HIDE DEF g
  <2>6. Met(g, u, trackers')
    BY <2>2, <2>3, <2>4 DEF Met
  <2> QED BY <2>5, <2>6 DEF StillWalked, Met
<1>4. ASSUME NEW f \in 1..Len(stack'), IsAdvance(f)' PROVE \E k \in 1..Len(stack) : IsAdvance(k)
  <2>1. f \in Nat
    OBVIOUS
  <2> QED BY <1>4, <2>1 DEF AdvancesKept
<1> QED BY <1>2, <1>3, <1>4

\* While the top frame is an advance, it alone decides what is still to be walked.
LEMMA WalkNow ==
  ASSUME TrackerInv, Frame.type = "advance"
  PROVE  /\ Frame.next \in Nat \ {0} /\ Frame.size \in 0..Capacity /\ Frame.calling \in BOOLEAN
         /\ Frame.calling => Frame.next <= Frame.size
         /\ \A u : Scanned(u) => Frame.calling /\ Frame.unit = u
         /\ \A u : StillWalked(u) => Met(Frame, u, trackers)
<1>1. /\ Frame = stack[Len(stack)] /\ Frame \in FrameTypes /\ Len(stack) \in 1..Len(stack)
  BY TopFacts DEF TrackerInv, StackInv
<1>2. /\ Frame.next \in Nat \ {0} /\ Frame.size \in 0..Capacity /\ Frame.calling \in BOOLEAN
  BY <1>1, FrameFacts
<1>3. IsAdvance(Len(stack))
  BY <1>1 DEF IsAdvance
<1>4. Len(stack) = 2 /\ (Frame.calling => Frame.next <= Frame.size)
  BY <1>1, <1>3 DEF TrackerInv, StackInv, ShapeInv
<1>5. \A f \in 1..Len(stack) : IsAdvance(f) => stack[f] = Frame
  BY <1>1, <1>4 DEF TrackerInv, StackInv, ShapeInv
<1>6. \A u : Scanned(u) => Frame.calling /\ Frame.unit = u
  BY <1>5 DEF Scanned
<1>7. \A u : StillWalked(u) => Met(Frame, u, trackers)
  BY <1>5 DEF StillWalked, Met, IsAdvance
<1> QED BY <1>2, <1>4, <1>6, <1>7

\* And so after a step that leaves an advance on top.
LEMMA WalkNext ==
  ASSUME TrackerInv, Frame.type = "advance", NEW g \in FrameTypes, g.type = "advance",
         stack' = Retop(g)
  PROVE  /\ \A u : Scanned(u)' <=> g.calling /\ g.unit = u
         /\ \A u : Met(g, u, trackers') => StillWalked(u)'
         /\ \E f \in 1..Len(stack) : IsAdvance(f)
<1>1. /\ Frame = stack[Len(stack)] /\ Len(stack) \in 1..Len(stack)
  BY TopFacts DEF TrackerInv, StackInv
<1>2. IsAdvance(Len(stack))
  BY <1>1 DEF IsAdvance
<1>3. Len(stack) = 2 /\ stack[1].type = "loop"
  BY <1>1, <1>2 DEF TrackerInv, StackInv, ShapeInv
<1>4. Len(stack') = 2 /\ stack'[2] = g /\ stack'[1] = stack[1]
  BY <1>3, RetopFacts DEF TrackerInv, StackInv
<1>5. \A f \in 1..Len(stack') : IsAdvance(f)' <=> f = 2
  BY <1>3, <1>4 DEF IsAdvance
<1>6. \A u : Scanned(u)' <=> g.calling /\ g.unit = u
  BY <1>4, <1>5 DEF Scanned
<1>7. \A u : Met(g, u, trackers') => StillWalked(u)'
  BY <1>4, <1>5 DEF StillWalked, Met, IsAdvance
<1> QED BY <1>1, <1>2, <1>6, <1>7

\* The walk leaves a tracker behind.
LEMMA OnwardWalk ==
  ASSUME TrackerInv, Frame.type = "advance", Frame.next <= Frame.size,
         stack' = Retop(Onward(Frame, FALSE)), trackers' = trackers
  PROVE  /\ \A u : ~Scanned(u)'
         /\ \A u : Scanned(u) => u = Walked
         /\ \A u : StillWalked(u) => StillWalked(u)' \/ u = Walked
         /\ \E f \in 1..Len(stack) : IsAdvance(f)
<1> DEFINE g == Onward(Frame, FALSE)
<1>1. /\ Frame.next \in Nat \ {0} /\ Frame.size \in 0..Capacity /\ Frame.calling \in BOOLEAN
      /\ \A u : Scanned(u) => Frame.calling /\ Frame.unit = u
      /\ \A u : StillWalked(u) => Met(Frame, u, trackers)
  BY WalkNow
<1>2. Frame \in FrameTypes
  BY TopFacts DEF TrackerInv, StackInv
<1>3. g \in FrameTypes /\ g.type = "advance" /\ ~g.calling /\ g.size = Frame.size /\ g.next = Frame.next + 1
  BY <1>2, WalkFacts
<1>4. stack' = Retop(g)
  OBVIOUS
<1> HIDE DEF g
<1>5. /\ \A u : Scanned(u)' <=> g.calling /\ g.unit = u
      /\ \A u : Met(g, u, trackers') => StillWalked(u)'
      /\ \E f \in 1..Len(stack) : IsAdvance(f)
  BY <1>3, <1>4, WalkNext
<1>6. \A u : Scanned(u) => u = Walked
  BY <1>1 DEF Walked
<1>7. ASSUME NEW u, Met(Frame, u, trackers), u # Walked PROVE Met(g, u, trackers')
  <2>1. Capacity \in Nat
    BY TrackerAssumption
  <2>2. PICK j \in (Frame.next + 1)..Frame.size : trackers[j] = u
    BY <1>7 DEF Met, Walked
  <2>3. j = g.next \/ j \in (g.next + 1)..g.size
    BY <1>1, <1>3, <2>1
  <2>4. g.next <= g.size
    BY <1>1, <1>3, <2>1
  <2> QED BY <1>3, <2>2, <2>3, <2>4 DEF Met
<1> QED BY <1>1, <1>3, <1>5, <1>6, <1>7

\* The scan of a tracker is interrupted: it will be taken up again.
LEMMA ScanningWalk ==
  ASSUME TrackerInv, Frame.type = "advance", Frame.next <= Frame.size,
         stack' = Retop(Scanning(Frame, Walked)), trackers' = trackers
  PROVE  /\ \A u : u = Walked => Scanned(u)' /\ StillWalked(u)'
         /\ \A u : Scanned(u) => u = Walked
         /\ \A u : StillWalked(u) => StillWalked(u)'
         /\ \E f \in 1..Len(stack) : IsAdvance(f)
<1> DEFINE w == Walked
           g == Scanning(Frame, w)
<1>1. /\ Frame.calling \in BOOLEAN
      /\ \A u : Scanned(u) => Frame.calling /\ Frame.unit = u
      /\ \A u : StillWalked(u) => Met(Frame, u, trackers)
  BY WalkNow
<1>2. Frame \in FrameTypes /\ w \in Units
  BY WalkedFacts
<1> HIDE DEF w
<1>3. g \in FrameTypes /\ g.type = "advance" /\ g.calling /\ g.unit = w /\ g.size = Frame.size
      /\ g.next = Frame.next
  BY <1>2, WalkFacts
<1>4. stack' = Retop(g)
  BY DEF w
<1> HIDE DEF g
<1>5. /\ \A u : Scanned(u)' <=> g.calling /\ g.unit = u
      /\ \A u : Met(g, u, trackers') => StillWalked(u)'
      /\ \E f \in 1..Len(stack) : IsAdvance(f)
  BY <1>3, <1>4, WalkNext
<1>6. \A u : Scanned(u) => u = Walked
  BY <1>1 DEF Walked
<1>7. \A u : u = w => Met(g, u, trackers')
  BY <1>3 DEF Met
<1>8. \A u : Met(Frame, u, trackers) => Met(g, u, trackers')
  BY <1>3 DEF Met, w, Walked
<1> QED BY <1>1, <1>3, <1>5, <1>6, <1>7, <1>8 DEF w

\* Once the walk is over no tracker is left to it.
LEMMA WalkOver ==
  ASSUME TrackerInv, AdvanceEnds
  PROVE  \A u : ~Scanned(u) /\ ~StillWalked(u)
<1>1. Frame.type = "advance" /\ Frame.next > Frame.size
  BY DEF AdvanceEnds
<1>2. /\ Frame.next \in Nat \ {0} /\ Frame.size \in Nat
      /\ Frame.calling => Frame.next <= Frame.size
      /\ \A u : Scanned(u) => Frame.calling /\ Frame.unit = u
      /\ \A u : StillWalked(u) => Met(Frame, u, trackers)
  BY <1>1, WalkNow, TrackerAssumption
<1>3. ~Frame.calling /\ (Frame.next + 1)..Frame.size = {}
  BY <1>1, <1>2
<1> QED BY <1>1, <1>2, <1>3 DEF Met

\* A walk that begins comes to every tracker that is listed.
LEMMA WalkBegins ==
  ASSUME TrackerInv, NEW t \in 1..Horizon, Advance(t), t >= minTracker
  PROVE  /\ minTracker' = Never /\ \A u : Listed(u) => StillWalked(u)'
         /\ \A u : ~Scanned(u)
<1> DEFINE g == [type |-> "advance", unit |-> Nil, next |-> 1, size |-> listed, calling |-> FALSE]
<1>1. /\ Len(stack) = 1 /\ minTracker' = Never /\ stack' = Put(g) /\ trackers' = trackers
  BY DEF Advance, Push, Put
<1>2. g \in FrameTypes /\ g.type = "advance" /\ ~g.calling /\ g.next = 1 /\ g.size = listed
  BY DEF FrameTypes, TrackerInv, RestTypes
<1> HIDE DEF g
<1>3. Len(stack') = 2 /\ stack'[2] = g
  BY <1>1, <1>2, PutFacts DEF TrackerInv, StackInv
<1>4. ASSUME NEW u, Listed(u) PROVE StillWalked(u)'
  <2>1. PICK j \in 1..listed : trackers[j] = u
    BY <1>4 DEF Listed
  <2>2. listed \in Nat
    BY TrackerAssumption DEF TrackerInv, RestTypes
  <2>3. \/ j \in (g.next + 1)..g.size /\ trackers'[j] = u
        \/ ~g.calling /\ g.next <= g.size /\ trackers'[g.next] = u
    BY <1>1, <1>2, <2>1, <2>2
  <2>4. Met(g, u, trackers')
    BY <2>3 DEF Met
  <2> QED BY <1>2, <1>3, <2>4 DEF StillWalked, Met
<1>5. \A u : ~Scanned(u)
  BY <1>1, BottomFacts DEF TrackerInv, Scanned
<1> QED BY <1>1, <1>4, <1>5

-----------------------------------------------------------------------------
(* The caches never run late *)

\* Steps outside the walk: the auras of a unit keep the cache they had or lower it,
\* and so do the trackers.
LEMMA CacheHolds ==
  ASSUME TrackerInv, TrackerInv', CacheInv, AdvancesKept, minTracker' <= Never,
         \A b \in Auras \ Permanent : active'[b] =>
            \/ minExpires'[HomeOf(b)] <= expires'[b]
            \/ /\ active[b] /\ expires'[b] = expires[b]
               /\ minExpires'[HomeOf(b)] <= minExpires[HomeOf(b)],
         \A u \in Units : Listed(u)' =>
            \/ minTracker' <= minExpires'[u]
            \/ /\ Listed(u) /\ PlacesKept(u)
               /\ minTracker <= minExpires[u] => minTracker' <= minExpires'[u]
  PROVE  CacheInv'
<1>1. ASSUME NEW b \in Auras \ Permanent, active'[b]
      PROVE  Scanned(HomeOf(b))' \/ minExpires'[HomeOf(b)] <= expires'[b]
  <2>1. HomeOf(b) \in Units
    BY TrackerAssumption
  <2>2. Scanned(HomeOf(b)) => Scanned(HomeOf(b))'
    BY <2>1, WalkKept
  <2>3. /\ minExpires'[HomeOf(b)] \in Nat /\ minExpires[HomeOf(b)] \in Nat
        /\ expires[b] \in Nat /\ expires'[b] \in Nat
    BY <2>1 DEF TrackerInv, RestTypes, AuraTypes
  <2> QED BY <1>1, <2>2, <2>3 DEF CacheInv
<1>2. ASSUME NEW u \in Units, Listed(u)' PROVE StillWalked(u)' \/ minTracker' <= minExpires'[u]
  BY <1>2, WalkKept DEF CacheInv
<1> QED BY <1>1, <1>2 DEF CacheInv

\* Where the trackers stay listed as they are, each is met where it was.
LEMMA PlacesSame == ASSUME trackers' = trackers, NEW u PROVE PlacesKept(u)
BY DEF PlacesKept

\* An aura fades, outside the walk.
LEMMA CacheFade ==
  ASSUME TrackerInv, TrackerInv', CacheInv, AdvancesKept,
         NEW a \in Auras, active[a], Fade(a), UNCHANGED <<minExpires, simVars>>
  PROVE  CacheInv'
<1>1. \A b \in Auras : /\ active'[b] = (active[b] /\ b # a)
                       /\ expires'[b] = IF b = a THEN 0 ELSE expires[b]
  BY FadeKeeps DEF TrackerInv
<1>2. minExpires' = minExpires /\ trackers' = trackers /\ listed' = listed /\ minTracker' = minTracker
  BY DEF simVars
<1>3. ASSUME NEW b \in Auras \ Permanent, active'[b]
      PROVE  /\ active[b] /\ expires'[b] = expires[b]
             /\ minExpires'[HomeOf(b)] <= minExpires[HomeOf(b)]
  <2>1. minExpires[HomeOf(b)] \in Nat
    BY TrackerAssumption DEF TrackerInv, RestTypes
  <2>2. active[b] /\ b # a
    BY <1>1, <1>3
  <2> QED BY <1>1, <1>2, <2>1, <2>2
<1>4. \A u \in Units : Listed(u)' => Listed(u) /\ PlacesKept(u)
  BY <1>2, PlacesSame DEF Listed
<1> QED BY <1>2, <1>3, <1>4, CacheHolds DEF CacheInv

\* Nothing of what the caches are about changes.
LEMMA CacheSame ==
  ASSUME TrackerInv, TrackerInv', CacheInv, AdvancesKept,
         UNCHANGED <<active, expires, minExpires, trackers, listed, minTracker>>
  PROVE  CacheInv'
<1>1. ASSUME NEW b \in Auras \ Permanent, active'[b]
      PROVE  /\ active[b] /\ expires'[b] = expires[b]
             /\ minExpires'[HomeOf(b)] <= minExpires[HomeOf(b)]
  <2>1. minExpires[HomeOf(b)] \in Nat
    BY TrackerAssumption DEF TrackerInv, RestTypes
  <2> QED BY <1>1, <2>1
<1>2. \A u \in Units : Listed(u)' => Listed(u) /\ PlacesKept(u)
  BY PlacesSame DEF Listed
<1> QED BY <1>1, <1>2, CacheHolds DEF CacheInv

\* Activate lowers the caches to the new end.
LEMMA CacheActivate ==
  ASSUME TrackerInv, CacheInv, NEW a \in Auras, NEW d \in Durations, Activate(a, d) PROVE CacheInv'
<1>1. TrackerInv' /\ AdvancesKept
  BY ActivateKeeps
<1> DEFINE t == End(a, d)
<1>2. t \in Nat
  <2>1. Never \in Nat /\ d \in Nat
    BY TrackerAssumption
  <2>2. now \in Nat
    BY DEF TrackerInv, RestTypes
  <2> QED BY <2>1, <2>2 DEF End
<1>3. /\ Refresh(a, t) /\ trackers' = trackers /\ listed' = listed
      /\ IF active[a] THEN active' = active ELSE active' = [active EXCEPT ![a] = TRUE]
  BY DEF Activate
<1> HIDE DEF t
<1>4. /\ minTracker' \in Nat /\ minTracker' <= minTracker
      /\ \A u \in Units : minExpires'[u] <= minExpires[u]
      /\ minExpires'[HomeOf(a)] <= t
      /\ \A b \in Auras : expires'[b] = IF b = a THEN t ELSE expires[b]
      /\ \A u \in Units : minTracker <= minExpires[u] => minTracker' <= minExpires'[u]
  BY <1>2, <1>3, RefreshTypes DEF TrackerInv
<1>5. \A b \in Auras : active'[b] => active[b] \/ b = a
  BY <1>3 DEF TrackerInv, AuraTypes
<1>6. minTracker' <= Never
  BY <1>4, TrackerAssumption DEF TrackerInv, RestTypes, CacheInv
<1>7. \A b \in Auras \ Permanent : active'[b] =>
         \/ minExpires'[HomeOf(b)] <= expires'[b]
         \/ /\ active[b] /\ expires'[b] = expires[b]
            /\ minExpires'[HomeOf(b)] <= minExpires[HomeOf(b)]
  BY <1>4, <1>5, TrackerAssumption
<1>8. \A u \in Units : Listed(u)' => Listed(u) /\ PlacesKept(u)
  BY <1>3, PlacesSame DEF Listed
<1> QED BY <1>1, <1>4, <1>6, <1>7, <1>8, CacheHolds

\* A tracker that is listed in the middle of an advance stands behind the places the
\* advance comes to: none was delisted.
LEMMA CacheSummon ==
  ASSUME TrackerInv, CacheInv, ~Resummon, NEW u \in Units, Summon(u)
  PROVE  CacheInv' /\ \A v \in Units : PlacesKept(v) /\ (Listed(v) => Listed(v)')
<1>1. TrackerInv' /\ AdvancesKept
  BY SummonKeeps
<1>2. active' = active /\ expires' = expires /\ minExpires' = minExpires
  BY DEF Summon, auraVars
<1>3. CASE u \in Pets
  <2>1. /\ ~removed /\ listed < Capacity /\ listed' = listed + 1
        /\ trackers' = [trackers EXCEPT ![listed + 1] = u]
        /\ minTracker' = Earlier(minTracker, minExpires[u])
    BY <1>3 DEF Summon
  <2>2. /\ listed \in 0..Capacity /\ Capacity \in Nat /\ trackers \in [1..Capacity -> Units \cup {Nil}]
        /\ minTracker \in Nat /\ minExpires \in [Units -> Nat]
    BY TrackerAssumption DEF TrackerInv, RestTypes
  <2>3. \A j \in 1..Capacity : trackers'[j] = IF j = listed + 1 THEN u ELSE trackers[j]
    BY <2>1, <2>2
  <2>4. minTracker' <= minTracker /\ minTracker' <= minExpires[u] /\ minTracker' \in Nat
    BY <2>1, <2>2 DEF Earlier
  <2>5. ASSUME NEW v \in Units PROVE PlacesKept(v)
    <3>1. ASSUME NEW f \in 1..Len(stack), IsAdvance(f), NEW j \in 1..stack[f].size
          PROVE  trackers'[j] = trackers[j]
      <4>1. stack[f].size \in 0..Capacity
        BY <3>1, TopFacts, FrameFacts DEF TrackerInv, StackInv, IsAdvance
      <4>2. stack[f].size <= listed
        BY <2>1, <3>1 DEF TrackerInv, WalkInv
      <4> QED BY <2>2, <2>3, <4>1, <4>2
    <3> QED BY <3>1 DEF PlacesKept
  <2>6. ASSUME NEW v \in Units, Listed(v) PROVE Listed(v)'
    <3>1. PICK j \in 1..listed : trackers[j] = v
      BY <2>6 DEF Listed
    <3>2. j \in 1..listed' /\ trackers'[j] = v
      BY <2>1, <2>2, <2>3, <3>1
    <3> QED BY <3>2 DEF Listed
  <2>7. ASSUME NEW v \in Units, Listed(v)', v # u PROVE Listed(v)
    <3>1. PICK j \in 1..listed' : trackers'[j] = v
      BY <2>7 DEF Listed
    <3>2. j \in 1..listed /\ trackers[j] = v
      BY <2>1, <2>2, <2>3, <2>7, <3>1
    <3> QED BY <3>2 DEF Listed
  <2>8. minTracker' <= Never
    BY <2>2, <2>4, TrackerAssumption DEF CacheInv
  <2>9. \A b \in Auras \ Permanent : minExpires'[HomeOf(b)] <= minExpires[HomeOf(b)]
    BY <1>2, <2>2, TrackerAssumption
  <2>10. \A v \in Units : minTracker <= minExpires[v] => minTracker' <= minExpires'[v]
    BY <1>2, <2>2, <2>4
  <2>11. minTracker' <= minExpires'[u]
    BY <1>2, <2>4
  <2>12. CacheInv'
    BY <1>1, <1>2, <2>5, <2>7, <2>8, <2>9, <2>10, <2>11, CacheHolds
  <2> QED BY <2>5, <2>6, <2>12
<1>4. CASE u \notin Pets
  <2>1. UNCHANGED <<trackers, listed, minTracker>>
    BY <1>4 DEF Summon
  <2>2. CacheInv'
    BY <1>1, <1>2, <2>1, CacheSame
  <2> QED BY <2>1, <2>2, PlacesSame DEF Listed
<1> QED BY <1>3, <1>4

\* A pet's tracker leaves the list: its cache says that nothing is left to expire.
LEMMA CacheDelist ==
  ASSUME TrackerInv, CacheInv, ExpireAllEnds
  PROVE  CacheInv' /\ \A v \in Units \ Pets : PlacesKept(v) /\ (Listed(v) => Listed(v)')
<1> DEFINE u == Frame.unit
<1>1. TrackerInv' /\ AdvancesKept
  BY ExpireAllEndsKeeps
<1>2. /\ Frame.type = "expireAll" /\ Expiring(u) = <<>> /\ Delist(u)
      /\ minExpires' = [minExpires EXCEPT ![u] = Never]
      /\ UNCHANGED <<auraVars, minTracker>>
  BY DEF ExpireAllEnds
<1>3. u \in Units
  BY <1>2, TopFacts, FrameFacts DEF TrackerInv, StackInv
<1> HIDE DEF u
<1>4. /\ \A j \in 1..Capacity : trackers[j] # u => trackers'[j] = trackers[j]
      /\ \A v \in Units : Listed(v)' => Listed(v)
      /\ \A v \in Units : v # u \/ u \notin Pets => (Listed(v) => Listed(v)')
  BY <1>2, <1>3, DelistFacts
<1>5. /\ minExpires'[u] = Never /\ minTracker' = minTracker /\ active' = active /\ expires' = expires
      /\ \A v \in Units : v # u => minExpires'[v] = minExpires[v]
      /\ minExpires \in [Units -> Nat]
  BY <1>2, <1>3 DEF TrackerInv, RestTypes, auraVars
<1>6. \A b \in Auras \ Permanent : active[b] => HomeOf(b) # u
  <2>1. Len(Expiring(u)) = 0
    BY <1>2
  <2>2. 1..0 = {}
    OBVIOUS
  <2> QED BY <1>3, <2>1, <2>2, ExpiringFacts DEF TrackerInv
<1>7. ASSUME NEW v \in Units, v # u PROVE PlacesKept(v)
  <2>1. ASSUME NEW f \in 1..Len(stack), IsAdvance(f), NEW j \in 1..stack[f].size, trackers[j] = v
        PROVE  trackers'[j] = v
    <3>1. stack[f].size \in 0..Capacity /\ Capacity \in Nat
      BY <2>1, TopFacts, FrameFacts, TrackerAssumption DEF TrackerInv, StackInv, IsAdvance
    <3> QED BY <1>4, <1>7, <2>1, <3>1
  <2> QED BY <2>1 DEF PlacesKept
<1>8. ASSUME NEW b \in Auras \ Permanent, active'[b]
      PROVE  /\ active[b] /\ expires'[b] = expires[b]
             /\ minExpires'[HomeOf(b)] <= minExpires[HomeOf(b)]
  <2>1. HomeOf(b) \in Units /\ active[b]
    BY <1>5, <1>8, TrackerAssumption
  <2>2. HomeOf(b) # u
    BY <1>6, <2>1
  <2>3. minExpires'[HomeOf(b)] = minExpires[HomeOf(b)] /\ minExpires[HomeOf(b)] \in Nat
    BY <1>5, <2>1, <2>2
  <2> QED BY <1>5, <2>1, <2>3
<1>9. \A v \in Units : Listed(v)' =>
         \/ minTracker' <= minExpires'[v]
         \/ /\ Listed(v) /\ PlacesKept(v)
            /\ minTracker <= minExpires[v] => minTracker' <= minExpires'[v]
  BY <1>4, <1>5, <1>7 DEF CacheInv
<1>10. minTracker' <= Never
  BY <1>5 DEF CacheInv
<1>11. CacheInv'
  BY <1>1, <1>8, <1>9, <1>10, CacheHolds
<1>12. ASSUME u \notin Pets, NEW v \in Units PROVE PlacesKept(v)
  <2>1. trackers' = trackers
    BY <1>2, <1>12 DEF Delist
  <2> QED BY <2>1, PlacesSame
<1> QED BY <1>4, <1>7, <1>11, <1>12

\* At the bottom no walk comes to any place.
LEMMA BottomPlaces == ASSUME TrackerInv, Len(stack) = 1, NEW u PROVE PlacesKept(u) /\ ~StillWalked(u) /\ ~Scanned(u)
BY BottomFacts DEF TrackerInv, PlacesKept, StillWalked, Scanned, IsAdvance

\* The tracker of the unit that was reset before is listed.
LEMMA CacheSettled ==
  ASSUME TrackerInv, CacheInv, Len(stack) = 1, listed < Capacity, turn <= Len(ResetOrder), Settled
  PROVE  /\ minTracker' <= Never
         /\ \A v \in Units : Listed(v)' => minTracker' <= minExpires[v]
<1>1. /\ minTracker' \in Nat /\ minTracker' <= minTracker
      /\ \A v \in Units : Listed(v)' => Listed(v) \/ minTracker' <= minExpires[v]
  BY SettledFacts
<1>2. minTracker \in Nat /\ minExpires \in [Units -> Nat] /\ Never \in Nat
  BY TrackerAssumption DEF TrackerInv, RestTypes
<1>3. \A v \in Units : Listed(v) => minTracker <= minExpires[v]
  BY BottomPlaces DEF CacheInv
<1>4. minTracker' <= Never
  BY <1>1, <1>2 DEF CacheInv
<1>5. \A v \in Units : Listed(v)' => minTracker' <= minExpires[v]
  BY <1>1, <1>2, <1>3
<1> QED BY <1>4, <1>5

\* A unit is reset: none of its auras is active to have a cache that is late.
LEMMA CacheReset == ASSUME TrackerInv, CacheInv, ResetUnit PROVE CacheInv'
<1> DEFINE u == ResetOrder[turn + 1]
<1>1. TrackerInv' /\ AdvancesKept /\ \A a \in Auras : active[a] => HomeOf(a) # u
  BY ResetUnitKeeps
<1>2. /\ Len(stack) = 1 /\ listed < Capacity /\ turn < Len(ResetOrder) /\ Settled
      /\ minExpires' = [minExpires EXCEPT ![u] = Never] /\ active' = active /\ expires' = expires
  BY DEF ResetUnit
<1> HIDE DEF u
<1>3. turn <= Len(ResetOrder)
  BY <1>2, TrackerAssumption DEF TrackerInv, RestTypes
<1>4. minTracker' <= Never /\ \A v \in Units : Listed(v)' => minTracker' <= minExpires[v]
  BY <1>2, <1>3, CacheSettled
<1>5. \A v \in Units : minExpires'[v] = IF v = u THEN Never ELSE minExpires[v]
  BY <1>2 DEF TrackerInv, RestTypes
<1>6. \A v \in Units : Listed(v)' => minTracker' <= minExpires'[v]
  BY <1>4, <1>5
<1>7. ASSUME NEW b \in Auras \ Permanent, active'[b]
      PROVE  /\ active[b] /\ expires'[b] = expires[b]
             /\ minExpires'[HomeOf(b)] <= minExpires[HomeOf(b)]
  <2>1. HomeOf(b) \in Units /\ active[b] /\ HomeOf(b) # u
    BY <1>1, <1>2, <1>7, TrackerAssumption
  <2>2. minExpires[HomeOf(b)] \in Nat
    BY <2>1 DEF TrackerInv, RestTypes
  <2> QED BY <1>2, <1>5, <2>1, <2>2
<1> QED BY <1>1, <1>4, <1>6, <1>7, CacheHolds

\* The last unit that was reset is listed, and the iteration begins.
LEMMA CacheResetsEnd == ASSUME TrackerInv, CacheInv, ResetsEnd PROVE CacheInv'
<1>1. TrackerInv' /\ AdvancesKept
  BY ResetsEndKeeps
<1>2. /\ Len(stack) = 1 /\ listed < Capacity /\ turn = Len(ResetOrder) /\ Settled
      /\ minExpires' = minExpires /\ active' = active /\ expires' = expires
  BY DEF ResetsEnd, auraVars
<1>3. turn <= Len(ResetOrder)
  BY <1>2, TrackerAssumption
<1>4. minTracker' <= Never /\ \A v \in Units : Listed(v)' => minTracker' <= minExpires'[v]
  BY <1>2, <1>3, CacheSettled
<1>5. ASSUME NEW b \in Auras \ Permanent, active'[b]
      PROVE  /\ active[b] /\ expires'[b] = expires[b]
             /\ minExpires'[HomeOf(b)] <= minExpires[HomeOf(b)]
  <2>1. minExpires[HomeOf(b)] \in Nat
    BY TrackerAssumption DEF TrackerInv, RestTypes
  <2> QED BY <1>2, <1>5, <2>1
<1> QED BY <1>1, <1>4, <1>5, CacheHolds

\* The next iteration starts with nothing listed and nothing active.
LEMMA CacheNextIteration == ASSUME TrackerInv, CacheInv, NextIteration PROVE CacheInv'
<1>1. \A a \in Auras : ~active'[a]
  BY NextIterationKeeps
<1>2. listed' = 0 /\ minTracker' = Never /\ Never \in Nat
  BY TrackerAssumption DEF NextIteration
<1>3. \A u : ~Listed(u)'
  BY <1>2 DEF Listed
<1> QED BY <1>1, <1>2, <1>3 DEF CacheInv

\* The clock moves: a walk that begins has every listed cache to take in.
LEMMA CacheAdvance == ASSUME TrackerInv, CacheInv, NEW t \in 1..Horizon, Advance(t) PROVE CacheInv'
<1>1. UNCHANGED <<active, expires, minExpires, trackers, listed>> /\ Len(stack) = 1
  BY DEF Advance, auraVars
<1>2. CASE t >= minTracker
  <2>1. /\ minTracker' = Never /\ Never \in Nat /\ \A u : Listed(u) => StillWalked(u)'
        /\ \A u : ~Scanned(u)
    BY <1>2, WalkBegins, TrackerAssumption
  <2> QED BY <1>1, <2>1 DEF CacheInv, Listed
<1>3. CASE ~(t >= minTracker)
  <2>1. UNCHANGED <<minTracker, stack, sendVars>>
    BY <1>3 DEF Advance
  <2>2. TrackerInv' /\ AdvancesKept
    BY <2>1, AdvanceKeeps, StackSame DEF TrackerInv
  <2> QED BY <1>1, <2>1, <2>2, CacheSame
<1> QED BY <1>2, <1>3

\* A tracker with nothing to expire reports its cache.
LEMMA CachePasses == ASSUME TrackerInv, CacheInv, TrackerPasses PROVE CacheInv'
<1>1. /\ Frame.type = "advance" /\ Frame.next <= Frame.size /\ ~Frame.calling
      /\ minTracker' = Earlier(minTracker, minExpires[Walked])
      /\ UNCHANGED <<active, expires, minExpires, trackers, listed>>
  BY DEF TrackerPasses, auraVars
<1>2. /\ \A u : StillWalked(u) => StillWalked(u)' \/ u = Walked
  BY <1>1, PassesKeeps, OnwardWalk
<1>3. \A u : ~Scanned(u)
  BY <1>1, WalkNow
<1>4. Walked \in Units
  BY <1>1, WalkedFacts
<1>5. minTracker \in Nat /\ minExpires \in [Units -> Nat] /\ Never \in Nat
  BY TrackerAssumption DEF TrackerInv, RestTypes
<1>6. minTracker' \in Nat /\ minTracker' <= minTracker /\ minTracker' <= minExpires[Walked]
  BY <1>1, <1>4, <1>5 DEF Earlier
<1>7. minTracker' <= Never
  BY <1>5, <1>6 DEF CacheInv
<1>8. ASSUME NEW u \in Units, Listed(u)' PROVE StillWalked(u)' \/ minTracker' <= minExpires'[u]
  <2>1. Listed(u)
    BY <1>1, <1>8 DEF Listed
  <2>2. StillWalked(u) \/ minTracker <= minExpires[u]
    BY <2>1 DEF CacheInv
  <2> QED BY <1>1, <1>2, <1>5, <1>6, <2>2
<1> QED BY <1>1, <1>3, <1>7, <1>8 DEF CacheInv

\* An aura of the tracker ends: its cache is behind until the scan is taken up again.
LEMMA CacheExpires == ASSUME TrackerInv, CacheInv, AuraExpires PROVE CacheInv'
<1>1. /\ Scans /\ trackers' = trackers /\ listed' = listed /\ minTracker' = minTracker
  BY DEF AuraExpires, simVars
<1>2. Frame.type = "advance" /\ Frame.next <= Frame.size
  BY <1>1 DEF Scans
<1> DEFINE w == Walked
<1>3. /\ \A u : u = w => Scanned(u)' /\ StillWalked(u)'
      /\ \A u : Scanned(u) => u = w
      /\ \A u : StillWalked(u) => StillWalked(u)'
  BY <1>1, <1>2, AuraExpiresKeeps, ScanningWalk
<1>4. PICK a \in Auras : active[a] /\ Fade(a)
  BY AuraExpiresKeeps
<1>5. \A b \in Auras : /\ active'[b] = (active[b] /\ b # a)
                       /\ expires'[b] = IF b = a THEN 0 ELSE expires[b]
  BY <1>4, FadeKeeps DEF TrackerInv
<1>6. \A u \in Units : u # w => minExpires'[u] = minExpires[u]
  BY DEF AuraExpires, TrackerInv, RestTypes
<1> HIDE DEF w
<1>7. ASSUME NEW b \in Auras \ Permanent, active'[b]
      PROVE  Scanned(HomeOf(b))' \/ minExpires'[HomeOf(b)] <= expires'[b]
  <2>1. active[b] /\ b # a /\ HomeOf(b) \in Units
    BY <1>5, <1>7, TrackerAssumption
  <2>2. Scanned(HomeOf(b)) \/ minExpires[HomeOf(b)] <= expires[b]
    BY <2>1 DEF CacheInv
  <2>3. expires'[b] = expires[b]
    BY <1>5, <2>1
  <2>4. CASE HomeOf(b) = w
    BY <1>3, <2>4
  <2>5. CASE HomeOf(b) # w
    BY <1>3, <1>6, <2>1, <2>2, <2>3, <2>5
  <2> QED BY <2>4, <2>5
<1>8. ASSUME NEW u \in Units, Listed(u)' PROVE StillWalked(u)' \/ minTracker' <= minExpires'[u]
  <2>1. Listed(u)
    BY <1>1, <1>8 DEF Listed
  <2>2. StillWalked(u) \/ minTracker <= minExpires[u]
    BY <2>1 DEF CacheInv
  <2> QED BY <1>1, <1>3, <1>6, <2>2
<1>9. minTracker' <= Never
  BY <1>1 DEF CacheInv
<1> QED BY <1>7, <1>8, <1>9 DEF CacheInv

\* The scan ends: the cache is the list's earliest end, and is reported.
LEMMA CacheScanned == ASSUME TrackerInv, CacheInv, ScanEnds PROVE CacheInv'
<1>1. /\ Scans /\ UNCHANGED <<active, expires, list, trackers, listed>>
  BY DEF ScanEnds, auraVars
<1>2. Frame.type = "advance" /\ Frame.next <= Frame.size
  BY <1>1 DEF Scans
<1> DEFINE w == Walked
           n == Len(Expiring(w))
<1>3. /\ \A u : ~Scanned(u)' /\ (Scanned(u) => u = w)
      /\ \A u : StillWalked(u) => StillWalked(u)' \/ u = w
  BY <1>1, <1>2, ScanEndsKeeps, OnwardWalk
<1>4. PICK m : /\ IsEarliest(m, ExpiresOf(w, n))
               /\ minExpires' = [minExpires EXCEPT ![w] = m]
               /\ minTracker' = Earlier(minTracker, m)
  BY DEF ScanEnds
<1>5. w \in Units
  BY <1>2, WalkedFacts
<1>6. n \in 0..n
  BY <1>5, ExpiringFacts DEF TrackerInv
<1> HIDE DEF w
<1>7. m \in Nat /\ m <= Never /\ \A i \in 1..n : m <= expires[Expiring(w)[i]]
  BY <1>4, <1>5, <1>6, EarliestFacts
<1>8. minTracker \in Nat /\ minExpires \in [Units -> Nat] /\ Never \in Nat
  BY TrackerAssumption DEF TrackerInv, RestTypes
<1>9. /\ minTracker' \in Nat /\ minTracker' <= minTracker /\ minTracker' <= m
      /\ \A u \in Units : minExpires'[u] = IF u = w THEN m ELSE minExpires[u]
  BY <1>4, <1>7, <1>8 DEF Earlier
<1>10. ASSUME NEW b \in Auras \ Permanent, active'[b]
       PROVE  minExpires'[HomeOf(b)] <= expires'[b]
  <2>1. active[b] /\ HomeOf(b) \in Units /\ expires'[b] = expires[b]
    BY <1>1, <1>10, TrackerAssumption
  <2>2. CASE HomeOf(b) = w
    <3>1. \E i \in 1..n : Expiring(w)[i] = b
      BY <1>5, <2>1, <2>2, ExpiringFacts DEF TrackerInv
    <3> QED BY <1>7, <1>9, <2>1, <2>2, <3>1
  <2>3. CASE HomeOf(b) # w
    BY <1>3, <1>9, <2>1, <2>3 DEF CacheInv
  <2> QED BY <2>2, <2>3
<1>11. ASSUME NEW u \in Units, Listed(u)' PROVE StillWalked(u)' \/ minTracker' <= minExpires'[u]
  <2>1. Listed(u)
    BY <1>1, <1>11 DEF Listed
  <2>2. StillWalked(u) \/ minTracker <= minExpires[u]
    BY <2>1 DEF CacheInv
  <2> QED BY <1>3, <1>7, <1>8, <1>9, <2>2
<1>12. minTracker' <= Never
  BY <1>7, <1>8, <1>9
<1> QED BY <1>10, <1>11, <1>12 DEF CacheInv

\* When the walk ends no cache is left out.
LEMMA CacheWalkEnds == ASSUME TrackerInv, CacheInv, AdvanceEnds PROVE CacheInv'
<1>1. UNCHANGED <<active, expires, minExpires, trackers, listed, minTracker>>
  BY DEF AdvanceEnds, auraVars
<1>2. \A u : ~Scanned(u) /\ ~StillWalked(u)
  BY WalkOver
<1> QED BY <1>1, <1>2 DEF CacheInv, Listed

\* An aura that a step outside the walk ends, expireAll's first one among them.
LEMMA FadeSteps ==
  ASSUME TrackerInv, (\E a \in Auras : Deactivate(a)) \/ ExpireAllStep \/ FinishAura
  PROVE  /\ UNCHANGED <<now, pc, turn, minExpires, simVars>>
         /\ \E a \in Auras : active[a] /\ Fade(a)
<1>1. CASE \E a \in Auras : Deactivate(a)
  BY <1>1 DEF Deactivate, Call, runVars
<1>2. CASE ExpireAllStep
  <2> DEFINE q == Expiring(Frame.unit)
  <2>1. /\ UNCHANGED <<runVars, minExpires, simVars>> /\ Frame.type = "expireAll" /\ q # <<>> /\ Fade(q[1])
    BY <1>2 DEF ExpireAllStep
  <2>2. Frame.unit \in Units
    BY <2>1, TopFacts, FrameFacts DEF TrackerInv, StackInv
  <2>3. q \in Seq(Auras) /\ \A i \in 1..Len(q) : q[i] \in Auras /\ active[q[i]]
    BY <2>2, ExpiringFacts DEF TrackerInv
  <2> HIDE DEF q
  <2>4. 1 \in 1..Len(q)
    BY <2>1, <2>3
  <2> QED BY <2>1, <2>3, <2>4 DEF runVars
<1>3. CASE FinishAura
  BY <1>3 DEF FinishAura, runVars
<1> QED BY <1>1, <1>2, <1>3

\* Steps outside the walk that change no aura and list no tracker.
IdleStep ==
    \/ \E u \in Units, e \in Events : Fire(u, e)
    \/ \E u \in Pets \cup Targets : Dismiss(u)
    \/ HearNext \/ EventEnds \/ FinishBegins \/ FinishUnit

\* They leave what the caches are about as it is.
LEMMA IdleKeeps ==
  ASSUME IdleStep
  PROVE  /\ UNCHANGED <<active, expires, minExpires, trackers, listed, minTracker>>
         /\ ~FinishBegins /\ ~FinishUnit => UNCHANGED <<now, pc, turn>>
BY DEF IdleStep, Fire, Dismiss, HearNext, EventEnds, FinishBegins, FinishUnit, Call, runVars, auraVars, simVars

\* The steps of the system, as the two invariants tell them apart.
LEMMA StepKinds ==
  ASSUME Next
  PROVE  \/ \E a \in Auras, d \in Durations : Activate(a, d)
         \/ (\E a \in Auras : Deactivate(a)) \/ ExpireAllStep \/ FinishAura
         \/ IdleStep
         \/ \E u \in Units : Summon(u)
         \/ ExpireAllEnds
         \/ ResetUnit \/ ResetsEnd \/ NextIteration
         \/ TrackerPasses \/ AuraExpires \/ ScanEnds \/ AdvanceEnds
         \/ \E t \in 1..Horizon : Advance(t)
BY DEF Next, ClassCode, LoopStep, IdleStep

\* CacheInv is inductive, given TrackerInv.
LEMMA CacheStep == ASSUME ~Resummon, TrackerInv, CacheInv, [Next]_vars PROVE CacheInv'
<1>1. TrackerInv'
  BY TrackerStep
<1>2. CASE UNCHANGED vars
  BY <1>2 DEF vars, runVars, auraVars, simVars, CacheInv, Scanned, StillWalked, Listed, IsAdvance
<1>3. CASE Next
  <2>1. CASE (\E a \in Auras : Deactivate(a)) \/ ExpireAllStep \/ FinishAura
    <3>1. AdvancesKept
      BY <2>1, OtherKeeps DEF ClassCode
    <3>2. UNCHANGED <<minExpires, simVars>> /\ \E a \in Auras : active[a] /\ Fade(a)
      BY <2>1, FadeSteps
    <3> QED BY <1>1, <3>1, <3>2, CacheFade
  <2>2. CASE IdleStep
    <3>1. AdvancesKept
      BY <2>2, OtherKeeps DEF ClassCode, IdleStep
    <3> QED BY <1>1, <2>2, <3>1, IdleKeeps, CacheSame
  <2> QED BY <1>3, <2>1, <2>2, StepKinds, CacheActivate, CacheSummon, CacheDelist, CacheReset, CacheResetsEnd,
             CacheNextIteration, CachePasses, CacheExpires, CacheScanned, CacheWalkEnds, CacheAdvance
<1> QED BY <1>2, <1>3

\* Neither cache is ever later than the end of an aura it stands for, however
\* callbacks gain, prolong and end auras and pets come and go ("might be stale (too
\* low)", aura.go), as long as no class code of one advance dismisses a pet and then
\* summons one.
THEOREM CacheCorrect == ASSUME ~Resummon PROVE Spec => []CacheNeverLate
<1>1. ASSUME Init PROVE CacheInv
  <2>1. listed = 0 /\ minTracker = Never /\ active = [a \in Auras |-> FALSE]
    BY <1>1 DEF Init
  <2> QED BY <2>1, TrackerAssumption DEF CacheInv, Listed
<1>2. ASSUME TrackerInv, CacheInv, [Next]_vars PROVE CacheInv'
  BY <1>2, CacheStep
<1>3. ASSUME TrackerInv, CacheInv PROVE CacheNeverLate
  <2> SUFFICES ASSUME NEW u \in Units, ~StillWalked(u)
               PROVE  /\ \A i \in 1..Len(Expiring(u)) : minExpires[u] <= expires[Expiring(u)[i]]
                      /\ Listed(u) => minTracker <= minExpires[u]
    BY DEF CacheNeverLate
  <2>1. ~Scanned(u)
    BY DEF Scanned, StillWalked, IsAdvance
  <2>2. \A i \in 1..Len(Expiring(u)) : minExpires[u] <= expires[Expiring(u)[i]]
    BY <1>3, <2>1, ExpiringFacts DEF TrackerInv, CacheInv
  <2> QED BY <1>3, <2>2 DEF CacheInv
<1> QED BY <1>1, <1>2, <1>3, TrackerInvariant, PTL DEF Spec

-----------------------------------------------------------------------------
(* No advance leaves an aura behind *)

\* Steps outside the walk: what they gain or prolong ends later.
LEMMA DueHolds ==
  ASSUME TrackerInv, DueInv, AdvancesKept, UNCHANGED <<now, pc, turn>>,
         \A v \in Units \ Pets : PlacesKept(v) /\ (Listed(v) => Listed(v)'),
         \A b \in Auras \ Permanent : active'[b] => (active[b] /\ expires'[b] = expires[b]) \/ expires'[b] > now
  PROVE  DueInv'
<1>1. pc' = "resetting" => \A i \in 1..(turn' - 1) : ResetOrder[i] \notin Pets => Listed(ResetOrder[i])'
  <2> SUFFICES ASSUME pc = "resetting", NEW i \in 1..(turn - 1), ResetOrder[i] \notin Pets
               PROVE  Listed(ResetOrder[i])'
    OBVIOUS
  <2>1. Listed(ResetOrder[i])
    BY DEF DueInv
  <2>2. ResetOrder[i] \in Units
    <3>1. turn \in Nat /\ turn <= Len(ResetOrder) /\ ResetOrder \in Seq(Units)
      BY TrackerAssumption DEF TrackerInv, RestTypes, QuietInv
    <3>2. i \in 1..Len(ResetOrder)
      BY <3>1
    <3> QED BY <3>1, <3>2
  <2> QED BY <2>1, <2>2
<1>2. pc' = "running" => \A v \in Units \ Pets : Listed(v)'
  BY DEF DueInv
<1>3. ASSUME \E f \in 1..Len(stack') : IsAdvance(f)',
             NEW b \in Auras \ Permanent, active'[b], HomeOf(b) \notin Pets
      PROVE  StillWalked(HomeOf(b))' \/ expires'[b] > now'
  <2>1. HomeOf(b) \in Units \ Pets
    BY <1>3, TrackerAssumption
  <2>2. \E f \in 1..Len(stack) : IsAdvance(f)
    BY <1>3, <2>1, WalkKept
  <2>3. CASE active[b] /\ expires'[b] = expires[b]
    <3>1. StillWalked(HomeOf(b)) \/ expires[b] > now
      BY <1>3, <2>2, <2>3 DEF DueInv
    <3>2. StillWalked(HomeOf(b)) => StillWalked(HomeOf(b))'
      BY <2>1, WalkKept
    <3> QED BY <2>3, <3>1, <3>2
  <2> QED BY <1>3, <2>3
<1> QED BY <1>1, <1>2, <1>3 DEF DueInv

\* Activate gives an aura an end that is still to come.
LEMMA DueActivate ==
  ASSUME TrackerInv, DueInv, NEW a \in Auras, NEW d \in Durations, Activate(a, d) PROVE DueInv'
<1>1. AdvancesKept
  BY ActivateKeeps
<1>2. /\ UNCHANGED <<now, pc, turn, trackers, listed>>
      /\ expires' = [expires EXCEPT ![a] = End(a, d)]
      /\ IF active[a] THEN active' = active ELSE active' = [active EXCEPT ![a] = TRUE]
  BY DEF Activate, Call, Refresh, runVars
<1>3. a \notin Permanent => End(a, d) > now
  <2>1. d \in Nat /\ d > 0 /\ now \in Nat
    BY TrackerAssumption DEF TrackerInv, RestTypes
  <2> QED BY <2>1 DEF End
<1>4. \A b \in Auras : /\ expires'[b] = IF b = a THEN End(a, d) ELSE expires[b]
                       /\ active'[b] => active[b] \/ b = a
  BY <1>2 DEF TrackerInv, AuraTypes
<1>5. \A v \in Units \ Pets : PlacesKept(v) /\ (Listed(v) => Listed(v)')
  BY <1>2, PlacesSame DEF Listed
<1> QED BY <1>1, <1>2, <1>3, <1>4, <1>5, DueHolds

\* The phases of an iteration: no advance is under way.
LEMMA DueReset == ASSUME TrackerInv, DueInv, ResetUnit \/ ResetsEnd PROVE DueInv'
<1>1. /\ pc = "resetting" /\ Len(stack) = 1 /\ listed < Capacity /\ turn <= Len(ResetOrder) /\ Settled
      /\ turn \in Nat /\ Len(ResetOrder) \in Nat /\ ResetOrder \in Seq(Units)
      /\ (pc' = "resetting" /\ turn' = turn + 1) \/ (pc' = "running" /\ turn = Len(ResetOrder))
  <2>1. turn \in Nat /\ Len(ResetOrder) \in Nat /\ ResetOrder \in Seq(Units)
    BY TrackerAssumption DEF TrackerInv, RestTypes
  <2>2. CASE ResetUnit
    <3>1. /\ pc = "resetting" /\ Len(stack) = 1 /\ listed < Capacity /\ turn < Len(ResetOrder) /\ Settled
          /\ pc' = pc /\ turn' = turn + 1
      BY <2>2 DEF ResetUnit
    <3> QED BY <2>1, <3>1
  <2>3. CASE ResetsEnd
    <3>1. /\ pc = "resetting" /\ Len(stack) = 1 /\ listed < Capacity /\ turn = Len(ResetOrder) /\ Settled
          /\ pc' = "running"
      BY <2>3 DEF ResetsEnd
    <3> QED BY <2>1, <3>1
  <2> QED BY <2>2, <2>3
<1>2. ~\E f \in 1..Len(stack') : IsAdvance(f)'
  <2>1. AdvancesKept
    BY OtherKeeps
  <2> QED BY <1>1, <2>1, BottomFacts DEF TrackerInv, AdvancesKept
<1>3. /\ \A v \in Units : Listed(v) => Listed(v)'
      /\ \A v \in Units \ Pets : turn # 0 /\ ResetOrder[turn] = v => Listed(v)'
  BY <1>1, SettledFacts
<1>4. ASSUME NEW i \in 1..turn, ResetOrder[i] \notin Pets PROVE Listed(ResetOrder[i])'
  <2>1. i \in 1..Len(ResetOrder)
    BY <1>1
  <2>2. ResetOrder[i] \in Units
    BY <1>1, <2>1
  <2>3. i = turn \/ i \in 1..(turn - 1)
    BY <1>1
  <2>4. i \in 1..(turn - 1) => Listed(ResetOrder[i])
    BY <1>1, <1>4 DEF DueInv
  <2>5. turn # 0
    BY <1>1
  <2> QED BY <1>3, <1>4, <2>2, <2>3, <2>4, <2>5
<1>5. CASE pc' = "resetting" /\ turn' = turn + 1
  <2>1. turn' - 1 = turn
    BY <1>1, <1>5
  <2> QED BY <1>2, <1>4, <1>5, <2>1 DEF DueInv
<1>6. CASE pc' = "running" /\ turn = Len(ResetOrder)
  <2>1. ASSUME NEW v \in Units \ Pets PROVE Listed(v)'
    <3>1. PICK i \in 1..Len(ResetOrder) : ResetOrder[i] = v
      BY TrackerAssumption
    <3> QED BY <1>4, <1>6, <3>1
  <2> QED BY <1>2, <1>6, <2>1 DEF DueInv
<1> QED BY <1>1, <1>5, <1>6

\* The iteration is finished, and the next begins with nothing listed.
LEMMA DueFinish == ASSUME TrackerInv, DueInv, FinishBegins \/ FinishUnit \/ NextIteration PROVE DueInv'
<1>1. Len(stack) = 1 /\ (pc' = "finishing" \/ (pc' = "resetting" /\ turn' = 0))
  BY DEF FinishBegins, FinishUnit, NextIteration
<1>2. ~\E f \in 1..Len(stack') : IsAdvance(f)'
  <2>1. AdvancesKept
    BY OtherKeeps
  <2> QED BY <1>1, <2>1, BottomFacts DEF TrackerInv, AdvancesKept
<1>3. turn' = 0 => 1..(turn' - 1) = {}
  OBVIOUS
<1> QED BY <1>1, <1>2, <1>3 DEF DueInv

\* The clock moves: a walk that begins has every tracker that is not a pet's to come to.
LEMMA DueAdvance == ASSUME TrackerInv, DueInv, NEW t \in 1..Horizon, Advance(t) PROVE DueInv'
<1>1. UNCHANGED <<pc, turn, active, expires, trackers, listed>> /\ Len(stack) = 1 /\ pc = "running"
  BY DEF Advance, auraVars
<1>2. pc' = "running" /\ \A v \in Units \ Pets : Listed(v) /\ Listed(v)'
  BY <1>1 DEF DueInv, Listed
<1>3. CASE t >= minTracker
  <2>1. \A b \in Auras : HomeOf(b) \notin Pets => StillWalked(HomeOf(b))'
    BY <1>2, <1>3, WalkBegins, TrackerAssumption
  <2> QED BY <1>1, <1>2, <2>1 DEF DueInv
<1>4. CASE ~(t >= minTracker)
  <2>1. stack' = stack
    BY <1>4 DEF Advance
  <2>2. ~\E f \in 1..Len(stack') : IsAdvance(f)'
    BY <1>1, <2>1, BottomFacts DEF TrackerInv, IsAdvance
  <2> QED BY <1>2, <2>2 DEF DueInv
<1> QED BY <1>3, <1>4

\* The walk leaves a tracker behind with nothing due, or interrupts its scan.
LEMMA DueWalk ==
  ASSUME TrackerInv, CacheInv, DueInv, TrackerPasses \/ AuraExpires \/ ScanEnds PROVE DueInv'
<1> DEFINE w == Walked
<1>1. /\ UNCHANGED <<now, pc, turn, trackers, listed>> /\ Frame.type = "advance" /\ Frame.next <= Frame.size
  BY DEF TrackerPasses, AuraExpires, ScanEnds, Scans, runVars, simVars
<1>2. w \in Units /\ \E f \in 1..Len(stack) : IsAdvance(f)
  <2>1. Frame = stack[Len(stack)] /\ Len(stack) \in 1..Len(stack)
    BY TopFacts DEF TrackerInv, StackInv
  <2> QED BY <1>1, <2>1, WalkedFacts DEF IsAdvance
<1>3. ASSUME NEW b \in Auras \ Permanent, active'[b], HomeOf(b) \notin Pets
      PROVE  StillWalked(HomeOf(b))' \/ expires'[b] > now'
  <2> DEFINE h == HomeOf(b)
  <2>1. h \in Units
    BY TrackerAssumption
  <2>2. active[b] /\ expires'[b] = expires[b]
    <3>1. CASE AuraExpires
      <4>1. PICK a \in Auras : active[a] /\ Fade(a)
        BY <3>1, AuraExpiresKeeps
      <4>2. /\ active'[b] = (active[b] /\ b # a)
            /\ expires'[b] = IF b = a THEN 0 ELSE expires[b]
        BY <4>1, FadeKeeps DEF TrackerInv
      <4>3. active[b] /\ b # a
        BY <1>3, <4>2
      <4> QED BY <4>2, <4>3
    <3>2. CASE TrackerPasses \/ ScanEnds
      BY <1>3, <3>2 DEF TrackerPasses, ScanEnds, auraVars
    <3> QED BY <3>1, <3>2
  <2>3. StillWalked(h) \/ expires[b] > now
    BY <1>2, <1>3, <2>2 DEF DueInv
  <2>4. CASE AuraExpires
    <3>1. StillWalked(h) => StillWalked(h)'
      BY <1>1, <2>4, AuraExpiresKeeps, ScanningWalk
    <3> QED BY <1>1, <2>2, <2>3, <3>1
  <2>5. CASE TrackerPasses \/ ScanEnds
    <3>1. stack' = Retop(Onward(Frame, FALSE))
      BY <2>5, PassesKeeps, ScanEndsKeeps
    <3>2. StillWalked(h) => StillWalked(h)' \/ h = w
      BY <1>1, <3>1, OnwardWalk
    <3>3. h = w => expires[b] > now
      <4>1. CASE TrackerPasses /\ h = w
        <5>1. now < minExpires[h] /\ ~Frame.calling
          BY <4>1 DEF TrackerPasses
        <5>2. minExpires[h] <= expires[b]
          BY <1>1, <1>3, <2>2, <5>1, WalkNow DEF CacheInv
        <5>3. now \in Nat /\ minExpires[h] \in Nat /\ expires[b] \in Nat
          BY <2>1 DEF TrackerInv, RestTypes, AuraTypes
        <5> QED BY <5>1, <5>2, <5>3
      <4>2. CASE ScanEnds /\ h = w
        <5>1. \A i \in 1..Len(Expiring(h)) : ~(expires[Expiring(h)[i]] <= now)
          BY <4>2 DEF ScanEnds, Overdue
        <5>2. \E i \in 1..Len(Expiring(h)) : Expiring(h)[i] = b
          BY <1>3, <2>1, <2>2, ExpiringFacts DEF TrackerInv
        <5>3. now \in Nat /\ expires[b] \in Nat
          BY DEF TrackerInv, RestTypes, AuraTypes
        <5> QED BY <5>1, <5>2, <5>3
      <4> QED BY <2>5, <4>1, <4>2
    <3> QED BY <1>1, <2>2, <2>3, <3>2, <3>3
  <2> QED BY <2>4, <2>5
<1>4. \A v \in Units : Listed(v)' <=> Listed(v)
  BY <1>1 DEF Listed
<1>5. \A v : Listed(v) => Listed(v)'
  BY <1>1 DEF Listed
<1> QED BY <1>1, <1>3, <1>4, <1>5 DEF DueInv

\* DueInv is inductive, given the other two.
LEMMA DueStep == ASSUME ~Resummon, TrackerInv, CacheInv, DueInv, [Next]_vars PROVE DueInv'
<1>1. CASE UNCHANGED vars
  BY <1>1 DEF vars, runVars, auraVars, simVars, DueInv, StillWalked, Listed, IsAdvance
<1>2. CASE Next
  <2>1. CASE (\E a \in Auras : Deactivate(a)) \/ ExpireAllStep \/ FinishAura
    <3>1. AdvancesKept
      BY <2>1, OtherKeeps DEF ClassCode
    <3>2. UNCHANGED <<now, pc, turn, simVars>>
      BY <2>1, FadeSteps
    <3>3. PICK a \in Auras : active[a] /\ Fade(a)
      BY <2>1, FadeSteps
    <3>4. \A b \in Auras : active'[b] => active[b] /\ expires'[b] = expires[b]
      <4>1. \A b \in Auras : /\ active'[b] = (active[b] /\ b # a)
                             /\ expires'[b] = IF b = a THEN 0 ELSE expires[b]
        BY <3>3, FadeKeeps DEF TrackerInv
      <4>2. \A b \in Auras : active'[b] => active[b] /\ b # a
        BY <4>1
      <4> QED BY <4>1, <4>2
    <3>5. \A v \in Units \ Pets : PlacesKept(v) /\ (Listed(v) => Listed(v)')
      BY <3>2, PlacesSame DEF Listed, simVars
    <3> QED BY <3>1, <3>2, <3>4, <3>5, DueHolds
  <2>2. CASE IdleStep /\ ~FinishBegins /\ ~FinishUnit
    <3>1. AdvancesKept
      BY <2>2, OtherKeeps DEF ClassCode, IdleStep
    <3>2. UNCHANGED <<now, pc, turn, active, expires, trackers, listed>>
      BY <2>2, IdleKeeps
    <3>3. \A v \in Units \ Pets : PlacesKept(v) /\ (Listed(v) => Listed(v)')
      BY <3>2, PlacesSame DEF Listed
    <3> QED BY <3>1, <3>2, <3>3, DueHolds
  <2>3. CASE \E u \in Units : Summon(u)
    <3>1. PICK u \in Units : Summon(u)
      BY <2>3
    <3>2. AdvancesKept /\ UNCHANGED <<now, pc, turn, active, expires>>
      BY <3>1, SummonKeeps DEF Summon, Call, runVars, auraVars
    <3>3. \A v \in Units \ Pets : PlacesKept(v) /\ (Listed(v) => Listed(v)')
      BY <3>1, CacheSummon
    <3> QED BY <3>2, <3>3, DueHolds
  <2>4. CASE ExpireAllEnds
    <3>1. AdvancesKept /\ UNCHANGED <<now, pc, turn, active, expires>>
      BY <2>4, ExpireAllEndsKeeps DEF ExpireAllEnds, runVars, auraVars
    <3>2. \A v \in Units \ Pets : PlacesKept(v) /\ (Listed(v) => Listed(v)')
      BY <2>4, CacheDelist
    <3> QED BY <3>1, <3>2, DueHolds
  <2>5. CASE AdvanceEnds
    <3>1. UNCHANGED <<pc, turn, trackers, listed>>
      BY <2>5 DEF AdvanceEnds, runVars
    <3>2. ~\E f \in 1..Len(stack') : IsAdvance(f)'
      BY <2>5, AdvanceEndsKeeps
    <3>3. \A v : Listed(v) => Listed(v)'
      BY <3>1 DEF Listed
    <3> QED BY <3>1, <3>2, <3>3 DEF DueInv
  <2> QED BY <1>2, <2>1, <2>2, <2>3, <2>4, <2>5, StepKinds, DueActivate, DueReset, DueFinish, DueAdvance,
             DueWalk
<1> QED BY <1>1, <1>2

\* When an advance ends, no aura of a unit that is not a pet is past its time,
\* however the callbacks of those that expired ended and prolonged others
\* (Simulation.advance, auraTracker.tryAdvance), under the same assumption.
THEOREM AdvanceCorrect == ASSUME ~Resummon PROVE Spec => AdvanceLeavesNoneOverdue
<1>1. ASSUME Init PROVE CacheInv /\ DueInv
  <2>1. listed = 0 /\ minTracker = Never /\ active = [a \in Auras |-> FALSE] /\ pc = "resetting" /\ turn = 0
    BY <1>1 DEF Init
  <2>2. 1..(turn - 1) = {} /\ Never \in Nat
    BY <2>1, TrackerAssumption
  <2> QED BY <2>1, <2>2 DEF CacheInv, DueInv, Listed
<1>2. ASSUME TrackerInv, CacheInv, DueInv, [Next]_vars PROVE CacheInv' /\ DueInv'
  BY <1>2, CacheStep, DueStep
<1>3. ASSUME TrackerInv, DueInv, AdvanceEnds
      PROVE  \A u \in Units \ Pets : \A i \in 1..Len(Expiring(u)) : expires[Expiring(u)[i]] > now
  <2>1. \E f \in 1..Len(stack) : IsAdvance(f)
    BY <1>3, TopFacts DEF TrackerInv, StackInv, AdvanceEnds, IsAdvance
  <2>2. \A u : ~StillWalked(u)
    BY <1>3, WalkOver
  <2> QED BY <1>3, <2>1, <2>2, ExpiringFacts DEF DueInv, TrackerInv
<1>4. TrackerInv /\ DueInv =>
        [AdvanceEnds => \A u \in Units \ Pets : \A i \in 1..Len(Expiring(u)) : expires[Expiring(u)[i]] > now]_vars
  BY <1>3
<1> QED BY <1>1, <1>2, <1>4, TrackerInvariant, PTL DEF Spec, AdvanceLeavesNoneOverdue

===============================================================================
