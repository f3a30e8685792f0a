----------------------------- MODULE RulesProofs -----------------------------
(***************************************************************************)
(* That rules applied to the same text agree, proved for every text, packet  *)
(* and mount: UTF-8 positions and device names, server addresses, names in   *)
(* DNS packets, lines of the mount table, the configured root.  The walks    *)
(* (DnsName, StoragePath) have inductive invariants; the other parts are     *)
(* functions, and what they compute is proved by induction over numbers.     *)
(***************************************************************************)
EXTENDS WrittenProofs

-----------------------------------------------------------------------------
(* The names in DNS packets.                                                 *)

NameBuffer == packet \in [0 .. PacketLen -> PacketBytes] /\ offset \in 0 .. PacketLen

NameWalk ==
    /\ namePosition \in Nat /\ next \in Nat
    /\ expanded \in 1 .. WireMax /\ hops \in 0 .. HopsMax /\ output \in 0 .. HostMax
    /\ seen \subseteq Name!Positions /\ trail \subseteq Name!Positions
    /\ jumped \in BOOLEAN /\ syntax \in BOOLEAN
    /\ nameResult \in {"walking", "name", "bad"}

(* Before the first pointer the walk is on the name as it is stored, behind *)
(* it the place to go on at is known.                                        *)
NameEnds ==
    /\ nameResult = "walking" =>
          /\ namePosition \in 0 .. PacketLen
          /\ ~jumped => Name!StoredEnd[namePosition] = Name!StoredEnd[offset]
          /\ jumped => next = Name!StoredEnd[offset]
    /\ nameResult = "name" => next = Name!StoredEnd[offset]

NameInv == NameBuffer /\ NameWalk /\ NameEnds

LEMMA NameConstants ==
    /\ PacketLen \in Nat /\ PacketLen > 0 /\ PacketBytes \subseteq 0 .. 255
    /\ HopsMax \in Nat /\ HostMax \in Nat /\ HostMax > 0 /\ WireMax \in Nat /\ WireMax > 0
BY NameAssumption DEF NameAssumption, Name!PacketAssumption, Name!LimitsAssumption

(* The end of a stored name, position by position.                           *)
LEMMA NameEndIs ==
    ASSUME NameBuffer
    PROVE  \A p \in 0 .. PacketLen + 255 :
              Name!StoredEnd[p] =
                 IF p >= PacketLen THEN 0
                 ELSE CASE packet[p] = 0 -> p + 1
                        [] packet[p] >= 192 -> p + 2
                        [] OTHER -> Name!StoredEnd[p + 1 + packet[p]]
<1> DEFINE N == PacketLen + 255
           Stops(p) == p >= PacketLen \/ packet[p] = 0 \/ packet[p] >= 192
           Stop(p) == IF p >= PacketLen THEN 0 ELSE IF packet[p] = 0 THEN p + 1 ELSE p + 2
           prev == [n \in 1 .. N |-> IF Stops(N - n) THEN 0 ELSE n - 1 - packet[N - n]]
           step == [n \in 1 .. N |-> [v \in Nat |-> IF Stops(N - n) THEN Stop(N - n) ELSE v]]
<1>1. N \in Nat /\ PacketLen \in Nat /\ PacketLen <= N
  BY NameConstants
<1>2. \A p \in 0 .. PacketLen : packet[p] \in 0 .. 255
  BY NameConstants DEF NameBuffer
<1>3. \A p \in 0 .. N : ~Stops(p) => p < PacketLen /\ packet[p] \in 1 .. 191
                                     /\ p + 1 + packet[p] \in 0 .. N
  <2> TAKE p \in 0 .. N
  <2> HAVE ~Stops(p)
  <2>1. p < PacketLen /\ packet[p] # 0 /\ ~(packet[p] >= 192)
    BY <1>1
  <2> DEFINE b == packet[p]
  <2>2. b \in 0 .. 255
    BY <1>1, <1>2, <2>1
  <2> HIDE DEF b
  <2>3. b # 0 /\ ~(b >= 192)
    BY <2>1, Zenon DEF b
  <2>4. b \in 1 .. 191 /\ p + 1 + b \in 0 .. N
    BY <1>1, <2>1, <2>2, <2>3
  <2> QED
    BY <2>1, <2>4 DEF b
<1>4. \A p \in 0 .. N : Stop(p) \in Nat
  BY <1>1
<1> HIDE DEF Stops, Stop, N
<1>5. \A n \in 1 .. N : prev[n] \in 0 .. n - 1
  <2> TAKE n \in 1 .. N
  <2>1. N - n \in 0 .. N /\ prev[n] = IF Stops(N - n) THEN 0 ELSE n - 1 - packet[N - n]
    BY <1>1
  <2>2. CASE Stops(N - n)
    BY <1>1, <2>1, <2>2
  <2>3. CASE ~Stops(N - n)
    <3>1. packet[N - n] \in 1 .. 191 /\ (N - n) + 1 + packet[N - n] \in 0 .. N
      BY <1>3, <2>1, <2>3
    <3> DEFINE b == packet[N - n]
    <3> HIDE DEF b
    <3>2. b \in 1 .. 191 /\ (N - n) + 1 + b \in 0 .. N
      BY <3>1 DEF b
    <3>3. n - 1 - b \in 0 .. n - 1
      BY <1>1, <3>2
    <3>4. prev[n] = n - 1 - b
      BY <2>1, <2>3, Zenon DEF b
    <3> QED
      BY <3>3, <3>4
  <2> QED
    BY <2>2, <2>3
<1>6. \A n \in 1 .. N : \A v \in Nat : step[n][v] \in Nat
  <2> TAKE n \in 1 .. N
  <2> TAKE v \in Nat
  <2>1. N - n \in 0 .. N /\ step[n][v] = IF Stops(N - n) THEN Stop(N - n) ELSE v
    BY <1>1
  <2> QED
    BY <1>4, <2>1
<1> HIDE DEF prev, step
<1>7. PICK g : Follows(g, N, Nat, 0, prev, step)
  <2>1. 0 \in Nat
    OBVIOUS
  <2> QED
    BY <1>1, <1>5, <1>6, <2>1, Recursion, Zenon
<1> DEFINE f == [p \in 0 .. N |-> g[N - p]]
           Rule(h, p) == IF p >= PacketLen THEN 0
                         ELSE CASE packet[p] = 0 -> p + 1
                                [] packet[p] >= 192 -> p + 2
                                [] OTHER -> h[p + 1 + packet[p]]
<1>8. \A p \in 0 .. N : f[p] = Rule(f, p)
  <2> TAKE p \in 0 .. N
  <2>1. f[p] = g[N - p] /\ N - p \in 0 .. N
    BY <1>1
  <2>2. CASE p = N
    <3>1. f[p] = g[0]
      BY <1>1, <2>1, <2>2
    <3>2. g[0] = 0
      BY <1>7, Zenon DEF Follows
    <3> HIDE DEF f
    <3>3. p >= PacketLen
      BY <1>1, <2>2
    <3> QED
      BY <3>1, <3>2, <3>3, Zenon
  <2>3. CASE p # N
    <3> DEFINE n == N - p
    <3>1. n \in 1 .. N /\ N - n = p
      BY <1>1, <2>3
    <3>2. g[n] = step[n][g[prev[n]]]
      <4> HIDE DEF n
      <4> QED
        BY <1>7, <3>1, Zenon DEF Follows
    <3>3. g \in [0 .. N -> Nat]
      BY <1>7, Zenon DEF Follows
    <3>4. prev[n] \in 0 .. N
      BY <1>1, <1>5, <3>1
    <3>5. g[prev[n]] \in Nat
      BY <3>3, <3>4
    <3>6. g[n] = IF Stops(p) THEN Stop(p) ELSE g[prev[n]]
      <4> HIDE DEF n
      <4>1. step[n][g[prev[n]]] = IF Stops(N - n) THEN Stop(N - n) ELSE g[prev[n]]
        BY <3>1, <3>5 DEF step
      <4> QED
        BY <3>1, <3>2, <4>1, Zenon
    <3>7. CASE Stops(p)
      <4>1. f[p] = Stop(p)
        BY <2>1, <3>6, <3>7, Zenon
      <4> HIDE DEF f
      <4> QED
        BY <1>1, <1>2, <3>7, <4>1 DEF Stops, Stop
    <3>8. CASE ~Stops(p)
      <4> DEFINE b == packet[p]
                 m == p + 1 + b
      <4>1. m \in 0 .. N /\ b \in 1 .. 191 /\ p < PacketLen
        BY <1>3, <3>8
      <4>2. prev[n] = n - 1 - b
        <5> HIDE DEF n, b
        <5>1. prev[n] = IF Stops(N - n) THEN 0 ELSE n - 1 - packet[N - n]
          BY <3>1 DEF prev
        <5> QED
          BY <3>1, <3>8, <5>1, Zenon DEF b
      <4>3. n - 1 - b = N - m
        BY <1>1, <4>1
      <4> HIDE DEF m
      <4>4. f[m] = g[N - m]
        BY <4>1
      <4> HIDE DEF f, n, b
      <4>5. f[p] = f[m]
        <5>1. f[p] = g[n]
          BY <2>1, Zenon DEF n
        <5>2. g[n] = g[prev[n]]
          BY <3>6, <3>8, Zenon
        <5> QED
          BY <5>1, <5>2, <4>2, <4>3, <4>4, Zenon
      <4>6. ~(p >= PacketLen) /\ packet[p] # 0 /\ ~(packet[p] >= 192)
        BY <3>8 DEF Stops
      <4>7. f[p] = f[p + 1 + packet[p]]
        BY <4>5, Zenon DEF m, b
      <4> QED
        BY <4>6, <4>7
    <3> QED
      BY <3>7, <3>8
  <2> QED
    BY <2>2, <2>3
<1>9. f = [p \in 0 .. N |-> Rule(f, p)]
  <2> DEFINE h == [p \in 0 .. N |-> Rule(f, p)]
  <2>1. \A p \in 0 .. N : f[p] = h[p]
    BY <1>8, Zenon
  <2>2. f = [p \in 0 .. N |-> f[p]]
    OBVIOUS
  <2> HIDE DEF f, Rule
  <2>3. h = [p \in 0 .. N |-> h[p]]
    OBVIOUS
  <2> HIDE DEF h
  <2>4. f = h
    BY <2>1, <2>2, <2>3
  <2> QED
    BY <2>4, Zenon DEF h
<1> HIDE DEF f
<1>10. \E h : h = [p \in 0 .. N |-> Rule(h, p)]
  BY <1>9, Zenon
<1> DEFINE E == CHOOSE h : h = [p \in 0 .. N |-> Rule(h, p)]
<1>11. E = [p \in 0 .. N |-> Rule(E, p)]
  BY <1>10, Zenon
<1>12. Name!StoredEnd = E
  BY Zenon DEF Name!StoredEnd, N
<1> HIDE DEF E
<1>13. \A p \in 0 .. N : E[p] = Rule(E, p)
  <2> TAKE p \in 0 .. N
  <2> DEFINE h == [q \in 0 .. N |-> Rule(E, q)]
  <2>1. h[p] = Rule(E, p)
    BY Zenon
  <2> HIDE DEF h, Rule
  <2> QED
    BY <1>11, <2>1, Zenon DEF h
<1> QED
  BY <1>12, <1>13, Zenon DEF N

LEMMA NameEndsStay == ASSUME packet' = packet PROVE Name!StoredEnd' = Name!StoredEnd
BY SMT DEF Name!StoredEnd

LEMMA NameInitially == ASSUME Name!Init PROVE NameInv
<1>1. /\ packet \in [0 .. PacketLen -> PacketBytes] /\ offset \in 0 .. PacketLen
      /\ namePosition = offset /\ expanded = 1 /\ hops = 0 /\ seen = {} /\ jumped = FALSE
      /\ next = offset /\ syntax = TRUE /\ output = 0 /\ trail = {}
      /\ nameResult = IF offset >= PacketLen THEN "bad" ELSE "walking"
  BY Zenon DEF Name!Init, Name!Buffer
<1>2. NameBuffer
  BY <1>1, Zenon DEF NameBuffer
<1>3. NameWalk
  <2>1. jumped \in BOOLEAN /\ syntax \in BOOLEAN
    BY <1>1, Zenon
  <2>2. /\ namePosition \in Nat /\ next \in Nat
        /\ expanded \in 1 .. WireMax /\ hops \in 0 .. HopsMax /\ output \in 0 .. HostMax
        /\ seen \subseteq Name!Positions /\ trail \subseteq Name!Positions
        /\ nameResult \in {"walking", "name", "bad"}
    BY <1>1, NameConstants
  <2> QED
    BY <2>1, <2>2, Zenon DEF NameWalk
<1>4. NameEnds
  <2>1. nameResult # "name"
    BY <1>1
  <2>2. ~jumped /\ namePosition = offset /\ namePosition \in 0 .. PacketLen
    BY <1>1, Zenon
  <2> QED
    BY <2>1, <2>2, Zenon DEF NameEnds
<1> QED
  BY <1>2, <1>3, <1>4, Zenon DEF NameInv

LEMMA NameStep == ASSUME NameInv, Name!Next PROVE NameInv'
<1>0. NameBuffer /\ NameWalk /\ NameEnds
  BY Zenon DEF NameInv
<1>1. nameResult = "walking" /\ packet' = packet /\ offset' = offset
  BY Zenon DEF Name!Next, Name!RunOff, Name!Reserved, Name!Pointer, Name!End, Name!Label,
               Name!Walking
<1>2. NameBuffer'
  BY <1>0, <1>1, Zenon DEF NameBuffer
<1>3. Name!StoredEnd' = Name!StoredEnd
  BY <1>1, NameEndsStay, Zenon
<1> DEFINE E == Name!StoredEnd
           p == namePosition
           b == packet[p]
<1>4. /\ p \in 0 .. PacketLen /\ (~jumped => E[p] = E[offset])
      /\ (jumped => next = E[offset])
  BY <1>0, <1>1, Zenon DEF NameEnds
<1>5. p < PacketLen => p \in Name!Positions /\ b \in 0 .. 255
  <2>1. p \in 0 .. PacketLen /\ (p < PacketLen => p \in 0 .. PacketLen - 1)
    BY <1>4, NameConstants
  <2> HIDE DEF p
  <2>2. b \in PacketBytes
    BY <1>0, <2>1 DEF NameBuffer
  <2>3. b \in 0 .. 255
    BY <2>2, NameConstants
  <2> QED
    BY <2>1, <2>3, Zenon DEF Name!Positions
<1>6. ASSUME Name!Refuse, trail' \subseteq Name!Positions PROVE NameInv'
  <2>1. /\ nameResult' = "bad" /\ namePosition' = namePosition /\ expanded' = expanded
        /\ hops' = hops /\ seen' = seen /\ jumped' = jumped /\ next' = next
        /\ syntax' = syntax /\ output' = output
    BY <1>6, Zenon DEF Name!Refuse, Name!Keep
  <2>2. NameWalk'
    BY <1>0, <1>6, <2>1, Zenon DEF NameWalk, Name!Positions
  <2>3. NameEnds'
    BY <2>1, Zenon DEF NameEnds
  <2> QED
    BY <1>2, <2>2, <2>3, Zenon DEF NameInv
<1>7. CASE Name!RunOff
  <2>1. Name!Refuse /\ trail' = trail
    BY <1>7, Zenon DEF Name!RunOff
  <2>2. trail' \subseteq Name!Positions
    BY <1>0, <2>1, Zenon DEF NameWalk
  <2> QED
    BY <1>6, <2>1, <2>2, Zenon
<1>8. ASSUME Name!Inside, Name!ReadsByte
      PROVE  trail' \subseteq Name!Positions /\ p < PacketLen
  <2>1. p < PacketLen /\ trail' = trail \cup {p}
    BY <1>8, Zenon DEF Name!Inside, Name!Reads, Name!ReadsByte
  <2> QED
    BY <1>0, <1>5, <2>1, Zenon DEF NameWalk
<1>9. CASE Name!Reserved
  <2>1. Name!Inside /\ Name!ReadsByte /\ Name!Refuse
    BY <1>9, Zenon DEF Name!Reserved
  <2> QED
    BY <1>6, <1>8, <2>1, Zenon
<1>10. CASE Name!Pointer
  <2>1. /\ Name!Inside /\ Name!IsPointer
        /\ Name!Reads({p} \cup IF Name!HasTarget THEN {p + 1} ELSE {})
    BY <1>10, Zenon DEF Name!Pointer
  <2>2. trail' \subseteq Name!Positions /\ p < PacketLen
    <3>1. p < PacketLen
      BY <2>1, Zenon DEF Name!Inside
    <3>2. p \in Name!Positions
      BY <1>5, <3>1, Zenon
    <3>3. Name!HasTarget => p + 1 \in Name!Positions
      BY <1>4, NameConstants DEF Name!HasTarget, Name!Positions
    <3>4. trail' = trail \cup ({p} \cup IF Name!HasTarget THEN {p + 1} ELSE {})
      BY <2>1, Zenon DEF Name!Reads
    <3> HIDE DEF p
    <3> QED
      BY <1>0, <3>1, <3>2, <3>3, <3>4 DEF NameWalk
  <2>3. CASE ~Name!MayJump
    <3>1. Name!Refuse
      BY <1>10, <2>3, Zenon DEF Name!Pointer
    <3> QED
      BY <1>6, <2>2, <3>1, Zenon
  <2>4. CASE Name!MayJump
    <3> DEFINE t == Name!Target
    <3>1. /\ namePosition' = t /\ seen' = seen \cup {t} /\ hops' = hops + 1 /\ jumped' = TRUE
          /\ next' = (IF jumped THEN next ELSE p + 2)
          /\ expanded' = expanded /\ syntax' = syntax /\ output' = output
          /\ nameResult' = nameResult
      BY <1>10, <2>4, Zenon DEF Name!Pointer
    <3>2. t < PacketLen /\ hops < HopsMax /\ p + 1 < PacketLen
      BY <2>4, Zenon DEF Name!MayJump, Name!HasTarget
    <3>3. t \in 0 .. PacketLen - 1
      <4>1. p + 1 \in 0 .. PacketLen /\ p \in Nat
        BY <1>4, <3>2, NameConstants
      <4> DEFINE c == packet[p + 1]
      <4>2. c \in 0 .. 255
        BY <1>0, <4>1, NameConstants DEF NameBuffer
      <4>3. b \in 0 .. 255
        BY <1>5, <2>2
      <4>4. t = (b % 64) * 256 + c
        BY Zenon DEF Name!Target, Name!Byte
      <4> HIDE DEF b, c, t
      <4>5. b % 64 \in 0 .. 63
        BY <4>3
      <4>6. t \in Nat
        BY <4>2, <4>4, <4>5
      <4> QED
        BY <3>2, <4>6, NameConstants
    <3> HIDE DEF t
    <3>4. ~jumped => E[p] = p + 2
      <4>1. p \in 0 .. PacketLen + 255 /\ ~(p >= PacketLen)
        BY <1>4, <2>2, NameConstants
      <4>2. b >= 192 /\ b # 0
        <5>1. b >= 192
          BY <2>1, Zenon DEF Name!IsPointer, Name!Byte
        <5> HIDE DEF b
        <5> QED
          BY <5>1
      <4>3. E[p] = IF p >= PacketLen THEN 0
                   ELSE CASE packet[p] = 0 -> p + 1
                          [] packet[p] >= 192 -> p + 2
                          [] OTHER -> E[p + 1 + packet[p]]
        BY <1>0, <4>1, NameEndIs, Zenon
      <4> HIDE DEF E
      <4> QED
        BY <4>1, <4>2, <4>3
    <3>5. NameWalk'
      <4>1. /\ namePosition' \in Nat /\ hops' \in 0 .. HopsMax
            /\ seen' \subseteq Name!Positions /\ jumped' \in BOOLEAN
        BY <1>0, <3>1, <3>2, <3>3, NameConstants DEF NameWalk, Name!Positions
      <4>2. next' \in Nat
        BY <1>0, <1>4, <3>1 DEF NameWalk
      <4> QED
        BY <1>0, <2>2, <3>1, <4>1, <4>2, Zenon DEF NameWalk, Name!Positions
    <3>6. NameEnds'
      <4>1. next' = E[offset]
        BY <1>4, <3>1, <3>4, Zenon
      <4>2. namePosition' \in 0 .. PacketLen /\ jumped'
        BY <3>1, <3>3, NameConstants
      <4>3. nameResult' = "walking"
        BY <1>1, <3>1, Zenon
      <4>4. "walking" # "name"
        OBVIOUS
      <4> QED
        BY <1>1, <1>3, <4>1, <4>2, <4>3, <4>4, Zenon DEF NameEnds
    <3> QED
      BY <1>2, <3>5, <3>6, Zenon DEF NameInv
  <2> QED
    BY <2>3, <2>4, Zenon
<1>11. CASE Name!End
  <2>1. /\ Name!Inside /\ Name!ReadsByte /\ b = 0 /\ nameResult' = "name"
        /\ next' = (IF jumped THEN next ELSE p + 1)
        /\ namePosition' = namePosition /\ expanded' = expanded /\ hops' = hops
        /\ seen' = seen /\ jumped' = jumped /\ syntax' = syntax /\ output' = output
    BY <1>11, Zenon DEF Name!End, Name!Byte
  <2>2. trail' \subseteq Name!Positions /\ p < PacketLen
    BY <1>8, <2>1, Zenon
  <2>3. ~jumped => E[p] = p + 1
    <3>1. p \in 0 .. PacketLen + 255 /\ ~(p >= PacketLen)
      BY <1>4, <2>2, NameConstants
    <3>2. b = 0 /\ ~(b >= 192)
      BY <2>1
    <3>3. E[p] = IF p >= PacketLen THEN 0
                 ELSE CASE packet[p] = 0 -> p + 1
                        [] packet[p] >= 192 -> p + 2
                        [] OTHER -> E[p + 1 + packet[p]]
      BY <1>0, <3>1, NameEndIs, Zenon
    <3> HIDE DEF E
    <3> QED
      BY <3>1, <3>2, <3>3
  <2>4. NameWalk'
    <3>1. next' \in Nat
      BY <1>0, <1>4, <2>1 DEF NameWalk
    <3> QED
      BY <1>0, <2>1, <2>2, <3>1, Zenon DEF NameWalk, Name!Positions
  <2>5. NameEnds'
    <3>1. next' = E[offset]
      BY <1>4, <2>1, <2>3, Zenon
    <3>2. "walking" # "name"
      OBVIOUS
    <3> QED
      BY <1>1, <1>3, <2>1, <3>1, <3>2, Zenon DEF NameEnds
  <2> QED
    BY <1>2, <2>4, <2>5, Zenon DEF NameInv
<1>12. CASE Name!Label
  <2> DEFINE good == syntax /\ Name!label_ok(packet, b)
             dot == IF output = 0 THEN 0 ELSE 1
  <2>1. /\ Name!Inside /\ Name!IsLabel
        /\ Name!Reads(p .. p + IF Name!LabelFits /\ syntax THEN b ELSE 0)
    BY <1>12, Zenon DEF Name!Label, Name!Byte
  <2>2. trail' \subseteq Name!Positions /\ p < PacketLen
    <3>1. p < PacketLen
      BY <2>1, Zenon DEF Name!Inside
    <3> DEFINE n == IF Name!LabelFits /\ syntax THEN b ELSE 0
    <3>2. Name!LabelFits => p + 1 + b <= PacketLen
      BY Zenon DEF Name!LabelFits, Name!Byte
    <3>3. p \in 0 .. PacketLen /\ b \in 0 .. 255
      BY <1>4, <1>5, <3>1, Zenon
    <3>4. trail' = trail \cup (p .. p + n)
      BY <2>1, Zenon DEF Name!Reads
    <3> HIDE DEF p, b
    <3>5. n \in 0 .. 255 /\ p + n < PacketLen
      BY <3>1, <3>2, <3>3, NameConstants
    <3> HIDE DEF n
    <3>6. p .. p + n \subseteq Name!Positions
      BY <3>3, <3>5, NameConstants DEF Name!Positions
    <3> QED
      BY <1>0, <3>1, <3>4, <3>6 DEF NameWalk
  <2>3. CASE ~Name!LabelFits \/ (good /\ output + dot + b > HostMax)
    <3>1. Name!Refuse
      BY <1>12, <2>3, Zenon DEF Name!Label, Name!Byte
    <3> QED
      BY <1>6, <2>2, <3>1, Zenon
  <2>4. CASE Name!LabelFits /\ ~(good /\ output + dot + b > HostMax)
    <3>1. /\ namePosition' = p + 1 + b /\ expanded' = expanded + b + 1
          /\ syntax' = good /\ output' = (IF good THEN output + dot + b ELSE 0)
          /\ hops' = hops /\ seen' = seen /\ jumped' = jumped /\ next' = next
          /\ nameResult' = nameResult
      BY <1>12, <2>4, Zenon DEF Name!Label, Name!Byte
    <3>2. p + 1 + b <= PacketLen /\ expanded + b + 1 <= WireMax
      BY <2>4, Zenon DEF Name!LabelFits, Name!Byte
    <3>3. b \in 1 .. 63
      BY <2>1, Zenon DEF Name!IsLabel, Name!Byte
    <3>4. ~(good /\ output + dot + b > HostMax)
      BY <2>4, Zenon
    <3>5. syntax' \in BOOLEAN
      BY <3>1, Zenon
    <3> HIDE DEF b, good
    <3>6. /\ namePosition' \in 0 .. PacketLen /\ expanded' \in 1 .. WireMax
          /\ output' \in 0 .. HostMax
      BY <1>0, <1>4, <3>1, <3>2, <3>3, <3>4, NameConstants DEF NameWalk
    <3>7. NameWalk'
      <4>1. namePosition' \in Nat
        BY <3>6
      <4> QED
        BY <1>0, <2>2, <3>1, <3>5, <3>6, <4>1, Zenon DEF NameWalk, Name!Positions
    <3>8. E[p] = E[p + 1 + b]
      <4>1. p \in 0 .. PacketLen + 255 /\ ~(p >= PacketLen)
        BY <1>4, <2>2, NameConstants
      <4>2. b # 0 /\ ~(b >= 192)
        BY <3>3
      <4>3. E[p] = IF p >= PacketLen THEN 0
                   ELSE CASE b = 0 -> p + 1
                          [] b >= 192 -> p + 2
                          [] OTHER -> E[p + 1 + b]
        BY <1>0, <4>1, NameEndIs, Zenon DEF b
      <4> HIDE DEF E
      <4> QED
        BY <4>1, <4>2, <4>3
    <3>9. NameEnds'
      <4>1. ~jumped => E[namePosition'] = E[offset]
        BY <1>4, <3>1, <3>8, Zenon
      <4>2. jumped => next' = E[offset]
        BY <1>4, <3>1, Zenon
      <4>3. "walking" # "name"
        OBVIOUS
      <4> QED
        BY <1>1, <1>3, <3>1, <3>6, <4>1, <4>2, <4>3, Zenon DEF NameEnds
    <3> QED
      BY <1>2, <3>7, <3>9, Zenon DEF NameInv
  <2> QED
    BY <2>3, <2>4, Zenon
<1> QED
  BY <1>7, <1>9, <1>10, <1>11, <1>12, Zenon DEF Name!Next

LEMMA NameStutters == ASSUME NameInv, UNCHANGED nameVars PROVE NameInv'
<1>1. /\ packet' = packet /\ offset' = offset /\ namePosition' = namePosition
      /\ expanded' = expanded /\ hops' = hops /\ seen' = seen /\ jumped' = jumped
      /\ next' = next /\ syntax' = syntax /\ output' = output /\ nameResult' = nameResult
      /\ trail' = trail
  BY Zenon DEF nameVars
<1>2. Name!StoredEnd' = Name!StoredEnd
  BY <1>1, NameEndsStay, Zenon
<1> QED
  BY <1>1, <1>2, Zenon DEF NameInv, NameBuffer, NameWalk, NameEnds, Name!Positions

(* Every byte read is in the packet, and the caller goes on behind the name. *)
LEMMA NameIsGood ==
    ASSUME NameInv PROVE Name!TypeOK /\ Name!ReadsInside /\ Name!NextFollowsName
<1>1. Name!TypeOK
  BY Zenon DEF NameInv, NameWalk, Name!TypeOK
<1>2. Name!ReadsInside
  BY NameConstants DEF NameInv, NameWalk, NameEnds, Name!ReadsInside, Name!Positions
<1>3. Name!NextFollowsName
  BY Zenon DEF NameInv, NameEnds, Name!NextFollowsName
<1> QED
  BY <1>1, <1>2, <1>3

-----------------------------------------------------------------------------
(* The configured root.                                                      *)

PathBad == {<<>>, <<".">>, <<".", ".">>}

(* A part goes from a slash to the next one, or to the end.                  *)
PathEnd(t, n, e) ==
    /\ e \in n + 1 .. Len(t) + 1
    /\ e = Len(t) + 1 \/ t[e] = "/"
    /\ \A k \in n + 1 .. e - 1 : t[k] # "/"

PathGood(t, n) ==
    \E e \in Nat : PathEnd(t, n, e) /\ SubSeq(t, n + 1, e - 1) \notin PathBad

PathMeant(w, n) ==
    /\ n \in 0 .. Len(w) /\ Path!Slashes(w, n)
    /\ Path!Normal(SubSeq(w, 1, n))

PathConclusion(w, r, v) ==
    \/ v = <<"none">>
    \/ v = <<"INVALID">> /\ \A n \in Nat : ~PathMeant(w, n)
    \/ /\ v = <<"PATH_TOO_LONG">>
       /\ \/ Len(w) >= Capacity
          \/ r = "layout" /\ \E n \in Nat : PathMeant(w, n) /\ n > Capacity - 1 - Suffix
    \/ \E n \in Nat : /\ PathMeant(w, n) /\ v = <<"OK", SubSeq(w, 1, n)>>
                      /\ r = "layout" => n <= Capacity - 1 - Suffix

(* What is read is the configured root, but for slashes at its end.          *)
PathRoot ==
    /\ input \in Seq(Chars) /\ Len(input) <= MaxRoot
    /\ root \in Seq(Chars) /\ Len(root) <= Len(input)
    /\ \A k \in 1 .. Len(root) : root[k] = input[k]
    /\ Path!Slashes(input, Len(root))

PathSteady ==
    /\ reader \in {"verify", "layout"}
    /\ pathPc \in {"begin", "trim", "scan", "accepted", "refused"}
    /\ pathI \in 1 .. MaxRoot + 1 /\ component \in 1 .. pathI

(* The verdicts so far.                                                      *)
PathVerdicts ==
    /\ verdict = [r \in {"verify", "layout"} |-> verdict[r]]
    /\ PathConclusion(input, "verify", verdict["verify"])
    /\ PathConclusion(input, "layout", verdict["layout"])
    /\ pathPc \notin {"accepted", "refused"} => verdict[reader] = <<"none">>
    /\ pathPc = "accepted" => verdict[reader] = <<"OK", root>>
    /\ pathPc = "refused" => verdict[reader] \in {<<"INVALID">>, <<"PATH_TOO_LONG">>}
    /\ reader = "verify" => verdict["layout"] = <<"none">>
    /\ reader = "layout" => verdict["verify"] # <<"none">>

(* The parts in front of the one that is being scanned are good.             *)
PathScanned ==
    /\ pathPc \in {"trim", "scan"} => root # <<>> /\ root[1] = "/"
    /\ pathPc = "scan" =>
          /\ Len(root) > 1 /\ root[Len(root)] # "/"
          /\ component \in 2 .. pathI /\ pathI <= Len(root) + 1
          /\ root[component - 1] = "/"
          /\ \A k \in component .. pathI - 1 : root[k] # "/"
          /\ \A n \in 1 .. component - 2 : root[n] = "/" => PathGood(root, n)

PathInv == PathRoot /\ PathSteady /\ PathVerdicts /\ PathScanned

LEMMA PathConstants ==
    /\ Capacity \in Nat /\ Suffix \in Nat /\ MaxRoot \in Nat /\ {"/", "."} \subseteq Chars
    /\ Suffix + 2 < Capacity
BY PathAssumption DEF PathAssumption, Path!CapacityAssumption

(* A slash has one end.                                                      *)
LEMMA PathEndExists ==
    ASSUME NEW t \in Seq(Chars), NEW n \in 1 .. Len(t)
    PROVE  \E e \in Nat : PathEnd(t, n, e)
<1> DEFINE S == {e \in n + 1 .. Len(t) + 1 : e = Len(t) + 1 \/ t[e] = "/"}
<1>1. Len(t) \in Nat
  OBVIOUS
<1>2. S \in SUBSET Nat /\ Len(t) + 1 \in S
  BY <1>1
<1>3. PICK e \in S : \A k \in S : e <= k
  <2> HIDE DEF S
  <2> QED
    BY <1>2, Least
<1>4. \A k \in n + 1 .. e - 1 : t[k] # "/"
  <2> TAKE k \in n + 1 .. e - 1
  <2>1. e \in n + 1 .. Len(t) + 1
    BY <1>3
  <2>2. k \in n + 1 .. Len(t) + 1 /\ ~(e <= k)
    BY <1>1, <2>1
  <2> QED
    BY <1>3, <2>2
<1> QED
  BY <1>1, <1>3, <1>4 DEF PathEnd

LEMMA PathEndIsOne ==
    ASSUME NEW t \in Seq(Chars), NEW n \in 1 .. Len(t), NEW d, NEW e,
           PathEnd(t, n, d), PathEnd(t, n, e)
    PROVE  d = e
<1>1. /\ d \in n + 1 .. Len(t) + 1 /\ (d = Len(t) + 1 \/ t[d] = "/")
      /\ \A k \in n + 1 .. d - 1 : t[k] # "/"
  BY DEF PathEnd
<1>2. /\ e \in n + 1 .. Len(t) + 1 /\ (e = Len(t) + 1 \/ t[e] = "/")
      /\ \A k \in n + 1 .. e - 1 : t[k] # "/"
  BY DEF PathEnd
<1>3. Len(t) \in Nat
  OBVIOUS
<1>4. CASE d < e
  <2>1. d \in n + 1 .. e - 1 /\ d # Len(t) + 1
    BY <1>1, <1>2, <1>3, <1>4
  <2> QED
    BY <1>1, <1>2, <2>1
<1>5. CASE e < d
  <2>1. e \in n + 1 .. d - 1 /\ e # Len(t) + 1
    BY <1>1, <1>2, <1>3, <1>5
  <2> QED
    BY <1>1, <1>2, <2>1
<1> QED
  BY <1>1, <1>2, <1>3, <1>4, <1>5

PathPartAt(t, x) ==
    \E n \in 1 .. Len(t) : \E e \in Nat :
        t[n] = "/" /\ PathEnd(t, n, e) /\ x = SubSeq(t, n + 1, e - 1)

LEMMA PathPartsAre ==
    ASSUME NEW t \in Seq(Chars), NEW x
    PROVE  x \in Path!Parts(t) <=> PathPartAt(t, x)
<1> DEFINE ends == {n \in 1 .. Len(t) : t[n] = "/"} \cup {Len(t) + 1}
           Best(n, e) == e > n /\ \A d \in ends : d > n => e <= d
           following(n) == CHOOSE e \in ends : Best(n, e)
<1>0. Len(t) \in Nat
  OBVIOUS
<1>1. Path!Parts(t) = {SubSeq(t, n + 1, following(n) - 1) : n \in ends \ {Len(t) + 1}}
  BY Zenon DEF Path!Parts
<1>2. ASSUME NEW n \in 1 .. Len(t) PROVE PathEnd(t, n, following(n))
  <2>1. PICK e \in Nat : PathEnd(t, n, e)
    BY PathEndExists, Zenon
  <2>2. /\ e \in n + 1 .. Len(t) + 1 /\ (e = Len(t) + 1 \/ t[e] = "/")
        /\ \A k \in n + 1 .. e - 1 : t[k] # "/"
    BY <2>1, Zenon DEF PathEnd
  <2>3. e \in ends /\ e > n
    BY <1>0, <2>2
  <2>4. ASSUME NEW d \in ends, d > n PROVE e <= d
    <3>1. d \in 1 .. Len(t) + 1 /\ (d = Len(t) + 1 \/ t[d] = "/")
      BY <1>0
    <3>2. CASE d < e
      <4>1. d \in n + 1 .. e - 1 /\ d # Len(t) + 1
        BY <1>0, <2>2, <2>4, <3>1, <3>2
      <4> QED
        BY <2>2, <3>1, <4>1
    <3> QED
      BY <1>0, <2>2, <3>1, <3>2
  <2>5. Best(n, e)
    BY <2>3, <2>4
  <2>6. following(n) \in ends /\ Best(n, following(n))
    <3> HIDE DEF Best, ends
    <3> QED
      BY <2>3, <2>5
  <2> DEFINE f == following(n)
  <2>7. f = e
    <3>0. f \in ends /\ Best(n, f)
      BY <2>6
    <3> HIDE DEF f
    <3>1. f <= e /\ e <= f
      BY <2>3, <2>5, <3>0
    <3>2. f \in Nat
      BY <1>0, <3>0
    <3> QED
      BY <3>1, <3>2
  <2> QED
    BY <2>1, <2>7, Zenon
<1>3. ASSUME x \in Path!Parts(t) PROVE PathPartAt(t, x)
  <2>1. PICK n \in ends \ {Len(t) + 1} : x = SubSeq(t, n + 1, following(n) - 1)
    <3> HIDE DEF following, ends
    <3> QED
      BY <1>1, <1>3
  <2>2. n \in 1 .. Len(t) /\ t[n] = "/"
    BY <1>0
  <2> DEFINE f == following(n)
  <2>3. PathEnd(t, n, f) /\ x = SubSeq(t, n + 1, f - 1)
    BY <1>2, <2>1, <2>2, Zenon
  <2> HIDE DEF f
  <2>4. f \in Nat
    BY <1>0, <2>2, <2>3 DEF PathEnd
  <2> QED
    BY <2>2, <2>3, <2>4, Zenon DEF PathPartAt
<1>4. ASSUME PathPartAt(t, x) PROVE x \in Path!Parts(t)
  <2>1. PICK n \in 1 .. Len(t) : \E e \in Nat :
            t[n] = "/" /\ PathEnd(t, n, e) /\ x = SubSeq(t, n + 1, e - 1)
    BY <1>4, Zenon DEF PathPartAt
  <2>2. PICK e \in Nat : t[n] = "/" /\ PathEnd(t, n, e) /\ x = SubSeq(t, n + 1, e - 1)
    BY <2>1, Zenon
  <2>3. following(n) = e
    <3> DEFINE f == following(n)
    <3>1. PathEnd(t, n, f)
      BY <1>2
    <3> HIDE DEF f
    <3>2. f = e
      BY <2>2, <3>1, PathEndIsOne, Zenon
    <3> QED
      BY <3>2 DEF f
  <2>4. n \in ends \ {Len(t) + 1}
    BY <1>0, <2>2
  <2> HIDE DEF ends, following
  <2> QED
    BY <1>1, <2>2, <2>3, <2>4
<1> QED
  BY <1>3, <1>4, Zenon

LEMMA PathNormalIs ==
    ASSUME NEW t \in Seq(Chars)
    PROVE  Path!Normal(t) <=>
              /\ Len(t) > 1 /\ t[1] = "/"
              /\ \A n \in 1 .. Len(t) : t[n] = "/" => PathGood(t, n)
<1>1. Path!Normal(t) <=>
         Len(t) > 1 /\ t[1] = "/" /\ \A x \in PathBad : x \notin Path!Parts(t)
  BY Zenon DEF Path!Normal, PathBad
<1>2. ASSUME \A x \in PathBad : x \notin Path!Parts(t), NEW n \in 1 .. Len(t), t[n] = "/"
      PROVE  PathGood(t, n)
  <2>1. PICK e \in Nat : PathEnd(t, n, e)
    BY PathEndExists, Zenon
  <2>2. PathPartAt(t, SubSeq(t, n + 1, e - 1))
    BY <1>2, <2>1, Zenon DEF PathPartAt
  <2>3. SubSeq(t, n + 1, e - 1) \in Path!Parts(t)
    BY <2>2, PathPartsAre, Zenon
  <2> QED
    BY <1>2, <2>1, <2>3, Zenon DEF PathGood
<1>3. ASSUME \A n \in 1 .. Len(t) : t[n] = "/" => PathGood(t, n),
             NEW x \in PathBad, x \in Path!Parts(t)
      PROVE  FALSE
  <2>1. PathPartAt(t, x)
    BY <1>3, PathPartsAre, Zenon
  <2>2. PICK n \in 1 .. Len(t) : \E e \in Nat :
            t[n] = "/" /\ PathEnd(t, n, e) /\ x = SubSeq(t, n + 1, e - 1)
    BY <2>1, Zenon DEF PathPartAt
  <2>3. PICK e \in Nat : t[n] = "/" /\ PathEnd(t, n, e) /\ x = SubSeq(t, n + 1, e - 1)
    BY <2>2, Zenon
  <2>4. PICK d \in Nat : PathEnd(t, n, d) /\ SubSeq(t, n + 1, d - 1) \notin PathBad
    BY <1>3, <2>3, Zenon DEF PathGood
  <2>5. d = e
    BY <2>3, <2>4, PathEndIsOne, Zenon
  <2> QED
    BY <1>3, <2>3, <2>4, <2>5, Zenon
<1> QED
  BY <1>1, <1>2, <1>3, Zenon

(* A path that is meant ends where its text does.                            *)
LEMMA PathLast ==
    ASSUME NEW t \in Seq(Chars), Path!Normal(t)
    PROVE  Len(t) > 1 /\ t[1] = "/" /\ t[Len(t)] # "/"
<1>1. Len(t) > 1 /\ t[1] = "/" /\ \A n \in 1 .. Len(t) : t[n] = "/" => PathGood(t, n)
  BY PathNormalIs, Zenon
<1>2. Len(t) \in Nat /\ Len(t) \in 1 .. Len(t)
  BY <1>1
<1> SUFFICES ASSUME t[Len(t)] = "/" PROVE FALSE
  BY <1>1, Zenon
<1> DEFINE N == Len(t)
<1>3. PICK e \in Nat : PathEnd(t, N, e) /\ SubSeq(t, N + 1, e - 1) \notin PathBad
  BY <1>1, <1>2, Zenon DEF PathGood
<1>4. e \in N + 1 .. N + 1
  BY <1>3, Zenon DEF PathEnd
<1>5. e - 1 = N
  BY <1>2, <1>4
<1>6. SubSeq(t, N + 1, N) = <<>>
  BY <1>2
<1> QED
  BY <1>3, <1>5, <1>6, Zenon DEF PathBad

LEMMA PathPrefix ==
    ASSUME NEW t \in Seq(Chars), NEW n \in 0 .. Len(t)
    PROVE  /\ SubSeq(t, 1, n) \in Seq(Chars) /\ Len(SubSeq(t, 1, n)) = n
           /\ \A k \in 1 .. n : SubSeq(t, 1, n)[k] = t[k]
OBVIOUS

LEMMA PathRootIs == ASSUME PathRoot PROVE root = SubSeq(input, 1, Len(root))
<1> DEFINE t == SubSeq(input, 1, Len(root))
<1>1. /\ input \in Seq(Chars) /\ root \in Seq(Chars) /\ Len(root) \in 0 .. Len(input)
      /\ \A k \in 1 .. Len(root) : root[k] = input[k]
  BY DEF PathRoot
<1>2. t \in Seq(Chars) /\ Len(t) = Len(root) /\ \A k \in 1 .. Len(root) : t[k] = input[k]
  BY <1>1, PathPrefix, Zenon
<1> HIDE DEF t
<1>3. root = t
  BY <1>1, <1>2
<1> QED
  BY <1>3 DEF t

LEMMA PathMeantIs ==
    ASSUME input \in Seq(Chars), NEW n, PathMeant(input, n)
    PROVE  /\ n \in Nat /\ n > 1 /\ n <= Len(input) /\ input[1] = "/" /\ input[n] # "/"
           /\ \A k \in n + 1 .. Len(input) : input[k] = "/"
<1> DEFINE t == SubSeq(input, 1, n)
<1>1. n \in 0 .. Len(input) /\ Path!Slashes(input, n) /\ Path!Normal(t)
  BY Zenon DEF PathMeant
<1>2. t \in Seq(Chars) /\ Len(t) = n /\ \A k \in 1 .. n : t[k] = input[k]
  BY <1>1, PathPrefix, Zenon
<1> HIDE DEF t
<1>3. Len(t) > 1 /\ t[1] = "/" /\ t[Len(t)] # "/"
  BY <1>1, <1>2, PathLast, Zenon
<1>4. \A k \in n + 1 .. Len(input) : input[k] = "/"
  BY <1>1, Zenon DEF Path!Slashes
<1>5. n \in Nat /\ n > 1 /\ 1 \in 1 .. n /\ n \in 1 .. n
  BY <1>1, <1>2, <1>3
<1> QED
  BY <1>1, <1>2, <1>3, <1>4, <1>5

LEMMA PathMeantIsOne ==
    ASSUME input \in Seq(Chars), NEW n, NEW m, PathMeant(input, n), PathMeant(input, m)
    PROVE  n = m
<1>1. /\ n \in Nat /\ n > 1 /\ n <= Len(input) /\ input[n] # "/"
      /\ \A k \in n + 1 .. Len(input) : input[k] = "/"
  BY PathMeantIs, Zenon
<1>2. /\ m \in Nat /\ m > 1 /\ m <= Len(input) /\ input[m] # "/"
      /\ \A k \in m + 1 .. Len(input) : input[k] = "/"
  BY PathMeantIs, Zenon
<1>3. Len(input) \in Nat
  OBVIOUS
<1>4. ~(n < m)
  BY <1>1, <1>2, <1>3
<1>5. ~(m < n)
  BY <1>1, <1>2, <1>3
<1> QED
  BY <1>1, <1>2, <1>4, <1>5

LEMMA PathNothing ==
    ASSUME PathRoot, root = <<>> \/ root[1] # "/" \/ Len(root) <= 1
    PROVE  \A n \in Nat : ~PathMeant(input, n)
<1> SUFFICES ASSUME NEW n \in Nat, PathMeant(input, n) PROVE FALSE
  OBVIOUS
<1>1. /\ input \in Seq(Chars) /\ root \in Seq(Chars) /\ Len(root) \in 0 .. Len(input)
      /\ \A k \in 1 .. Len(root) : root[k] = input[k]
      /\ \A k \in Len(root) + 1 .. Len(input) : input[k] = "/"
  BY DEF PathRoot, Path!Slashes
<1>2. n > 1 /\ n <= Len(input) /\ input[1] = "/" /\ input[n] # "/"
  BY <1>1, PathMeantIs, Zenon
<1>3. CASE Len(root) <= 1
  <2>1. n \in Len(root) + 1 .. Len(input)
    BY <1>1, <1>2, <1>3
  <2> QED
    BY <1>1, <1>2, <2>1
<1>4. CASE Len(root) > 1
  <2>1. root # <<>> /\ 1 \in 1 .. Len(root)
    BY <1>1, <1>4
  <2>2. root[1] = "/"
    BY <1>1, <1>2, <2>1
  <2> QED
    BY <1>1, <1>4, <2>1, <2>2
<1> QED
  BY <1>1, <1>3, <1>4

LEMMA PathOnly ==
    ASSUME PathRoot, Len(root) > 1, root[Len(root)] # "/", NEW n, PathMeant(input, n)
    PROVE  n = Len(root) /\ Path!Normal(root)
<1>1. /\ input \in Seq(Chars) /\ root \in Seq(Chars) /\ Len(root) \in 0 .. Len(input)
      /\ \A k \in 1 .. Len(root) : root[k] = input[k]
      /\ \A k \in Len(root) + 1 .. Len(input) : input[k] = "/"
  BY DEF PathRoot, Path!Slashes
<1>2. /\ n \in Nat /\ n <= Len(input) /\ input[n] # "/"
      /\ \A k \in n + 1 .. Len(input) : input[k] = "/"
  BY <1>1, PathMeantIs, Zenon
<1>3. n = Len(root)
  <2>1. ~(Len(root) < n)
    BY <1>1, <1>2
  <2>2. ~(n < Len(root))
    <3> SUFFICES ASSUME n < Len(root) PROVE FALSE
      OBVIOUS
    <3>1. Len(root) \in n + 1 .. Len(input) /\ Len(root) \in 1 .. Len(root)
      BY <1>1, <1>2
    <3> QED
      BY <1>1, <1>2, <3>1
  <2> QED
    BY <1>1, <1>2, <2>1, <2>2
<1>4. Path!Normal(root)
  BY <1>3, PathRootIs, Zenon DEF PathMeant
<1> QED
  BY <1>3, <1>4

LEMMA PathTold ==
    ASSUME NEW p
    PROVE  /\ <<"OK", p>> # <<"none">> /\ <<"OK", p>> # <<"INVALID">>
           /\ <<"OK", p>> # <<"PATH_TOO_LONG">> /\ <<"OK", p>>[1] = "OK" /\ <<"OK", p>>[2] = p
           /\ <<"none">>[1] # "OK" /\ <<"INVALID">>[1] # "OK" /\ <<"PATH_TOO_LONG">>[1] # "OK"
           /\ <<"INVALID">> # <<"none">> /\ <<"PATH_TOO_LONG">> # <<"none">>
           /\ <<"INVALID">> # <<"PATH_TOO_LONG">>
<1>1. <<"OK", p>>[1] = "OK" /\ <<"OK", p>>[2] = p
  OBVIOUS
<1>2. <<"none">>[1] = "none" /\ <<"INVALID">>[1] = "INVALID"
      /\ <<"PATH_TOO_LONG">>[1] = "PATH_TOO_LONG"
  OBVIOUS
<1>3. "OK" # "none" /\ "OK" # "INVALID" /\ "OK" # "PATH_TOO_LONG" /\ "INVALID" # "none"
      /\ "PATH_TOO_LONG" # "none" /\ "INVALID" # "PATH_TOO_LONG"
  OBVIOUS
<1> DEFINE a == <<"OK", p>>
           b == <<"none">>
           c == <<"INVALID">>
           d == <<"PATH_TOO_LONG">>
<1> HIDE DEF a, b, c, d
<1>4. a[1] = "OK" /\ b[1] = "none" /\ c[1] = "INVALID" /\ d[1] = "PATH_TOO_LONG"
  BY <1>1, <1>2, Zenon DEF a, b, c, d
<1>5. a # b /\ a # c /\ a # d /\ b[1] # "OK" /\ c[1] # "OK" /\ d[1] # "OK" /\ c # b /\ d # b
      /\ c # d
  BY <1>3, <1>4, Zenon
<1> QED
  BY <1>1, <1>5, Zenon DEF a, b, c, d

LEMMA PathInitially == ASSUME Path!Init PROVE PathInv
<1>1. /\ input \in Path!Texts /\ reader = "verify" /\ root = input
      /\ pathPc = "begin" /\ pathI = 1 /\ component = 1
      /\ verdict = [r \in {"verify", "layout"} |-> <<"none">>]
  BY Zenon DEF Path!Init
<1>2. input \in Seq(Chars) /\ Len(input) \in 0 .. MaxRoot
  <2>1. PICK n \in 0 .. MaxRoot : input \in [1 .. n -> Chars]
    BY <1>1 DEF Path!Texts
  <2> QED
    BY <2>1, PathConstants, FunctionIsSeq
<1>3. PathRoot
  BY <1>1, <1>2 DEF PathRoot, Path!Slashes
<1>4. PathSteady
  BY <1>1, PathConstants DEF PathSteady
<1>5. PathVerdicts
  <2>1. verdict["verify"] = <<"none">> /\ verdict["layout"] = <<"none">>
    BY <1>1, Zenon
  <2>2. verdict = [r \in {"verify", "layout"} |-> verdict[r]]
    BY <1>1
  <2>3. pathPc # "accepted" /\ pathPc # "refused" /\ reader # "layout" /\ verdict[reader] = <<"none">>
    BY <1>1, <2>1
  <2> QED
    BY <1>1, <2>1, <2>2, <2>3, Zenon DEF PathVerdicts, PathConclusion
<1>6. PathScanned
  BY <1>1 DEF PathScanned
<1> QED
  BY <1>3, <1>4, <1>5, <1>6, Zenon DEF PathInv

LEMMA PathRefused ==
    ASSUME PathInv, NEW why \in {"INVALID", "PATH_TOO_LONG"}, Path!Refuse(why),
           PathConclusion(input, reader, <<why>>), pathPc \notin {"accepted", "refused"}
    PROVE  PathInv'
<1>0. PathRoot /\ PathSteady /\ PathVerdicts
  BY Zenon DEF PathInv
<1>1. /\ pathPc' = "refused" /\ verdict' = [verdict EXCEPT ![reader] = <<why>>]
      /\ input' = input /\ reader' = reader /\ root' = root /\ pathI' = pathI
      /\ component' = component
  BY Zenon DEF Path!Refuse
<1>2. PathRoot'
  BY <1>0, <1>1, Zenon DEF PathRoot
<1>3. PathSteady'
  BY <1>0, <1>1, Zenon DEF PathSteady
<1>4. PathVerdicts'
  <2>1. reader \in {"verify", "layout"} /\ verdict = [r \in {"verify", "layout"} |-> verdict[r]]
    BY <1>0, Zenon DEF PathSteady, PathVerdicts
  <2>2. /\ verdict' = [r \in {"verify", "layout"} |-> verdict'[r]]
        /\ verdict'[reader] = <<why>>
        /\ \A r \in {"verify", "layout"} : r # reader => verdict'[r] = verdict[r]
    BY <1>1, <2>1
  <2>3. PathConclusion(input, "verify", verdict'["verify"])
        /\ PathConclusion(input, "layout", verdict'["layout"])
    BY <1>0, <2>1, <2>2, Zenon DEF PathVerdicts
  <2>4. verdict'[reader] \in {<<"INVALID">>, <<"PATH_TOO_LONG">>} /\ verdict'[reader] # <<"none">>
    BY <2>2, PathTold, Zenon
  <2>5. reader = "verify" => verdict'["layout"] = <<"none">>
    BY <1>0, <2>2, Zenon DEF PathVerdicts
  <2>6. reader = "layout" => verdict'["verify"] # <<"none">>
    BY <1>0, <2>2, Zenon DEF PathVerdicts
  <2>7. pathPc' = "refused" /\ pathPc' # "accepted"
    BY <1>1
  <2> QED
    BY <1>1, <2>2, <2>3, <2>4, <2>5, <2>6, <2>7, Zenon DEF PathVerdicts
<1>5. PathScanned'
  BY <1>1 DEF PathScanned
<1> QED
  BY <1>2, <1>3, <1>4, <1>5, Zenon DEF PathInv

(* What does not conclude.                                                   *)
LEMMA PathGoesOn ==
    ASSUME PathInv, pathPc \notin {"accepted", "refused"},
           pathPc' \in {"begin", "trim", "scan"},
           input' = input, reader' = reader, verdict' = verdict
    PROVE  PathVerdicts'
<1>1. PathVerdicts /\ PathSteady
  BY Zenon DEF PathInv
<1>2. verdict[reader] = <<"none">> /\ pathPc' \notin {"accepted", "refused"}
      /\ pathPc' # "accepted" /\ pathPc' # "refused"
  BY <1>1 DEF PathVerdicts
<1> QED
  BY <1>1, <1>2, Zenon DEF PathVerdicts

LEMMA PathBeginStep == ASSUME PathInv, Path!Begin PROVE PathInv'
<1>0. PathRoot /\ PathSteady /\ PathVerdicts /\ pathPc = "begin"
  BY Zenon DEF PathInv, Path!Begin
<1>1. pathPc \notin {"accepted", "refused"}
  BY <1>0
<1>2. Len(root) >= Capacity => Len(input) >= Capacity
  BY <1>0, PathConstants DEF PathRoot
<1>3. ASSUME Len(root) >= Capacity, Path!Refuse("PATH_TOO_LONG") PROVE PathInv'
  <2>1. PathConclusion(input, reader, <<"PATH_TOO_LONG">>)
    BY <1>2, <1>3, Zenon DEF PathConclusion
  <2> QED
    BY <1>1, <1>3, <2>1, PathRefused, Zenon
<1>4. CASE root = <<>> \/ root[1] # "/"
  <2>1. \A n \in Nat : ~PathMeant(input, n)
    BY <1>0, <1>4, PathNothing
  <2>2. PathConclusion(input, reader, <<"INVALID">>)
    BY <2>1, Zenon DEF PathConclusion
  <2>3. Path!Refuse("INVALID") \/ (Len(root) >= Capacity /\ Path!Refuse("PATH_TOO_LONG"))
    BY <1>4, Zenon DEF Path!Begin
  <2> QED
    BY <1>1, <1>3, <2>2, <2>3, PathRefused, Zenon
<1>5. CASE ~(root = <<>> \/ root[1] # "/") /\ Len(root) >= Capacity
  <2>1. Path!Refuse("PATH_TOO_LONG")
    BY <1>5, Zenon DEF Path!Begin
  <2> QED
    BY <1>3, <1>5, <2>1, Zenon
<1>6. CASE ~(root = <<>> \/ root[1] # "/") /\ ~(Len(root) >= Capacity)
  <2>1. /\ pathPc' = "trim" /\ input' = input /\ reader' = reader /\ root' = root
        /\ pathI' = pathI /\ component' = component /\ verdict' = verdict
    BY <1>6, Zenon DEF Path!Begin
  <2>2. PathRoot' /\ PathSteady'
    BY <1>0, <2>1, Zenon DEF PathRoot, PathSteady
  <2>3. PathVerdicts'
    BY <1>1, <2>1, PathGoesOn, Zenon
  <2>4. PathScanned'
    BY <1>6, <2>1 DEF PathScanned
  <2> QED
    BY <2>2, <2>3, <2>4, Zenon DEF PathInv
<1> QED
  BY <1>4, <1>5, <1>6

LEMMA PathTrimStep == ASSUME PathInv, Path!Trim PROVE PathInv'
<1>0. PathRoot /\ PathSteady /\ PathVerdicts /\ PathScanned /\ pathPc = "trim"
  BY Zenon DEF PathInv, Path!Trim
<1>1. pathPc \notin {"accepted", "refused"}
  BY <1>0
<1> DEFINE N == Len(root)
<1>2. /\ root \in Seq(Chars) /\ N \in Nat /\ root # <<>> /\ root[1] = "/" /\ N >= 1
      /\ input \in Seq(Chars) /\ N <= Len(input) /\ Len(input) \in Nat
  BY <1>0 DEF PathScanned, PathRoot
<1>3. CASE N > 1 /\ root[N] = "/"
  <2> DEFINE t == SubSeq(root, 1, N - 1)
  <2>1. /\ pathPc' = pathPc /\ input' = input /\ reader' = reader /\ root' = t
        /\ pathI' = pathI /\ component' = component /\ verdict' = verdict
    BY <1>3, Zenon DEF Path!Trim
  <2>2. t \in Seq(Chars) /\ Len(t) = N - 1 /\ \A k \in 1 .. N - 1 : t[k] = root[k]
    <3>1. N - 1 \in 0 .. Len(root)
      BY <1>2
    <3> QED
      BY <1>2, <3>1, PathPrefix
  <2> HIDE DEF t
  <2>3. PathRoot'
    <3>1. Len(t) <= Len(input)
      BY <1>2, <2>2
    <3>2. \A k \in 1 .. Len(t) : t[k] = input[k]
      <4> TAKE k \in 1 .. Len(t)
      <4>1. k \in 1 .. N - 1 /\ k \in 1 .. N
        BY <1>2, <2>2
      <4> QED
        BY <1>0, <2>2, <4>1 DEF PathRoot
    <3>3. Path!Slashes(input, Len(t))
      <4> SUFFICES ASSUME NEW k \in Len(t) + 1 .. Len(input) PROVE input[k] = "/"
        BY Zenon DEF Path!Slashes
      <4>1. k = N \/ k \in N + 1 .. Len(input)
        BY <1>2, <2>2
      <4>2. input[N] = "/"
        <5>1. N \in 1 .. N
          BY <1>2
        <5> QED
          BY <1>0, <1>3, <5>1, Zenon DEF PathRoot
      <4> QED
        BY <1>0, <4>1, <4>2, Zenon DEF PathRoot, Path!Slashes
    <3> QED
      BY <1>0, <2>1, <2>2, <3>1, <3>2, <3>3, Zenon DEF PathRoot
  <2>4. PathSteady'
    BY <1>0, <2>1, Zenon DEF PathSteady
  <2>5. PathVerdicts'
    BY <1>0, <1>1, <2>1, PathGoesOn, Zenon
  <2>6. PathScanned'
    <3>1. t # <<>> /\ t[1] = "/"
      BY <1>2, <1>3, <2>2
    <3>2. pathPc' # "scan"
      BY <1>0, <2>1
    <3> QED
      BY <2>1, <3>1, <3>2, Zenon DEF PathScanned
  <2> QED
    BY <2>3, <2>4, <2>5, <2>6, Zenon DEF PathInv
<1>4. CASE ~(N > 1 /\ root[N] = "/") /\ N <= 1
  <2>1. \A n \in Nat : ~PathMeant(input, n)
    BY <1>0, <1>4, PathNothing
  <2>2. PathConclusion(input, reader, <<"INVALID">>)
    BY <2>1, Zenon DEF PathConclusion
  <2>3. Path!Refuse("INVALID")
    BY <1>4, Zenon DEF Path!Trim
  <2> QED
    BY <1>1, <2>2, <2>3, PathRefused, Zenon
<1>5. CASE ~(N > 1 /\ root[N] = "/") /\ ~(N <= 1)
  <2>1. /\ pathPc' = "scan" /\ input' = input /\ reader' = reader /\ root' = root
        /\ pathI' = 2 /\ component' = 2 /\ verdict' = verdict
    BY <1>5, Zenon DEF Path!Trim
  <2>2. N > 1 /\ root[N] # "/"
    BY <1>2, <1>5
  <2>3. PathRoot'
    BY <1>0, <2>1, Zenon DEF PathRoot
  <2>4. PathSteady'
    <3>1. 2 \in 1 .. MaxRoot + 1 /\ 2 \in 1 .. 2
      BY <1>0, <1>2, <2>2, PathConstants DEF PathRoot
    <3> QED
      BY <1>0, <2>1, <3>1, Zenon DEF PathSteady
  <2>5. PathVerdicts'
    BY <1>1, <2>1, PathGoesOn, Zenon
  <2>6. PathScanned'
    <3>1. /\ component' \in 2 .. pathI' /\ pathI' <= N + 1 /\ component' - 1 = 1
          /\ component' .. pathI' - 1 = {} /\ 1 .. component' - 2 = {}
      BY <1>2, <2>1, <2>2
    <3> QED
      BY <1>2, <2>1, <2>2, <3>1, Zenon DEF PathScanned
  <2> QED
    BY <2>3, <2>4, <2>5, <2>6, Zenon DEF PathInv
<1> QED
  BY <1>3, <1>4, <1>5

(* The part that has been scanned, and the path when it is the last one.     *)
LEMMA PathScanEnds ==
    ASSUME PathRoot, PathScanned, pathPc = "scan", pathI \in Nat, component \in Nat,
           pathI = Len(root) + 1 \/ root[pathI] = "/"
    PROVE  /\ component - 1 \in 1 .. Len(root) /\ root[component - 1] = "/"
           /\ PathEnd(root, component - 1, pathI) /\ pathI \in Nat
<1>1. /\ root \in Seq(Chars) /\ Len(root) > 1 /\ component \in 2 .. pathI
      /\ pathI <= Len(root) + 1 /\ root[component - 1] = "/"
      /\ \A k \in component .. pathI - 1 : root[k] # "/"
  BY Zenon DEF PathRoot, PathScanned
<1>2. Len(root) \in Nat
  BY <1>1
<1>3. pathI \in Nat /\ component \in Nat
  OBVIOUS
<1>4. /\ component - 1 \in 1 .. Len(root) /\ component - 1 + 1 = component
      /\ pathI \in component .. Len(root) + 1
  BY <1>1, <1>2, <1>3
<1> QED
  BY <1>1, <1>3, <1>4, Zenon DEF PathEnd

LEMMA PathAllScanned ==
    ASSUME PathRoot, PathScanned, pathPc = "scan", pathI = Len(root) + 1, pathI \in Nat,
           SubSeq(root, component, pathI - 1) \notin PathBad, component \in Nat
    PROVE  Path!Normal(root) /\ PathMeant(input, Len(root))
<1>1. /\ root \in Seq(Chars) /\ Len(root) > 1 /\ root[1] = "/"
      /\ \A k \in component .. Len(root) : root[k] # "/"
      /\ \A n \in 1 .. component - 2 : root[n] = "/" => PathGood(root, n)
  <2>1. Len(root) \in Nat /\ pathI - 1 = Len(root)
    BY DEF PathRoot
  <2> QED
    BY <2>1, Zenon DEF PathRoot, PathScanned
<1>2. Len(root) \in Nat /\ Len(root) \in 0 .. Len(input)
  BY <1>1 DEF PathRoot
<1>3. PathGood(root, component - 1)
  <2>1. PathEnd(root, component - 1, pathI) /\ pathI \in Nat
    BY PathScanEnds, Zenon
  <2>2. component - 1 + 1 = component
    OBVIOUS
  <2> QED
    BY <2>1, <2>2, Zenon DEF PathGood
<1>4. ASSUME NEW n \in 1 .. Len(root), root[n] = "/" PROVE PathGood(root, n)
  <2>1. n \in 1 .. component - 2 \/ n = component - 1 \/ n \in component .. Len(root)
    BY <1>2
  <2> QED
    BY <1>1, <1>3, <1>4, <2>1, Zenon
<1>5. Path!Normal(root)
  BY <1>1, <1>4, PathNormalIs, Zenon
<1> QED
  BY <1>2, <1>5, PathRootIs, Zenon DEF PathMeant, PathRoot

LEMMA PathScanStep == ASSUME PathInv, Path!Scan PROVE PathInv'
<1>0. PathRoot /\ PathSteady /\ PathVerdicts /\ PathScanned /\ pathPc = "scan"
  BY Zenon DEF PathInv, Path!Scan
<1>1. pathPc \notin {"accepted", "refused"}
  BY <1>0
<1> DEFINE N == Len(root)
           p == SubSeq(root, component, pathI - 1)
           AtEnd == pathI = N + 1
<1>2. /\ root \in Seq(Chars) /\ N \in Nat /\ N > 1 /\ root[1] = "/" /\ root[N] # "/"
      /\ root # <<>> /\ component \in 2 .. pathI /\ pathI <= N + 1 /\ root[component - 1] = "/"
      /\ \A k \in component .. pathI - 1 : root[k] # "/"
      /\ \A n \in 1 .. component - 2 : root[n] = "/" => PathGood(root, n)
      /\ input \in Seq(Chars) /\ N <= Len(input) /\ Len(input) <= MaxRoot
  BY <1>0 DEF PathScanned, PathRoot
<1>3. pathI \in Nat /\ component \in Nat /\ pathI <= MaxRoot + 1 /\ component \in 1 .. pathI
  BY <1>0, PathConstants DEF PathSteady
<1>4. p \in PathBad <=> p = <<>> \/ Path!is_dot_component(p)
  BY DEF PathBad, Path!is_dot_component
<1>5. CASE (AtEnd \/ root[pathI] = "/") /\ p \in PathBad
  <2>1. Path!Refuse("INVALID")
    BY <1>4, <1>5, Zenon DEF Path!Scan, Path!AtEnd
  <2>2. ASSUME NEW n \in Nat, PathMeant(input, n) PROVE FALSE
    <3>1. Path!Normal(root)
      BY <1>0, <1>2, <2>2, PathOnly, Zenon
    <3>2. /\ component - 1 \in 1 .. N /\ root[component - 1] = "/"
          /\ PathEnd(root, component - 1, pathI) /\ pathI \in Nat
      BY <1>0, <1>3, <1>5, PathScanEnds, Zenon
    <3>3. PathGood(root, component - 1)
      BY <1>2, <3>1, <3>2, PathNormalIs, Zenon
    <3>4. PICK d \in Nat : PathEnd(root, component - 1, d)
                           /\ SubSeq(root, component - 1 + 1, d - 1) \notin PathBad
      BY <3>3, Zenon DEF PathGood
    <3>5. d = pathI
      BY <1>2, <3>2, <3>4, PathEndIsOne, Zenon
    <3>6. component - 1 + 1 = component
      BY <1>3
    <3> QED
      BY <1>5, <3>4, <3>5, <3>6, Zenon
  <2>3. PathConclusion(input, reader, <<"INVALID">>)
    BY <2>2, Zenon DEF PathConclusion
  <2> QED
    BY <1>1, <2>1, <2>3, PathRefused, Zenon
<1>6. CASE ~AtEnd /\ root[pathI] = "/" /\ p \notin PathBad
  <2>1. /\ pathI' = pathI + 1 /\ component' = pathI + 1 /\ pathPc' = pathPc
        /\ input' = input /\ reader' = reader /\ root' = root /\ verdict' = verdict
    BY <1>4, <1>6, Zenon DEF Path!Scan, Path!AtEnd
  <2>2. PathRoot'
    BY <1>0, <2>1, Zenon DEF PathRoot
  <2>3. pathI <= N
    BY <1>2, <1>3, <1>6
  <2>4. PathSteady'
    <3>1. pathI' \in 1 .. MaxRoot + 1 /\ component' \in 1 .. pathI'
      BY <1>2, <1>3, <2>1, <2>3, PathConstants
    <3> QED
      BY <1>0, <2>1, <3>1, Zenon DEF PathSteady
  <2>5. PathVerdicts'
    BY <1>0, <1>1, <2>1, PathGoesOn, Zenon
  <2>6. PathScanned'
    <3>1. PathGood(root, component - 1)
      <4>1. PathEnd(root, component - 1, pathI)
        BY <1>0, <1>3, <1>6, PathScanEnds, Zenon
      <4>2. component - 1 + 1 = component
        BY <1>3
      <4> QED
        BY <1>3, <1>6, <4>1, <4>2, Zenon DEF PathGood
    <3>2. ASSUME NEW n \in 1 .. pathI - 1, root[n] = "/" PROVE PathGood(root, n)
      <4>1. n \in 1 .. component - 2 \/ n = component - 1 \/ n \in component .. pathI - 1
        BY <1>2, <1>3
      <4> QED
        BY <1>2, <3>1, <3>2, <4>1, Zenon
    <3>3. /\ component' \in 2 .. pathI' /\ pathI' <= N + 1 /\ component' - 1 = pathI
          /\ component' .. pathI' - 1 = {} /\ component' - 2 = pathI - 1
      BY <1>2, <1>3, <2>1, <2>3
    <3> QED
      BY <1>0, <1>2, <1>6, <2>1, <3>2, <3>3, Zenon DEF PathScanned
  <2> QED
    BY <2>2, <2>4, <2>5, <2>6, Zenon DEF PathInv
<1>7. CASE AtEnd /\ p \notin PathBad
  <2>1. PathMeant(input, N)
    BY <1>0, <1>3, <1>7, PathAllScanned, Zenon
  <2>2. CASE Path!TooLong
    <3>1. Path!Refuse("PATH_TOO_LONG")
      BY <1>4, <1>7, <2>2, Zenon DEF Path!Scan, Path!AtEnd
    <3>2. reader = "layout" /\ N > Capacity - 1 - Suffix
      BY <2>2, Zenon DEF Path!TooLong
    <3>3. PathConclusion(input, reader, <<"PATH_TOO_LONG">>)
      BY <1>2, <2>1, <3>2, Zenon DEF PathConclusion
    <3> QED
      BY <1>1, <3>1, <3>3, PathRefused, Zenon
  <2>3. CASE ~Path!TooLong
    <3>1. /\ pathPc' = "accepted" /\ verdict' = [verdict EXCEPT ![reader] = <<"OK", root>>]
          /\ input' = input /\ reader' = reader /\ root' = root /\ pathI' = pathI
          /\ component' = component
      BY <1>4, <1>7, <2>3, Zenon DEF Path!Scan, Path!AtEnd
    <3>2. PathRoot' /\ PathSteady'
      BY <1>0, <3>1, Zenon DEF PathRoot, PathSteady
    <3>3. PathVerdicts'
      <4>1. reader \in {"verify", "layout"} /\ verdict = [r \in {"verify", "layout"} |-> verdict[r]]
        BY <1>0, Zenon DEF PathSteady, PathVerdicts
      <4>2. /\ verdict' = [r \in {"verify", "layout"} |-> verdict'[r]]
            /\ verdict'[reader] = <<"OK", root>>
            /\ \A r \in {"verify", "layout"} : r # reader => verdict'[r] = verdict[r]
        BY <3>1, <4>1
      <4>3. reader = "layout" => N <= Capacity - 1 - Suffix
        BY <1>2, <2>3, PathConstants DEF Path!TooLong
      <4>4. PathConclusion(input, reader, <<"OK", root>>)
        BY <1>0, <1>2, <2>1, <4>3, PathRootIs, Zenon DEF PathConclusion
      <4>5. PathConclusion(input, "verify", verdict'["verify"])
            /\ PathConclusion(input, "layout", verdict'["layout"])
        BY <1>0, <4>1, <4>2, <4>4, Zenon DEF PathVerdicts
      <4>6. verdict'[reader] # <<"none">>
        BY <4>2, PathTold, Zenon
      <4>7. reader = "verify" => verdict'["layout"] = <<"none">>
        BY <1>0, <4>2, Zenon DEF PathVerdicts
      <4>8. reader = "layout" => verdict'["verify"] # <<"none">>
        BY <1>0, <4>2, Zenon DEF PathVerdicts
      <4>9. pathPc' = "accepted" /\ pathPc' # "refused"
        BY <3>1
      <4> QED
        BY <3>1, <4>2, <4>5, <4>6, <4>7, <4>8, <4>9, Zenon DEF PathVerdicts
    <3>4. PathScanned'
      BY <3>1 DEF PathScanned
    <3> QED
      BY <3>2, <3>3, <3>4, Zenon DEF PathInv
  <2> QED
    BY <2>2, <2>3
<1>8. CASE ~(AtEnd \/ root[pathI] = "/")
  <2>1. /\ pathI' = pathI + 1 /\ component' = component /\ pathPc' = pathPc
        /\ input' = input /\ reader' = reader /\ root' = root /\ verdict' = verdict
    BY <1>8, Zenon DEF Path!Scan, Path!AtEnd
  <2>2. PathRoot'
    BY <1>0, <2>1, Zenon DEF PathRoot
  <2>3. pathI <= N
    BY <1>2, <1>3, <1>8
  <2>4. PathSteady'
    <3>1. pathI' \in 1 .. MaxRoot + 1 /\ component' \in 1 .. pathI'
      BY <1>2, <1>3, <2>1, <2>3, PathConstants
    <3> QED
      BY <1>0, <2>1, <3>1, Zenon DEF PathSteady
  <2>5. PathVerdicts'
    BY <1>0, <1>1, <2>1, PathGoesOn, Zenon
  <2>6. PathScanned'
    <3>1. /\ component' \in 2 .. pathI' /\ pathI' <= N + 1
          /\ \A k \in component .. pathI' - 1 : k \in component .. pathI - 1 \/ k = pathI
      BY <1>2, <1>3, <2>1, <2>3
    <3> QED
      BY <1>0, <1>2, <1>8, <2>1, <3>1, Zenon DEF PathScanned
  <2> QED
    BY <2>2, <2>4, <2>5, <2>6, Zenon DEF PathInv
<1> QED
  BY <1>5, <1>6, <1>7, <1>8, Zenon

LEMMA PathHandOverStep == ASSUME PathInv, Path!HandOver PROVE PathInv'
<1>0. PathRoot /\ PathSteady /\ PathVerdicts
  BY Zenon DEF PathInv
<1>1. /\ reader = "verify" /\ pathPc \in {"accepted", "refused"} /\ reader' = "layout"
      /\ pathPc' = "begin" /\ root' \in {root, input} /\ input' = input /\ pathI' = pathI
      /\ component' = component /\ verdict' = verdict
  BY DEF Path!HandOver
<1>2. PathRoot'
  <2>1. CASE root' = root
    BY <1>0, <1>1, <2>1, Zenon DEF PathRoot
  <2>2. CASE root' = input
    <3>1. Len(input) <= Len(input) /\ Path!Slashes(input, Len(input))
      BY <1>0 DEF PathRoot, Path!Slashes
    <3> QED
      BY <1>0, <1>1, <2>2, <3>1, Zenon DEF PathRoot
  <2> QED
    BY <1>1, <2>1, <2>2
<1>3. PathSteady'
  BY <1>0, <1>1, Zenon DEF PathSteady
<1>4. PathVerdicts'
  <2>1. verdict["layout"] = <<"none">>
    BY <1>0, <1>1, Zenon DEF PathVerdicts
  <2>2. verdict["verify"] # <<"none">>
    BY <1>0, <1>1, PathTold, Zenon DEF PathVerdicts
  <2>3. pathPc' # "accepted" /\ pathPc' # "refused" /\ reader' # "verify"
    BY <1>1
  <2> QED
    BY <1>0, <1>1, <2>1, <2>2, <2>3, Zenon DEF PathVerdicts
<1>5. PathScanned'
  BY <1>1 DEF PathScanned
<1> QED
  BY <1>2, <1>3, <1>4, <1>5, Zenon DEF PathInv

LEMMA PathStutters == ASSUME PathInv, UNCHANGED pathVars PROVE PathInv'
<1>1. /\ input' = input /\ reader' = reader /\ root' = root /\ pathPc' = pathPc
      /\ pathI' = pathI /\ component' = component /\ verdict' = verdict
  BY Zenon DEF pathVars
<1> QED
  BY <1>1, Zenon DEF PathInv, PathRoot, PathSteady, PathVerdicts, PathScanned

LEMMA PathStep == ASSUME PathInv, Path!Next PROVE PathInv'
<1>1. CASE Path!Done
  <2>1. UNCHANGED pathVars
    BY <1>1, Zenon DEF Path!Done, Path!vars, pathVars
  <2> QED
    BY <2>1, PathStutters, Zenon
<1> QED
  BY <1>1, PathBeginStep, PathTrimStep, PathScanStep, PathHandOverStep, Zenon DEF Path!Next

(* The readers accept the same normal paths, and nothing else.               *)
LEMMA PathIsGood ==
    ASSUME PathInv
    PROVE  /\ Path!TypeOK /\ Path!AcceptsNormalPaths /\ Path!ReadersAgree /\ Path!LocationsFit
<1>0. PathRoot /\ PathSteady /\ PathVerdicts /\ input \in Seq(Chars)
  BY Zenon DEF PathInv, PathRoot
<1>1. Path!TypeOK
  BY <1>0, Zenon DEF Path!TypeOK, PathRoot, PathSteady
<1>2. Path!AcceptsNormalPaths
  <2> DEFINE meant == {n \in 0 .. Len(input) :
                         Path!Slashes(input, n) /\ Path!Normal(SubSeq(input, 1, n))}
             limit == IF reader = "layout" THEN Capacity - 1 - Suffix ELSE Capacity - 1
  <2>1. \A n : n \in meant <=> PathMeant(input, n)
    BY Zenon DEF PathMeant
  <2>2. reader \in {"verify", "layout"} /\ PathConclusion(input, reader, verdict[reader])
    BY <1>0, Zenon DEF PathVerdicts, PathSteady
  <2> HIDE DEF meant
  <2>3. CASE pathPc = "accepted"
    <3>1. verdict[reader] = <<"OK", root>>
      BY <1>0, <2>3, Zenon DEF PathVerdicts
    <3>2. PICK n \in Nat : PathMeant(input, n) /\ <<"OK", root>> = <<"OK", SubSeq(input, 1, n)>>
      BY <2>2, <3>1, PathTold, Zenon DEF PathConclusion
    <3>3. root = SubSeq(input, 1, n)
      BY <3>2, PathTold, Zenon
    <3>4. \E m \in meant : root = SubSeq(input, 1, m)
      BY <2>1, <3>2, <3>3, Zenon
    <3> QED
      BY <2>3, <3>4, Zenon DEF Path!AcceptsNormalPaths, meant
  <2>4. CASE pathPc = "refused"
    <3>1. verdict[reader] \in {<<"INVALID">>, <<"PATH_TOO_LONG">>}
      BY <1>0, <2>4, Zenon DEF PathVerdicts
    <3>2. \/ \A n \in Nat : ~PathMeant(input, n)
          \/ Len(input) >= Capacity
          \/ reader = "layout" /\ \E n \in Nat : PathMeant(input, n) /\ n > Capacity - 1 - Suffix
      BY <2>2, <3>1, PathTold, Zenon DEF PathConclusion
    <3>3. \A n : PathMeant(input, n) => n \in Nat
      BY <1>0, PathMeantIs, Zenon
    <3>4. meant = {} \/ Len(input) >= Capacity \/ \E n \in meant : n > limit
      BY <2>1, <3>2, <3>3, Zenon
    <3>5. pathPc # "accepted"
      BY <2>4
    <3> QED
      BY <3>4, <3>5, Zenon DEF Path!AcceptsNormalPaths, meant
  <2>5. CASE pathPc \notin {"accepted", "refused"}
    BY <2>5, Zenon DEF Path!AcceptsNormalPaths
  <2> QED
    BY <2>3, <2>4, <2>5
<1>3. Path!ReadersAgree
  <2> SUFFICES ASSUME reader = "layout", pathPc \in {"accepted", "refused"},
                      verdict["verify"][1] = "OK"
               PROVE  verdict["layout"] \in {verdict["verify"], <<"PATH_TOO_LONG">>}
    BY Zenon DEF Path!ReadersAgree
  <2>1. PICK n \in Nat : PathMeant(input, n) /\ verdict["verify"] = <<"OK", SubSeq(input, 1, n)>>
    BY <1>0, PathTold, Zenon DEF PathVerdicts, PathConclusion
  <2>2. verdict["layout"] # <<"none">>
    <3>1. pathPc = "accepted" => verdict["layout"] = <<"OK", root>>
      BY <1>0, Zenon DEF PathVerdicts
    <3>2. pathPc = "refused" => verdict["layout"] \in {<<"INVALID">>, <<"PATH_TOO_LONG">>}
      BY <1>0, Zenon DEF PathVerdicts
    <3> QED
      BY <3>1, <3>2, PathTold, Zenon
  <2>3. verdict["layout"] # <<"INVALID">>
    BY <1>0, <2>1, PathTold, Zenon DEF PathVerdicts, PathConclusion
  <2>4. ASSUME NEW m \in Nat, PathMeant(input, m) PROVE m = n
    BY <1>0, <2>1, <2>4, PathMeantIsOne, Zenon
  <2> QED
    BY <1>0, <2>1, <2>2, <2>3, <2>4, Zenon DEF PathVerdicts, PathConclusion
<1>4. Path!LocationsFit
  <2> SUFFICES ASSUME verdict["layout"][1] = "OK"
               PROVE  Len(verdict["layout"][2]) + Suffix + 1 <= Capacity
    BY Zenon DEF Path!LocationsFit
  <2>1. PICK n \in Nat : /\ PathMeant(input, n) /\ verdict["layout"] = <<"OK", SubSeq(input, 1, n)>>
                         /\ n <= Capacity - 1 - Suffix
    BY <1>0, PathTold, Zenon DEF PathVerdicts, PathConclusion
  <2>2. verdict["layout"][2] = SubSeq(input, 1, n)
    BY <2>1, PathTold, Zenon
  <2>3. n \in 0 .. Len(input)
    BY <2>1, Zenon DEF PathMeant
  <2>4. Len(verdict["layout"][2]) = n
    BY <1>0, <2>2, <2>3, PathPrefix, Zenon
  <2> QED
    BY <2>1, <2>4, PathConstants
<1> QED
  BY <1>1, <1>2, <1>3, <1>4

-----------------------------------------------------------------------------
(* Server addresses.                                                         *)
UrlPiece == [kind : Url!Plain \cup Url!Odd, n : Nat \ {0}, value : Nat]

UrlInv == scheme \in Schemes /\ rest \in Seq(UrlPiece)

(* The length of a text is a sum.                                            *)
UrlSum(u, s) ==
    /\ u \in [0 .. Len(s) -> Nat] /\ u[0] = 0
    /\ \A k \in 1 .. Len(s) : u[k] = u[k - 1] + s[k].n

LEMMA UrlPieceHas ==
    ASSUME NEW s \in Seq(UrlPiece), NEW k \in 1 .. Len(s)
    PROVE  s[k].n \in Nat \ {0} /\ s[k].kind \in Url!Plain \cup Url!Odd /\ s[k] \in UrlPiece
<1>1. s[k] \in UrlPiece
  OBVIOUS
<1> QED
  BY <1>1 DEF UrlPiece

LEMMA UrlLengthIs ==
    ASSUME NEW s \in Seq(UrlPiece)
    PROVE  \E u : UrlSum(u, s) /\ Url!Length(s) = u[Len(s)]
<1> DEFINE w == [k \in 1 .. Len(s) |-> s[k].n]
<1>0. Len(s) \in Nat
  OBVIOUS
<1>1. \A k \in 1 .. Len(s) : w[k] = s[k].n /\ w[k] \in Nat
  BY UrlPieceHas
<1> HIDE DEF w
<1>2. PICK v : /\ v \in [0 .. Len(s) -> Nat]
               /\ v = [n \in 0 .. Len(s) |-> IF n = 0 THEN 0 ELSE v[n - 1] + w[n]]
  BY <1>0, <1>1, Sums, Zenon
<1>3. \A n \in 0 .. Len(s) : n # 0 => n \in 1 .. Len(s)
  BY <1>0
<1>4. v = [i \in 0 .. Len(s) |-> IF i = 0 THEN 0 ELSE v[i - 1] + s[i].n]
  <2>1. [i \in 0 .. Len(s) |-> IF i = 0 THEN 0 ELSE v[i - 1] + w[i]]
        = [i \in 0 .. Len(s) |-> IF i = 0 THEN 0 ELSE v[i - 1] + s[i].n]
    BY <1>1, <1>3, Zenon
  <2> QED
    BY <1>2, <2>1, Zenon
<1> DEFINE Is(u) == u = [i \in 0 .. Len(s) |-> IF i = 0 THEN 0 ELSE u[i - 1] + s[i].n]
           c == CHOOSE u : Is(u)
<1>5. Is(c)
  BY <1>4, Zenon
<1>6. Url!Length(s) = c[Len(s)]
  BY Zenon DEF Url!Length
<1>7. Is(v)
  BY <1>4
<1> HIDE DEF c
<1>8. \A k \in 0 .. Len(s) : c[k] = v[k]
  <2> DEFINE P == {k \in 0 .. Len(s) : c[k] = v[k]}
  <2>1. 0 \in P
    BY <1>0, <1>5, <1>7
  <2>2. ASSUME NEW k \in 1 .. Len(s), k - 1 \in P PROVE k \in P
    <3>1. k \in 0 .. Len(s) /\ k # 0
      BY <1>0
    <3>2. c[k] = c[k - 1] + s[k].n /\ v[k] = v[k - 1] + s[k].n
      BY <1>5, <1>7, <3>1
    <3> QED
      BY <2>2, <3>1, <3>2
  <2> HIDE DEF P
  <2>3. \A k \in 0 .. Len(s) : k \in P
    BY <1>0, <2>1, <2>2, Induction
  <2> QED
    BY <2>3 DEF P
<1>9. Len(s) \in 0 .. Len(s) /\ 0 \in 0 .. Len(s)
  BY <1>0
<1>10. v[0] = 0 /\ \A k \in 1 .. Len(s) : v[k] = v[k - 1] + s[k].n
  <2>1. \A k \in 1 .. Len(s) : k \in 0 .. Len(s) /\ k # 0
    BY <1>0
  <2> QED
    BY <1>7, <1>9, <2>1
<1> QED
  BY <1>2, <1>6, <1>8, <1>9, <1>10, Zenon DEF UrlSum

LEMMA UrlLengthNat ==
    ASSUME NEW s \in Seq(UrlPiece) PROVE Url!Length(s) \in Nat
<1>1. PICK u : UrlSum(u, s) /\ Url!Length(s) = u[Len(s)]
  BY UrlLengthIs
<1>2. Len(s) \in 0 .. Len(s)
  OBVIOUS
<1> QED
  BY <1>1, <1>2 DEF UrlSum

(* Two texts that begin alike.                                               *)
UrlAlike(s, t, n) ==
    n \in Nat /\ n <= Len(s) /\ n <= Len(t) /\ \A k \in 1 .. n : s[k] = t[k]
UrlSame(u, v, n) == u[n] = v[n]

LEMMA UrlSumsAgree ==
    ASSUME NEW s \in Seq(UrlPiece), NEW t \in Seq(UrlPiece), NEW u, NEW v,
           UrlSum(u, s), UrlSum(v, t), NEW n, UrlAlike(s, t, n)
    PROVE  UrlSame(u, v, n)
<1>0. n \in Nat /\ n <= Len(s) /\ n <= Len(t) /\ \A k \in 1 .. n : s[k] = t[k]
  BY Zenon DEF UrlAlike
<1> DEFINE P == {k \in 0 .. n : u[k] = v[k]}
<1>1. 0 \in P
  BY <1>0 DEF UrlSum
<1>2. ASSUME NEW k \in 1 .. n, k - 1 \in P PROVE k \in P
  <2>1. k \in 1 .. Len(s) /\ k \in 1 .. Len(t) /\ s[k] = t[k] /\ k \in 0 .. n
    BY <1>0
  <2>2. u[k] = u[k - 1] + s[k].n /\ v[k] = v[k - 1] + t[k].n
    BY <2>1, Zenon DEF UrlSum
  <2> QED
    BY <1>2, <2>1, <2>2
<1> HIDE DEF P
<1>3. \A k \in 0 .. n : k \in P
  BY <1>0, <1>1, <1>2, Induction
<1>4. n \in 0 .. n
  BY <1>0
<1> QED
  BY <1>3, <1>4 DEF P, UrlSame

LEMMA UrlLengthOfStart ==
    ASSUME NEW s \in Seq(UrlPiece), NEW t \in Seq(UrlPiece), Len(t) <= Len(s),
           \A k \in 1 .. Len(t) : t[k] = s[k]
    PROVE  Url!Length(t) <= Url!Length(s)
<1>1. PICK u : UrlSum(u, s) /\ Url!Length(s) = u[Len(s)]
  BY UrlLengthIs
<1>2. PICK v : UrlSum(v, t) /\ Url!Length(t) = v[Len(t)]
  BY UrlLengthIs
<1>3. Len(t) \in Nat /\ Len(s) \in Nat /\ Len(t) <= Len(t)
  OBVIOUS
<1>4. v[Len(t)] = u[Len(t)]
  <2>1. UrlAlike(t, s, Len(t))
    BY <1>3, Zenon DEF UrlAlike
  <2>2. UrlSame(v, u, Len(t))
    BY <1>1, <1>2, <2>1, UrlSumsAgree, Zenon
  <2> QED
    BY <2>2, Zenon DEF UrlSame
<1> DEFINE P == {k \in 0 .. Len(s) : k >= Len(t) => u[Len(t)] <= u[k]}
<1>5. Len(t) \in 0 .. Len(s) /\ u[Len(t)] \in Nat
  BY <1>1, <1>3 DEF UrlSum
<1>6. 0 \in P
  <2>1. 0 >= Len(t) => Len(t) = 0
    BY <1>3
  <2> QED
    BY <1>3, <1>5, <2>1
<1>7. ASSUME NEW k \in 1 .. Len(s), k - 1 \in P PROVE k \in P
  <2>1. u[k] = u[k - 1] + s[k].n /\ u[k] \in Nat /\ u[k - 1] \in Nat /\ s[k].n \in Nat
    <3>1. k \in 0 .. Len(s) /\ k - 1 \in 0 .. Len(s)
      BY <1>3
    <3> QED
      BY <1>1, <3>1, UrlPieceHas DEF UrlSum
  <2>2. k = Len(t) \/ k - 1 >= Len(t) \/ ~(k >= Len(t))
    BY <1>3
  <2> QED
    BY <1>3, <1>5, <1>7, <2>1, <2>2
<1> HIDE DEF P
<1>8. \A k \in 0 .. Len(s) : k \in P
  BY <1>3, <1>6, <1>7, Induction
<1>9. Len(s) \in P /\ Len(s) >= Len(t)
  BY <1>3, <1>8
<1> QED
  BY <1>1, <1>2, <1>4, <1>9 DEF P

LEMMA UrlLengthOfMore ==
    ASSUME NEW s \in Seq(UrlPiece), NEW p \in UrlPiece
    PROVE  Url!Length(s \o <<p>>) = Url!Length(s) + p.n
<1> DEFINE t == s \o <<p>>
<1>1. /\ t \in Seq(UrlPiece) /\ Len(t) = Len(s) + 1 /\ t[Len(s) + 1] = p
      /\ \A k \in 1 .. Len(s) : t[k] = s[k]
  OBVIOUS
<1> HIDE DEF t
<1>2. PICK u : UrlSum(u, s) /\ Url!Length(s) = u[Len(s)]
  BY UrlLengthIs
<1>3. PICK v : UrlSum(v, t) /\ Url!Length(t) = v[Len(t)]
  BY <1>1, UrlLengthIs
<1>4. Len(s) \in Nat /\ Len(s) <= Len(t) /\ Len(s) <= Len(s)
  BY <1>1
<1>5. v[Len(s)] = u[Len(s)]
  <2>1. UrlAlike(t, s, Len(s))
    BY <1>1, <1>4, Zenon DEF UrlAlike
  <2>2. UrlSame(v, u, Len(s))
    BY <1>1, <1>2, <1>3, <2>1, UrlSumsAgree, Zenon
  <2> QED
    BY <2>2, Zenon DEF UrlSame
<1>6. Len(t) \in 1 .. Len(t) /\ Len(t) - 1 = Len(s)
  BY <1>1, <1>4
<1>7. v[Len(t)] = v[Len(t) - 1] + t[Len(t)].n
  BY <1>3, <1>6, Zenon DEF UrlSum
<1>8. v[Len(t)] = u[Len(s)] + p.n
  BY <1>1, <1>5, <1>6, <1>7
<1> QED
  BY <1>2, <1>3, <1>8 DEF t

LEMMA UrlLengthOfNone == Url!Length(<< >>) = 0
<1>1. << >> \in Seq(UrlPiece) /\ Len(<< >>) = 0
  OBVIOUS
<1>2. PICK u : UrlSum(u, << >>) /\ Url!Length(<< >>) = u[Len(<< >>)]
  BY <1>1, UrlLengthIs, Zenon
<1> QED
  BY <1>1, <1>2 DEF UrlSum

LEMMA UrlLengthOfOne ==
    ASSUME NEW p \in UrlPiece PROVE Url!Length(<<p>>) = p.n
<1>1. << >> \in Seq(UrlPiece) /\ <<p>> = << >> \o <<p>>
  OBVIOUS
<1>3. Url!Length(<< >>) = 0
  BY UrlLengthOfNone
<1>4. p.n \in Nat
  BY DEF UrlPiece
<1>5. Url!Length(<< >> \o <<p>>) = Url!Length(<< >>) + p.n
  BY <1>1, UrlLengthOfMore, Zenon
<1>6. Url!Length(<<p>>) = 0 + p.n
  BY <1>1, <1>3, <1>5, Zenon
<1> QED
  BY <1>4, <1>6

-----------------------------------------------------------------------------
(* The parts of an address.                                                  *)
LEMMA UrlFirst ==
    ASSUME NEW s \in Seq(UrlPiece), NEW kinds
    PROVE  /\ Url!FirstOf(s, kinds) \in 1 .. Len(s) + 1
           /\ Url!FirstOf(s, kinds) > Len(s) \/ s[Url!FirstOf(s, kinds)].kind \in kinds
           /\ \A j \in 1 .. Url!FirstOf(s, kinds) - 1 : s[j].kind \notin kinds
<1> DEFINE Found == {i \in Nat : i \in 1 .. Len(s) + 1 /\ (i > Len(s) \/ s[i].kind \in kinds)}
<1>1. Len(s) \in Nat /\ Len(s) + 1 \in Found
  OBVIOUS
<1>2. PICK i \in Found : \A j \in Found : i <= j
  BY <1>1, Least
<1>3. \A j \in 1 .. i - 1 : s[j].kind \notin kinds
  <2> SUFFICES ASSUME NEW j \in 1 .. i - 1, s[j].kind \in kinds PROVE FALSE
    OBVIOUS
  <2>1. j \in Found /\ ~(i <= j)
    BY <1>1, <1>2
  <2> QED
    BY <1>2, <2>1
<1>4. /\ i \in 1 .. Len(s) + 1 /\ (i > Len(s) \/ s[i].kind \in kinds)
      /\ \A j \in 1 .. i - 1 : s[j].kind \notin kinds
  BY <1>2, <1>3
<1> QED
  BY <1>4, Zenon DEF Url!FirstOf

UrlWithin(t, s) == t \in Seq(UrlPiece) /\ Url!KindsOf(t) \subseteq Url!KindsOf(s)

LEMMA UrlPartIs ==
    ASSUME NEW s \in Seq(UrlPiece), NEW m \in Nat \ {0}, NEW n \in 0 .. Len(s)
    PROVE  /\ UrlWithin(SubSeq(s, m, n), s)
           /\ Len(SubSeq(s, m, n)) = IF m <= n THEN n - m + 1 ELSE 0
           /\ \A k \in 1 .. Len(SubSeq(s, m, n)) : SubSeq(s, m, n)[k] = s[m + k - 1]
<1> DEFINE t == SubSeq(s, m, n)
<1>1. /\ t \in Seq(UrlPiece) /\ Len(t) = (IF m <= n THEN n - m + 1 ELSE 0)
      /\ \A k \in 1 .. n - m + 1 : t[k] = s[m + k - 1]
  BY PartIs, Zenon
<1> HIDE DEF t
<1>2. Len(s) \in Nat
  OBVIOUS
<1>3. \A k \in 1 .. Len(t) : k \in 1 .. n - m + 1 /\ m + k - 1 \in 1 .. Len(s)
  BY <1>1, <1>2
<1>4. Url!KindsOf(t) \subseteq Url!KindsOf(s)
  <2>1. DOMAIN t = 1 .. Len(t) /\ DOMAIN s = 1 .. Len(s)
    BY <1>1
  <2> QED
    BY <1>1, <1>3, <2>1 DEF Url!KindsOf
<1>5. \A k \in 1 .. Len(t) : t[k] = s[m + k - 1]
  BY <1>1, <1>3
<1>6. UrlWithin(t, s)
  BY <1>1, <1>4, Zenon DEF UrlWithin
<1> QED
  BY <1>1, <1>5, <1>6, Zenon DEF t

LEMMA UrlAuthority ==
    ASSUME NEW s \in Seq(UrlPiece)
    PROVE  /\ UrlWithin(Url!Authority(s), s)
           /\ Url!KindsOf(Url!Authority(s)) \cap {"slash", "path"} = {}
<1> DEFINE f == Url!FirstOf(s, {"slash", "path"})
           t == Url!Authority(s)
<1>1. f \in 1 .. Len(s) + 1 /\ \A j \in 1 .. f - 1 : s[j].kind \notin {"slash", "path"}
  BY UrlFirst, Zenon
<1>2. t = SubSeq(s, 1, f - 1)
  BY Zenon DEF Url!Authority
<1> HIDE DEF f, t
<1>3. Len(s) \in Nat /\ f - 1 \in 0 .. Len(s) /\ 1 \in Nat \ {0}
  BY <1>1
<1>4. /\ UrlWithin(t, s) /\ Len(t) = (IF 1 <= f - 1 THEN f - 1 - 1 + 1 ELSE 0)
      /\ \A k \in 1 .. Len(t) : t[k] = s[1 + k - 1]
  BY <1>2, <1>3, UrlPartIs, Zenon
<1>5. \A k \in 1 .. Len(t) : k \in 1 .. f - 1 /\ 1 + k - 1 = k
  BY <1>1, <1>4
<1>6. \A k \in 1 .. Len(t) : t[k].kind \notin {"slash", "path"}
  BY <1>1, <1>4, <1>5, Zenon
<1>7. DOMAIN t = 1 .. Len(t)
  BY <1>4 DEF UrlWithin
<1>8. Url!KindsOf(t) \cap {"slash", "path"} = {}
  BY <1>6, <1>7, Zenon DEF Url!KindsOf
<1> QED
  BY <1>4, <1>8, Zenon DEF t

LEMMA UrlPath ==
    ASSUME NEW s \in Seq(UrlPiece)
    PROVE  /\ UrlWithin(Url!PathOf(s), s)
           /\ Url!PathOf(s) # << >> => Url!PathOf(s)[1].kind \in {"slash", "path"}
<1> DEFINE f == Url!FirstOf(s, {"slash", "path"})
           t == Url!PathOf(s)
<1>1. f \in 1 .. Len(s) + 1 /\ (f > Len(s) \/ s[f].kind \in {"slash", "path"})
  BY UrlFirst, Zenon
<1>2. t = SubSeq(s, f, Len(s))
  BY Zenon DEF Url!PathOf
<1> HIDE DEF f, t
<1>3. Len(s) \in Nat /\ f \in Nat \ {0} /\ Len(s) \in 0 .. Len(s)
  BY <1>1
<1>4. /\ UrlWithin(t, s) /\ Len(t) = (IF f <= Len(s) THEN Len(s) - f + 1 ELSE 0)
      /\ \A k \in 1 .. Len(t) : t[k] = s[f + k - 1]
  BY <1>2, <1>3, UrlPartIs, Zenon
<1>5. t # << >> => Len(t) \in Nat /\ Len(t) # 0
  BY <1>4 DEF UrlWithin
<1>6. t # << >> => f <= Len(s) /\ 1 \in 1 .. Len(t) /\ f + 1 - 1 = f
  BY <1>3, <1>4, <1>5
<1>7. t # << >> => t[1].kind \in {"slash", "path"}
  BY <1>1, <1>3, <1>4, <1>6
<1> QED
  BY <1>4, <1>7, Zenon DEF t

LEMMA UrlHostAndPort ==
    ASSUME NEW s \in Seq(UrlPiece)
    PROVE  /\ UrlWithin(Url!HostOf(s), Url!Authority(s))
           /\ UrlWithin(Url!PortOf(s), Url!Authority(s))
           /\ Url!Authority(s) = << >> => Url!HostOf(s) = << >>
<1> DEFINE a == Url!Authority(s)
           f == Url!FirstOf(a, {"colon"})
           h == Url!HostOf(s)
<1>1. a \in Seq(UrlPiece)
  BY UrlAuthority, Zenon DEF UrlWithin
<1>2. h = SubSeq(a, 1, f - 1) /\ Url!PortOf(s) = SubSeq(a, Len(h) + 2, Len(a))
  BY Zenon DEF Url!HostOf, Url!PortOf
<1> HIDE DEF a
<1>3. f \in 1 .. Len(a) + 1
  BY <1>1, UrlFirst, Zenon
<1> HIDE DEF f, h
<1>4. Len(a) \in Nat /\ f - 1 \in 0 .. Len(a) /\ 1 \in Nat \ {0}
  BY <1>1, <1>3
<1>5. UrlWithin(h, a) /\ Len(h) = IF 1 <= f - 1 THEN f - 1 - 1 + 1 ELSE 0
  BY <1>1, <1>2, <1>4, UrlPartIs, Zenon
<1>6. Len(h) + 2 \in Nat \ {0} /\ Len(a) \in 0 .. Len(a)
  BY <1>4, <1>5 DEF UrlWithin
<1>7. UrlWithin(SubSeq(a, Len(h) + 2, Len(a)), a)
  BY <1>1, <1>6, UrlPartIs, Zenon
<1>8. a = << >> => h = << >>
  <2>1. a = << >> => Len(h) = 0
    BY <1>3, <1>5
  <2> QED
    BY <1>5, <2>1, EmptySeq DEF UrlWithin
<1> QED
  BY <1>2, <1>5, <1>7, <1>8, Zenon DEF a, h

LEMMA UrlTrimmed ==
    ASSUME NEW s \in Seq(UrlPiece)
    PROVE  /\ UrlWithin(Url!Trimmed(s), s)
           /\ Url!Length(Url!Trimmed(s)) <= Url!Length(s)
           /\ Url!Trimmed(s) # << >> =>
                /\ s # << >> /\ Url!Trimmed(s)[1] = s[1]
                /\ Url!Trimmed(s)[Len(Url!Trimmed(s))].kind # "slash"
<1> DEFINE t == Url!Trimmed(s)
           Cut(k) == /\ k = 0 \/ s[k].kind # "slash"
                     /\ \A j \in k + 1 .. Len(s) : s[j].kind = "slash"
           c == CHOOSE k \in 0 .. Len(s) : Cut(k)
<1>0. Len(s) \in Nat
  OBVIOUS
<1>1. \E k \in 0 .. Len(s) : Cut(k)
  <2> DEFINE Left == {n \in Nat : n <= Len(s) /\ (n = Len(s) \/ s[Len(s) - n].kind # "slash")}
  <2>1. Len(s) \in Left
    BY <1>0
  <2>2. PICK n \in Left : \A m \in Left : n <= m
    BY <2>1, Least
  <2>3. Len(s) - n \in 0 .. Len(s)
    BY <1>0, <2>2
  <2>4. Len(s) - n = 0 \/ s[Len(s) - n].kind # "slash"
    BY <1>0, <2>2
  <2>5. ASSUME NEW j \in Len(s) - n + 1 .. Len(s) PROVE s[j].kind = "slash"
    <3>1. Len(s) - j \in Nat /\ Len(s) - j < n /\ Len(s) - (Len(s) - j) = j /\ Len(s) - j # Len(s)
          /\ Len(s) - j <= Len(s)
      BY <1>0, <2>2
    <3>2. Len(s) - j \notin Left
      BY <2>2, <3>1
    <3> QED
      BY <3>1, <3>2
  <2>6. Cut(Len(s) - n)
    BY <2>4, <2>5
  <2> QED
    BY <2>3, <2>6
<1>2. c \in 0 .. Len(s) /\ Cut(c)
  BY <1>1, Zenon
<1>3. t = SubSeq(s, 1, c)
  BY Zenon DEF Url!Trimmed
<1>4. c = 0 \/ s[c].kind # "slash"
  BY <1>2
<1> HIDE DEF t, c, Cut
<1>5. 1 \in Nat \ {0}
  OBVIOUS
<1>6. /\ UrlWithin(t, s) /\ Len(t) = (IF 1 <= c THEN c - 1 + 1 ELSE 0)
      /\ \A k \in 1 .. Len(t) : t[k] = s[1 + k - 1]
  BY <1>2, <1>3, <1>5, UrlPartIs, Zenon
<1>7. Len(t) = c /\ t \in Seq(UrlPiece)
  BY <1>0, <1>2, <1>6 DEF UrlWithin
<1>8. \A k \in 1 .. Len(t) : t[k] = s[k]
  <2>1. \A k \in 1 .. Len(t) : 1 + k - 1 = k
    BY <1>7
  <2> QED
    BY <1>6, <2>1
<1>9. Url!Length(t) <= Url!Length(s)
  BY <1>0, <1>2, <1>7, <1>8, UrlLengthOfStart
<1>10. t # << >> => s # << >> /\ t[1] = s[1] /\ t[Len(t)].kind # "slash"
  <2> SUFFICES ASSUME t # << >> PROVE s # << >> /\ t[1] = s[1] /\ t[Len(t)].kind # "slash"
    OBVIOUS
  <2>1. Len(t) \in Nat /\ Len(t) # 0
    BY <1>7, EmptySeq
  <2>2. 1 \in 1 .. Len(t) /\ Len(t) \in 1 .. Len(t) /\ c # 0 /\ Len(s) # 0
    BY <1>0, <1>2, <1>7, <2>1
  <2> QED
    BY <1>4, <1>7, <1>8, <2>2
<1> QED
  BY <1>6, <1>9, <1>10, Zenon DEF t

-----------------------------------------------------------------------------
(* The client that an address gives, and the requests built from it.         *)
LEMMA UrlConstants ==
    /\ NameLengths \subseteq Nat /\ BodyDigits \subseteq 0 .. 20 /\ Pieces \subseteq UrlPiece
BY UrlAssumption, Zenon DEF Url!LengthsAssumption, Url!PiecesAssumption, UrlPiece

UrlSlashFirst(p) == p # << >> => p[1].kind \in {"slash", "path"}
UrlGoodPath(p) ==
    /\ p \in Seq(UrlPiece) /\ Url!Length(p) <= 1024
    /\ Url!KindsOf(p) \cap {"space", "backslash"} = {}
    /\ UrlSlashFirst(p) /\ (p # << >> => p[Len(p)].kind # "slash")
UrlGoodClient(c) ==
    /\ c.host \in Seq(UrlPiece) /\ Url!Length(c.host) \in 1 .. 255 /\ Url!host_text_ok(c.host)
    /\ Url!Length(c.port) \in 1 .. 8 /\ Url!cn_netsimple_parse_port(c.port)
    /\ UrlGoodPath(c.base_path)

LEMMA UrlClientIs ==
    ASSUME NEW sch, NEW s
    PROVE  /\ Url!ClientOf(sch, s).host = Url!HostOf(s)
           /\ Url!ClientOf(sch, s).port =
                 (IF Url!HasPort(s) THEN Url!PortOf(s) ELSE Url!DefaultPort(sch = "https"))
           /\ Url!ClientOf(sch, s).base_path = Url!Trimmed(Url!PathOf(s))
           /\ Url!ClientOf(sch, s).tls = (sch = "https")
BY DEF Url!ClientOf

LEMMA UrlPortIs ==
    ASSUME NEW p
    PROVE  /\ Url!cn_netsimple_parse_port(p) => Url!Length(p) \in 1 .. 8
           /\ Url!decimal_port_valid(p) => /\ Url!cn_netsimple_parse_port(p)
                                           /\ Url!copy_url_part(p, 9)
<1>1. Url!Length(p) \in 1 .. 5 => Url!Length(p) \in 1 .. 8 /\ Url!Length(p) \in 1 .. 9 - 1
  OBVIOUS
<1> QED
  BY <1>1, Zenon DEF Url!cn_netsimple_parse_port, Url!decimal_port_valid, Url!copy_url_part

UrlShown(p) ==
    /\ Head(p).kind \in {"slash", "path"} /\ Url!KindsOf(p) \cap {"space", "backslash"} = {}
    /\ Url!Length(p) <= 2048

LEMMA UrlValidates ==
    ASSUME NEW host, NEW port, NEW p
    PROVE  Url!cn_netsimple_validate(host, port, p)
              <=> Url!host_text_ok(host) /\ Url!cn_netsimple_parse_port(port) /\ UrlShown(p)
<1> DEFINE n == Url!Length(p)
           ks == Url!KindsOf(p)
           k == Head(p).kind
           h == Url!host_text_ok(host)
           q == Url!cn_netsimple_parse_port(port)
<1> HIDE DEF n, ks, k, h, q
<1> QED
  BY SMT DEF n, ks, k, h, q, Url!cn_netsimple_validate, UrlShown

LEMMA UrlShownIs ==
    ASSUME NEW p
    PROVE  /\ UrlShown(p) => Url!KindsOf(p) \cap {"space", "backslash"} = {}
           /\ /\ Head(p).kind \in {"slash", "path"} /\ Url!Length(p) <= 2048
              /\ Url!KindsOf(p) \cap {"space", "backslash"} = {}
              => UrlShown(p)
BY SMT DEF UrlShown

LEMMA UrlHeadIs ==
    ASSUME NEW s \in Seq(UrlPiece), s # << >> PROVE Head(s) = s[1]
OBVIOUS

LEMMA UrlClientGood ==
    ASSUME NEW sch, NEW s \in Seq(UrlPiece), NEW name, Url!cn_kosync_client_init(sch, s, name, name)
    PROVE  name \in 1 .. 255 /\ UrlGoodClient(Url!ClientOf(sch, s))
<1> DEFINE c == Url!ClientOf(sch, s)
           shown == IF c.base_path = << >> THEN <<Url!Slash>> ELSE c.base_path
<1>1. /\ name \in 1 .. 255 /\ Url!copy_url_part(c.host, 256) /\ Url!cn_netsimple_parse_port(c.port)
      /\ Url!PathFits(Url!PathOf(s)) /\ Url!cn_netsimple_validate(c.host, c.port, shown)
  BY Zenon DEF Url!cn_kosync_client_init
<1>2. c.host = Url!HostOf(s) /\ c.base_path = Url!Trimmed(Url!PathOf(s))
  BY UrlClientIs, Zenon
<1> HIDE DEF c
<1>3. c.host \in Seq(UrlPiece)
  <2>1. Url!Authority(s) \in Seq(UrlPiece)
    BY UrlAuthority, Zenon DEF UrlWithin
  <2> QED
    BY <1>2, UrlHostAndPort, Zenon DEF UrlWithin
<1>4. Url!host_text_ok(c.host) /\ Url!Length(c.host) \in 1 .. 255
  BY <1>1, Zenon DEF Url!cn_netsimple_validate, Url!host_text_ok
<1>5. Url!Length(c.port) \in 1 .. 8
  BY <1>1, UrlPortIs, Zenon
<1> DEFINE p == Url!PathOf(s)
           b == c.base_path
<1>6. p \in Seq(UrlPiece) /\ UrlSlashFirst(p)
  BY UrlPath, Zenon DEF UrlWithin, UrlSlashFirst
<1>7. b = Url!Trimmed(p)
  BY <1>2
<1> HIDE DEF p, b
<1>8. /\ b \in Seq(UrlPiece) /\ Url!Length(b) <= Url!Length(p)
      /\ b # << >> => p # << >> /\ b[1] = p[1] /\ b[Len(b)].kind # "slash"
  BY <1>6, <1>7, UrlTrimmed, Zenon DEF UrlWithin
<1>9. Url!Length(b) <= 1024
  <2>1. Url!Length(p) <= 1024
    BY <1>1, Zenon DEF Url!PathFits, p
  <2> QED
    BY <1>6, <1>8, <2>1, UrlLengthNat
<1>10. Url!KindsOf(b) \cap {"space", "backslash"} = {}
  <2>1. CASE b = << >>
    BY <2>1 DEF Url!KindsOf
  <2>2. CASE b # << >>
    <3>1. shown = b
      BY <2>2 DEF b
    <3>2. Url!cn_netsimple_validate(c.host, c.port, b)
      BY <1>1, <3>1, Zenon
    <3> QED
      BY <3>2, UrlValidates, UrlShownIs, Zenon
  <2> QED
    BY <2>1, <2>2
<1>11. UrlGoodPath(b)
  BY <1>6, <1>8, <1>9, <1>10, Zenon DEF UrlGoodPath, UrlSlashFirst
<1> QED
  BY <1>1, <1>3, <1>4, <1>5, <1>11, Zenon DEF UrlGoodClient, c, b

LEMMA UrlParts ==
    ASSUME UrlInv PROVE Url!PartsFit /\ Url!OneSlashBeforeEndpoint
<1>0. rest \in Seq(UrlPiece)
  BY DEF UrlInv
<1> DEFINE c == Url!ClientOf(scheme, rest)
<1>1. ASSUME NEW name \in NameLengths, Url!cn_kosync_client_init(scheme, rest, name, name)
      PROVE  UrlGoodClient(c)
  BY <1>0, <1>1, UrlClientGood, Zenon
<1> HIDE DEF c
<1>2. ASSUME NEW name \in NameLengths, Url!cn_kosync_client_init(scheme, rest, name, name)
      PROVE  Url!Length(c.host) < 256 /\ Url!Length(c.port) < 9 /\ Url!Length(c.base_path) < 1025
  <2>1. UrlGoodClient(c)
    BY <1>1, <1>2
  <2>2. /\ Url!Length(c.host) \in 1 .. 255 /\ Url!Length(c.port) \in 1 .. 8
        /\ Url!Length(c.base_path) <= 1024 /\ c.base_path \in Seq(UrlPiece)
    BY <2>1, Zenon DEF UrlGoodClient, UrlGoodPath
  <2>3. Url!Length(c.base_path) \in Nat
    BY <2>2, UrlLengthNat, Zenon
  <2> DEFINE h == Url!Length(c.host)
             q == Url!Length(c.port)
             b == Url!Length(c.base_path)
  <2> HIDE DEF h, q, b
  <2>4. h \in 1 .. 255 /\ q \in 1 .. 8 /\ b \in Nat /\ b <= 1024
    BY <2>2, <2>3 DEF h, q, b
  <2>5. h < 256 /\ q < 9 /\ b < 1025
    BY <2>4
  <2> QED
    BY <2>5 DEF h, q, b
<1>3. Url!PartsFit
  BY <1>2, Zenon DEF Url!PartsFit, c
<1>4. ASSUME NEW name \in NameLengths, Url!cn_kosync_client_init(scheme, rest, name, name)
      PROVE  c.base_path # << >> => c.base_path[Len(c.base_path)].kind # "slash"
  <2>1. UrlGoodClient(c)
    BY <1>1, <1>4
  <2> QED
    BY <2>1, Zenon DEF UrlGoodClient, UrlGoodPath
<1>5. Url!OneSlashBeforeEndpoint
  BY <1>4, Zenon DEF Url!OneSlashBeforeEndpoint, c
<1> QED
  BY <1>3, <1>5

UrlEndpointGood(c, o) ==
    /\ Url!Length(Url!endpoint_path(c, o)) \in Nat
    /\ Url!Length(Url!endpoint_path(c, o)) <= 1072
    /\ Url!cn_netsimple_validate(c.host, c.port, Url!endpoint_path(c, o))

LEMMA UrlEndpoint ==
    ASSUME NEW c, UrlGoodClient(c), NEW o \in Url!Operations
    PROVE  UrlEndpointGood(c, o)
<1> DEFINE b == c.base_path
           p == [kind |-> "path", n |-> o.suffix, value |-> 0]
           e == Url!endpoint_path(c, o)
<1>0. o.suffix \in {11, 48, 15}
  BY DEF Url!Operations
<1>1. p \in UrlPiece /\ p.kind = "path" /\ p.n = o.suffix
  <2>1. o.suffix \in Nat \ {0}
    BY <1>0
  <2> QED
    BY <2>1 DEF UrlPiece, Url!Plain, Url!Odd
<1>2. e = b \o <<p>>
  BY Zenon DEF Url!endpoint_path
<1>3. UrlGoodPath(b)
  BY Zenon DEF UrlGoodClient
<1> HIDE DEF b, p, e
<1>4. b \in Seq(UrlPiece) /\ Url!Length(b) <= 1024
  BY <1>3, Zenon DEF UrlGoodPath
<1>5. /\ e \in Seq(UrlPiece) /\ Len(e) = Len(b) + 1 /\ e[Len(b) + 1] = p
      /\ \A k \in 1 .. Len(b) : e[k] = b[k]
  BY <1>1, <1>2, <1>4
<1>6. Url!Length(e) = Url!Length(b) + o.suffix
  BY <1>1, <1>2, <1>4, UrlLengthOfMore, Zenon
<1>7. Url!Length(e) \in Nat /\ Url!Length(e) <= 1072
  BY <1>0, <1>4, <1>6, UrlLengthNat
<1>8. e # << >> /\ Len(b) \in Nat
  BY <1>4, <1>5
<1>9. Head(e).kind \in {"slash", "path"}
  <2>1. Head(e) = e[1]
    BY <1>5, <1>8, UrlHeadIs, Zenon
  <2>2. CASE b = << >>
    <3>1. Len(b) + 1 = 1
      BY <2>2
    <3> QED
      BY <1>1, <1>5, <2>1, <3>1
  <2>3. CASE b # << >>
    <3>1. 1 \in 1 .. Len(b)
      BY <1>4, <2>3
    <3>2. b[1].kind \in {"slash", "path"}
      BY <1>3, <2>3, Zenon DEF UrlGoodPath, UrlSlashFirst
    <3> QED
      BY <1>5, <2>1, <3>1, <3>2
  <2> QED
    BY <2>2, <2>3
<1>10. Url!KindsOf(e) \cap {"space", "backslash"} = {}
  <2>1. \A k \in 1 .. Len(e) : k \in 1 .. Len(b) \/ k = Len(b) + 1
    BY <1>5, <1>8
  <2>2. DOMAIN e = 1 .. Len(e) /\ DOMAIN b = 1 .. Len(b)
    BY <1>4, <1>5
  <2>3. \A k \in 1 .. Len(b) : b[k].kind \notin {"space", "backslash"}
    <3>1. Url!KindsOf(b) \cap {"space", "backslash"} = {}
      BY <1>3, Zenon DEF UrlGoodPath
    <3> QED
      BY <2>2, <3>1 DEF Url!KindsOf
  <2>4. \A k \in 1 .. Len(e) : e[k].kind \notin {"space", "backslash"}
    BY <1>1, <1>5, <2>1, <2>3
  <2> QED
    BY <2>2, <2>4, Zenon DEF Url!KindsOf
<1>11. Url!Length(e) <= 2048
  BY <1>7
<1>12. Url!cn_netsimple_validate(c.host, c.port, e)
  <2>1. Url!host_text_ok(c.host) /\ Url!cn_netsimple_parse_port(c.port)
    BY Zenon DEF UrlGoodClient
  <2>2. UrlShown(e)
    BY <1>9, <1>10, <1>11, UrlShownIs
  <2> QED
    BY <2>1, <2>2, UrlValidates, Zenon
<1> QED
  BY <1>7, <1>12, Zenon DEF e, UrlEndpointGood

LEMMA UrlRequests == ASSUME UrlInv PROVE Url!RequestsFit
<1> DEFINE c == Url!ClientOf(scheme, rest)
<1>1. ASSUME NEW name \in NameLengths, Url!cn_kosync_client_init(scheme, rest, name, name),
             NEW o \in Url!Operations, NEW body \in BodyDigits
      PROVE  Url!EndpointFits(c, o) /\ Url!cn_netsimple_build_exchange_request(c, o, name, name, body)
  <2>1. name \in 1 .. 255 /\ UrlGoodClient(c)
    <3>1. rest \in Seq(UrlPiece)
      BY DEF UrlInv
    <3> QED
      BY <1>1, <3>1, UrlClientGood, Zenon
  <2> HIDE DEF c
  <2> DEFINE e == Url!Length(Url!endpoint_path(c, o))
  <2>2. e \in Nat /\ e <= 1072 /\ Url!cn_netsimple_validate(c.host, c.port, Url!endpoint_path(c, o))
    <3>1. UrlEndpointGood(c, o)
      BY <2>1, UrlEndpoint, Zenon
    <3> QED
      BY <3>1 DEF UrlEndpointGood
  <2> HIDE DEF e
  <2>3. Url!EndpointFits(c, o)
    <3>1. e < 2048 + 1
      BY <2>2
    <3> QED
      BY <3>1 DEF Url!EndpointFits, e
  <2>4. body \in 0 .. 20 /\ Url!Length(c.host) \in 1 .. 255 /\ Url!Length(c.port) \in 1 .. 8
    BY <2>1, UrlConstants, Zenon DEF UrlGoodClient
  <2>5. Url!HeadLength(c, o, name, name, body) < 4096
    <3> DEFINE h == Url!Length(c.host)
               q == Url!Length(c.port)
               named == c.port # Url!DefaultPort(c.tls)
    <3>1. Url!HeadLength(c, o, name, name, body) =
             (4 + e + 11) + (6 + h + (IF named THEN 1 + q ELSE 0) + 2) + (8 + 32 + 2)
              + ((13 + name + 2) + (12 + name + 2))
              + (IF o.put THEN (14 + 16 + 2) + (16 + body + 2) ELSE 0) + 2
      BY SMT DEF Url!HeadLength, e
    <3> HIDE DEF h, q, named
    <3>2. h \in 1 .. 255 /\ q \in 1 .. 8
      BY <2>4 DEF h, q
    <3>3. (IF named THEN 1 + q ELSE 0) \in 0 .. 9
      BY <3>2
    <3>4. (IF o.put THEN (14 + 16 + 2) + (16 + body + 2) ELSE 0) \in 0 .. 70
      BY <2>4
    <3> QED
      BY <2>1, <2>2, <3>1, <3>2, <3>3, <3>4
  <2>6. name <= 2048
    BY <2>1
  <2>7. Url!cn_netsimple_build_exchange_request(c, o, name, name, body)
    BY <2>2, <2>5, <2>6 DEF Url!cn_netsimple_build_exchange_request
  <2> QED
    BY <2>3, <2>7
<1> QED
  BY <1>1, Zenon DEF Url!RequestsFit

(* What the settings accept.                                                 *)
LEMMA UrlDefaultPort == Url!cn_netsimple_parse_port(Url!DefaultPort(TRUE))
<1> DEFINE p == [kind |-> "digits", n |-> 3, value |-> 443]
<1>1. Url!DefaultPort(TRUE) = <<p>>
  BY DEF Url!DefaultPort
<1>2. p \in UrlPiece /\ p.kind = "digits" /\ p.n = 3 /\ p.value = 443
  BY DEF UrlPiece, Url!Plain, Url!Odd
<1> HIDE DEF p
<1>3. Url!Length(<<p>>) \in 1 .. 8
  BY <1>2, UrlLengthOfOne
<1>4. Url!KindsOf(<<p>>) = {"digits"}
  BY <1>2 DEF Url!KindsOf
<1> DEFINE q == <<p>>
<1>5. Len(q) = 1 /\ q[1] = p
  OBVIOUS
<1> HIDE DEF q
<1>6. Url!Number(q) = 443
  <2> DEFINE then(v, d) == IF v = 0 THEN d.value
                           ELSE IF v > 65535 \/ d.n > 4 THEN 65536
                           ELSE v * <<10, 100, 1000, 10000>>[d.n] + d.value
             Is(u) == u = [i \in 0 .. Len(q) |-> IF i = 0 THEN 0 ELSE then(u[i - 1], q[i])]
             u0 == [i \in 0 .. 1 |-> IF i = 0 THEN 0 ELSE 443]
             c == CHOOSE u : Is(u)
  <2>1. Is(u0)
    BY <1>2, <1>5
  <2> HIDE DEF Is
  <2>2. Is(c)
    BY <2>1, Zenon
  <2> USE DEF Is
  <2>3. Url!Number(q) = c[Len(q)]
    BY SMT DEF Url!Number
  <2>4. c[1] = 443
    <3> HIDE DEF c
    <3>1. 0 \in 0 .. Len(q) /\ 1 \in 0 .. Len(q) /\ 1 - 1 = 0
      BY <1>5
    <3>2. c[0] = 0
      BY <2>2, <3>1
    <3> QED
      BY <1>2, <1>5, <2>2, <3>1, <3>2
  <2> QED
    BY <1>5, <2>3, <2>4
<1>7. Url!Number(q) \in Url!Ports
  BY <1>6 DEF Url!Ports
<1>8. Url!cn_netsimple_parse_port(q)
  BY <1>3, <1>4, <1>7, Zenon DEF q, Url!cn_netsimple_parse_port
<1> QED
  BY <1>1, <1>8 DEF q

LEMMA UrlSaved == ASSUME UrlInv PROVE Url!SavedUrlIsUsable
<1> SUFFICES ASSUME Url!Saved(scheme, rest)
             PROVE  /\ \A name \in NameLengths \cap 1 .. 255 :
                          Url!cn_kosync_client_init(scheme, rest, name, name)
                    /\ Url!ClientOf(scheme, rest).tls
  BY Zenon DEF Url!SavedUrlIsUsable
<1> DEFINE c == Url!ClientOf(scheme, rest)
           a == Url!Authority(rest)
           p == Url!PathOf(rest)
<1>0. rest \in Seq(UrlPiece)
  BY DEF UrlInv
<1>1. /\ scheme = "https" /\ Url!KindsOf(rest) \cap Url!Odd = {}
      /\ Url!Length(Url!HostOf(rest)) \in 1 .. 255
      /\ Url!HasPort(rest) => Url!decimal_port_valid(Url!PortOf(rest))
      /\ Url!Length(p) <= 1024
  BY Zenon DEF Url!Saved, Url!base_url_valid
<1>2. /\ c.host = Url!HostOf(rest) /\ c.base_path = Url!Trimmed(p)
      /\ c.port = IF Url!HasPort(rest) THEN Url!PortOf(rest) ELSE Url!DefaultPort(scheme = "https")
      /\ c.tls = (scheme = "https")
  BY UrlClientIs
<1> HIDE DEF c
<1>3. /\ UrlWithin(a, rest) /\ Url!KindsOf(a) \cap {"slash", "path"} = {}
      /\ UrlWithin(p, rest) /\ UrlSlashFirst(p)
      /\ UrlWithin(c.host, a) /\ UrlWithin(Url!PortOf(rest), a) /\ (a = << >> => c.host = << >>)
  BY <1>0, <1>2, UrlAuthority, UrlPath, UrlHostAndPort, Zenon DEF UrlSlashFirst
<1> HIDE DEF a, p
<1>4. c.host \in Seq(UrlPiece) /\ p \in Seq(UrlPiece)
  BY <1>3, Zenon DEF UrlWithin
<1>5. Url!Length(c.host) \in 1 .. 255
  BY <1>1, <1>2
<1>6. a # << >>
  <2> SUFFICES ASSUME a = << >> PROVE FALSE
    OBVIOUS
  <2>1. c.host = << >>
    BY <1>3
  <2>2. 0 \in 1 .. 255
    BY <1>5, <2>1, UrlLengthOfNone, Zenon
  <2> QED
    BY <2>2
<1>7. \A k : k \in Url!Odd => k \notin Url!KindsOf(rest)
  BY <1>1
<1>8. {"at", "query"} \subseteq Url!Odd /\ {"space", "backslash"} \subseteq Url!Odd /\ "query" \in Url!Odd
  BY DEF Url!Odd
<1>9. Url!KindsOf(a) \cap {"at", "query"} = {}
  BY <1>3, <1>7, <1>8, Zenon DEF UrlWithin
<1>10. Url!copy_url_part(c.host, 256)
  BY <1>5 DEF Url!copy_url_part
<1>11. Url!HasPort(rest) =>
          Url!cn_netsimple_parse_port(c.port) /\ Url!copy_url_part(c.port, 9)
  <2> SUFFICES ASSUME Url!HasPort(rest)
               PROVE  Url!cn_netsimple_parse_port(c.port) /\ Url!copy_url_part(c.port, 9)
    OBVIOUS
  <2>1. c.port = Url!PortOf(rest)
    BY <1>2
  <2> QED
    BY <1>1, <2>1, UrlPortIs, Zenon
<1>12. Url!cn_netsimple_parse_port(c.port)
  <2>1. CASE Url!HasPort(rest)
    BY <1>11, <2>1
  <2>2. CASE ~Url!HasPort(rest)
    <3>1. c.port = Url!DefaultPort(TRUE)
      BY <1>1, <1>2, <2>2
    <3> QED
      BY <3>1, UrlDefaultPort
  <2> QED
    BY <2>1, <2>2
<1>13. "query" \notin Url!KindsOf(p) /\ Url!PathFits(p)
  BY <1>1, <1>3, <1>7, <1>8, Zenon DEF UrlWithin, Url!PathFits, p
<1>14. Url!host_text_ok(c.host)
  <2>1. Url!KindsOf(c.host) \cap {"space", "slash", "path", "backslash"} = {}
    <3>1. Url!KindsOf(c.host) \subseteq Url!KindsOf(a) /\ Url!KindsOf(a) \subseteq Url!KindsOf(rest)
      BY <1>3, Zenon DEF UrlWithin
    <3> QED
      BY <1>3, <1>7, <1>8, <3>1
  <2> QED
    BY <1>5, <2>1, Zenon DEF Url!host_text_ok
<1> DEFINE b == c.base_path
           shown == IF b = << >> THEN <<Url!Slash>> ELSE b
<1>15. /\ UrlWithin(b, p) /\ Url!Length(b) <= Url!Length(p)
       /\ b # << >> => p # << >> /\ b[1] = p[1]
  BY <1>2, <1>4, UrlTrimmed, Zenon
<1> HIDE DEF b
<1>16. Url!cn_netsimple_validate(c.host, c.port, shown)
  <2>1. CASE b = << >>
    <3> DEFINE x == Url!Slash
    <3>1. x \in UrlPiece /\ x.kind = "slash" /\ x.n = 1
      BY DEF UrlPiece, Url!Plain, Url!Odd, Url!Slash
    <3>2. shown = <<x>>
      BY <2>1
    <3> HIDE DEF x, shown
    <3>3. Head(shown).kind \in {"slash", "path"} /\ Url!KindsOf(shown) \cap {"space", "backslash"} = {}
      BY <3>1, <3>2 DEF Url!KindsOf
    <3>4. Url!Length(shown) <= 2048
      BY <3>1, <3>2, UrlLengthOfOne
    <3>5. UrlShown(shown)
      BY <3>3, <3>4, UrlShownIs
    <3> QED
      BY <1>12, <1>14, <3>5, UrlValidates, Zenon
  <2>2. CASE b # << >>
    <3>1. shown = b /\ b \in Seq(UrlPiece)
      BY <1>15, <2>2 DEF UrlWithin
    <3> HIDE DEF shown
    <3>2. Head(b).kind \in {"slash", "path"}
      BY <1>3, <1>15, <2>2, <3>1, UrlHeadIs, Zenon DEF UrlSlashFirst
    <3>3. Url!KindsOf(b) \cap {"space", "backslash"} = {}
      <4>1. Url!KindsOf(b) \subseteq Url!KindsOf(p) /\ Url!KindsOf(p) \subseteq Url!KindsOf(rest)
        BY <1>3, <1>15, Zenon DEF UrlWithin
      <4> QED
        BY <1>7, <1>8, <4>1
    <3>4. Url!Length(b) <= 2048
      <4>1. Url!Length(p) <= 1024
        BY <1>1 DEF p
      <4> QED
        BY <1>4, <1>15, <3>1, <4>1, UrlLengthNat
    <3>5. UrlShown(b)
      BY <3>2, <3>3, <3>4, UrlShownIs
    <3> QED
      BY <1>12, <1>14, <3>1, <3>5, UrlValidates, Zenon
  <2> QED
    BY <2>1, <2>2
<1>17. scheme \in {"http", "https"} /\ c.tls
  BY <1>1, <1>2
<1>18. \A name \in NameLengths \cap 1 .. 255 : Url!cn_kosync_client_init(scheme, rest, name, name)
  BY <1>6, <1>9, <1>10, <1>11, <1>12, <1>13, <1>16, <1>17, Zenon
     DEF Url!cn_kosync_client_init, a, p, b, c
<1> QED
  BY <1>17, <1>18 DEF c

-----------------------------------------------------------------------------
LEMMA UrlInitially == ASSUME Url!Init PROVE UrlInv
BY DEF Url!Init, UrlInv

LEMMA UrlStutters == ASSUME UrlInv, UNCHANGED urlVars PROVE UrlInv'
BY Zenon DEF UrlInv, urlVars

LEMMA UrlStep == ASSUME UrlInv, Url!Next PROVE UrlInv'
<1>1. PICK p \in Pieces : rest' = Append(rest, p)
  BY Zenon DEF Url!Next
<1>2. scheme' = scheme /\ p \in UrlPiece /\ rest \in Seq(UrlPiece)
  BY UrlConstants, Zenon DEF Url!Next, UrlInv
<1>3. Append(rest, p) \in Seq(UrlPiece)
  BY <1>2
<1> QED
  BY <1>1, <1>2, <1>3, Zenon DEF UrlInv

LEMMA UrlIsGood ==
    ASSUME UrlInv
    PROVE  /\ Url!SavedUrlIsUsable /\ Url!RequestsFit
           /\ Url!PartsFit /\ Url!OneSlashBeforeEndpoint
BY UrlSaved, UrlRequests, UrlParts, Zenon

-----------------------------------------------------------------------------
(* What is defined by recursion to later places exists.                      *)
Leads(f, N, S, a, following, step) ==
    /\ f \in [1 .. N + 1 -> S] /\ f[N + 1] = a
    /\ \A n \in 1 .. N : f[n] = step[n][f[following[n]]]

LEMMA RecursionDown ==
    ASSUME NEW N \in Nat, NEW S, NEW a \in S, NEW following, NEW step,
           \A n \in 1 .. N : following[n] \in n + 1 .. N + 1,
           \A n \in 1 .. N : \A v \in S : step[n][v] \in S
    PROVE  \E f : Leads(f, N, S, a, following, step)
<1> DEFINE prev == [k \in 1 .. N |-> N + 1 - following[N + 1 - k]]
           back == [k \in 1 .. N |-> step[N + 1 - k]]
<1>1. \A k \in 1 .. N : N + 1 - k \in 1 .. N /\ N + 1 - (N + 1 - k) = k
  OBVIOUS
<1>2. ASSUME NEW k \in 1 .. N PROVE prev[k] \in 0 .. k - 1
  <2>1. following[N + 1 - k] \in N + 1 - k + 1 .. N + 1
    BY <1>1
  <2>2. prev[k] = N + 1 - following[N + 1 - k]
    OBVIOUS
  <2> QED
    BY <2>1, <2>2
<1>3. \A k \in 1 .. N : \A v \in S : back[k][v] \in S
  BY <1>1, SMT
<1>4. \A k \in 1 .. N : prev[k] = N + 1 - following[N + 1 - k] /\ back[k] = step[N + 1 - k]
  OBVIOUS
<1> HIDE DEF prev, back
<1>5. PICK g : Follows(g, N, S, a, prev, back)
  BY <1>2, <1>3, Recursion
<1>6. g \in [0 .. N -> S] /\ g[0] = a /\ \A k \in 1 .. N : g[k] = back[k][g[prev[k]]]
  BY <1>5, Zenon DEF Follows
<1> DEFINE f == [n \in 1 .. N + 1 |-> g[N + 1 - n]]
<1>7. \A n \in 1 .. N + 1 : N + 1 - n \in 0 .. N /\ f[n] = g[N + 1 - n]
  OBVIOUS
<1>8. f \in [1 .. N + 1 -> S]
  BY <1>6, <1>7
<1> HIDE DEF f
<1>9. f[N + 1] = a
  <2>1. N + 1 \in 1 .. N + 1 /\ N + 1 - (N + 1) = 0
    OBVIOUS
  <2> QED
    BY <1>6, <1>7, <2>1
<1>10. ASSUME NEW n \in 1 .. N PROVE f[n] = step[n][f[following[n]]]
  <2>1. /\ N + 1 - n \in 1 .. N /\ N + 1 - (N + 1 - n) = n /\ n \in 1 .. N + 1
        /\ following[n] \in 1 .. N + 1
    OBVIOUS
  <2>2. back[N + 1 - n] = step[n] /\ prev[N + 1 - n] = N + 1 - following[n]
    BY <1>4, <2>1
  <2>3. f[n] = g[N + 1 - n] /\ f[following[n]] = g[N + 1 - following[n]]
    BY <1>7, <2>1
  <2> QED
    BY <1>6, <2>1, <2>2, <2>3
<1> QED
  BY <1>8, <1>9, <1>10 DEF Leads

-----------------------------------------------------------------------------
(* Texts of bytes.                                                           *)
TextByte == {b \in Nat : b >= 1 /\ b <= 255}
TextTail == 128 .. 191

TextInv == text \in Seq(TextByte)

(* Numbers of bits.                                                          *)
LEMMA TextLow ==
    /\ \A b \in 128 .. 191 : b % 64 = b - 128
    /\ \A b \in 192 .. 223 : b % 32 = b - 192
    /\ \A b \in 224 .. 239 : b % 16 = b - 224
    /\ \A b \in 240 .. 247 : b % 8 = b - 240
OBVIOUS

(* What a sequence of bytes carries, by its bytes, and back.                 *)
TextIsTwo(v, a, b) ==
    /\ a \in 192 .. 223 /\ b \in TextTail
    /\ v = (a % 32) * 64 + (b % 64)

TextSaysTwo(v, a, b) ==
    /\ v \in Nat /\ v <= 2047
    /\ v >= 128 <=> a >= 194
    /\ v \div 64 = a - 192 /\ v % 64 = b - 128

LEMMA TextTwo ==
    ASSUME NEW v, NEW a, NEW b, TextIsTwo(v, a, b) PROVE TextSaysTwo(v, a, b)
<1>1. a \in 192 .. 223 /\ b \in TextTail /\ v = (a % 32) * 64 + (b % 64)
  BY DEF TextIsTwo
<1>2. a % 32 = a - 192 /\ b % 64 = b - 128
  BY <1>1, TextLow DEF TextTail
<1> QED
  BY <1>1, <1>2, SMT DEF TextTail, TextSaysTwo

TextIsThree(v, a, b, c) ==
    /\ a \in 224 .. 239 /\ b \in TextTail /\ c \in TextTail
    /\ v = (a % 16) * 4096 + (b % 64) * 64 + (c % 64)

TextSaysThree(v, a, b, c) ==
    /\ v \in Nat /\ v <= 65535
    /\ v \div 4096 = a - 224 /\ (v \div 64) % 64 = b - 128 /\ v % 64 = c - 128
    /\ v >= 2048 <=> (a > 224 \/ b >= 160)
    /\ (v >= 55296 /\ v <= 57343) <=> (a = 237 /\ b >= 160)

LEMMA TextThree ==
    ASSUME NEW v, NEW a, NEW b, NEW c, TextIsThree(v, a, b, c) PROVE TextSaysThree(v, a, b, c)
<1> DEFINE x == a - 224
           y == b - 128
           z == c - 128
<1>1. a % 16 = x /\ b % 64 = y /\ c % 64 = z
  BY TextLow DEF TextTail, TextIsThree
<1>2. x \in 0 .. 15 /\ y \in 0 .. 63 /\ z \in 0 .. 63
  BY DEF TextTail, TextIsThree
<1>3. a = 224 + x /\ b = 128 + y /\ c = 128 + z
  BY DEF TextTail, TextIsThree
<1> HIDE DEF x, y, z
<1>4. v = x * 4096 + y * 64 + z
  BY <1>1, SMT DEF TextIsThree
<1>5. v \in Nat /\ v <= 65535 /\ v \div 4096 = x
  BY <1>2, <1>4, SMT
<1>6. v \div 64 = x * 64 + y
  BY <1>2, <1>4, SMT
<1>7. (v \div 64) % 64 = y
  BY <1>2, <1>6, SMT
<1>8. v % 64 = z
  BY <1>2, <1>4, SMT
<1>9. v >= 2048 <=> (a > 224 \/ b >= 160)
  BY <1>2, <1>3, <1>4, SMT
<1>10. (v >= 55296 /\ v <= 57343) <=> (a = 237 /\ b >= 160)
  BY <1>2, <1>3, <1>4, SMT
<1> QED
  BY <1>5, <1>7, <1>8, <1>9, <1>10 DEF TextSaysThree, x, y, z

TextIsFour(v, a, b, c, d) ==
    /\ a \in 240 .. 247 /\ b \in TextTail /\ c \in TextTail /\ d \in TextTail
    /\ v = (a % 8) * 262144 + (b % 64) * 4096 + (c % 64) * 64 + (d % 64)

TextSaysFour(v, a, b, c, d) ==
    /\ v \in Nat
    /\ v \div 262144 = a - 240 /\ (v \div 4096) % 64 = b - 128
    /\ (v \div 64) % 64 = c - 128 /\ v % 64 = d - 128
    /\ v >= 65536 <=> (a > 240 \/ b >= 144)
    /\ v <= 1114111 <=> (a < 244 \/ (a = 244 /\ b <= 143))

LEMMA TextFour ==
    ASSUME NEW v, NEW a, NEW b, NEW c, NEW d, TextIsFour(v, a, b, c, d) PROVE TextSaysFour(v, a, b, c, d)
<1> DEFINE w == a - 240
           x == b - 128
           y == c - 128
           z == d - 128
<1>1. a % 8 = w /\ b % 64 = x /\ c % 64 = y /\ d % 64 = z
  BY TextLow DEF TextTail, TextIsFour
<1>2. w \in 0 .. 7 /\ x \in 0 .. 63 /\ y \in 0 .. 63 /\ z \in 0 .. 63
  BY DEF TextTail, TextIsFour
<1>3. a = 240 + w /\ b = 128 + x /\ c = 128 + y /\ d = 128 + z
  BY DEF TextTail, TextIsFour
<1> HIDE DEF w, x, y, z
<1>4. v = w * 262144 + x * 4096 + y * 64 + z
  BY <1>1, SMT DEF TextIsFour
<1>5. v \in Nat /\ v \div 262144 = w
  BY <1>2, <1>4, SMT
<1>6. v \div 4096 = w * 64 + x /\ v \div 64 = (w * 64 + x) * 64 + y
  BY <1>2, <1>4, SMT
<1>7. (v \div 4096) % 64 = x
  BY <1>2, <1>6, SMT
<1>8. (v \div 64) % 64 = y
  BY <1>2, <1>6, SMT
<1>9. v % 64 = z
  <2> DEFINE q == (w * 64 + x) * 64 + y
  <2>1. v = q * 64 + z /\ q \in Nat
    BY <1>2, <1>4, SMT
  <2> HIDE DEF q
  <2> QED
    BY <1>2, <2>1, SMT
<1>10. v >= 65536 <=> (a > 240 \/ b >= 144)
  BY <1>2, <1>3, <1>4, SMT
<1>11. v <= 1114111 <=> (a < 244 \/ (a = 244 /\ b <= 143))
  BY <1>2, <1>3, <1>4, SMT
<1> QED
  BY <1>5, <1>7, <1>8, <1>9, <1>10, <1>11 DEF TextSaysFour, w, x, y, z

TextFromTwo(v, a, b) ==
    v \in Nat /\ v >= 128 /\ v <= 2047 /\ 192 + v \div 64 = a /\ 128 + (v % 64) = b

TextGivesTwo(a, b) == a \in 194 .. 223 /\ b \in TextTail

LEMMA TextTwoBack ==
    ASSUME NEW v, NEW a, NEW b, TextFromTwo(v, a, b) PROVE TextGivesTwo(a, b)
BY SMT DEF TextTail, TextFromTwo, TextGivesTwo

TextFromThree(v, a, b, c) ==
    /\ v \in Nat /\ v >= 2048 /\ v <= 65535 /\ ~ (v >= 55296 /\ v <= 57343)
    /\ 224 + v \div 4096 = a /\ 128 + ((v \div 64) % 64) = b /\ 128 + (v % 64) = c

TextGivesThree(a, b, c) ==
    /\ a \in 224 .. 239 /\ b \in TextTail /\ c \in TextTail
    /\ (a = 224 => b >= 160) /\ (a = 237 => b <= 159)

LEMMA TextThreeBack ==
    ASSUME NEW v, NEW a, NEW b, NEW c, TextFromThree(v, a, b, c) PROVE TextGivesThree(a, b, c)
BY SMT DEF TextTail, TextFromThree, TextGivesThree

TextFromFour(v, a, b, c, d) ==
    /\ v \in Nat /\ v >= 65536 /\ v <= 1114111
    /\ 240 + v \div 262144 = a /\ 128 + ((v \div 4096) % 64) = b
    /\ 128 + ((v \div 64) % 64) = c /\ 128 + (v % 64) = d

TextGivesFour(a, b, c, d) ==
    /\ a \in 240 .. 244 /\ b \in TextTail /\ c \in TextTail /\ d \in TextTail
    /\ (a = 240 => b >= 144) /\ (a = 244 => b <= 143)

LEMMA TextFourBack ==
    ASSUME NEW v, NEW a, NEW b, NEW c, NEW d, TextFromFour(v, a, b, c, d)
    PROVE  TextGivesFour(a, b, c, d)
BY SMT DEF TextTail, TextFromFour, TextGivesFour

-----------------------------------------------------------------------------
(* The characters that are well-formed, by their bytes.                      *)
TextOne(t, i) == t[i] < 128

TextPair(t, i) == i + 1 <= Len(t) /\ t[i] \in 194 .. 223 /\ t[i + 1] \in TextTail

TextTriple(t, i) ==
    /\ i + 2 <= Len(t) /\ t[i] \in 224 .. 239 /\ t[i + 1] \in TextTail /\ t[i + 2] \in TextTail
    /\ t[i] = 224 => t[i + 1] >= 160
    /\ t[i] = 237 => t[i + 1] <= 159

TextQuad(t, i) ==
    /\ i + 3 <= Len(t) /\ t[i] \in 240 .. 244 /\ t[i + 1] \in TextTail /\ t[i + 2] \in TextTail
    /\ t[i + 3] \in TextTail
    /\ t[i] = 240 => t[i + 1] >= 144
    /\ t[i] = 244 => t[i + 1] <= 143

TextTake(t, i) ==
    IF TextOne(t, i) THEN 1 ELSE IF TextPair(t, i) THEN 2
    ELSE IF TextTriple(t, i) THEN 3 ELSE IF TextQuad(t, i) THEN 4 ELSE 0

TextAt(t, i) == t \in Seq(TextByte) /\ i \in 1 .. Len(t)

LEMMA TextByteIs ==
    ASSUME NEW t, NEW i, TextAt(t, i)
    PROVE  /\ t[i] \in TextByte /\ i \in Nat /\ i >= 1 /\ i <= Len(t) /\ Len(t) \in Nat
           /\ \A k \in 1 .. Len(t) : t[k] \in TextByte
BY DEF TextAt

LEMMA TextTakeIs ==
    ASSUME NEW t, NEW i, TextAt(t, i)
    PROVE  /\ t[i] < 128 => TextTake(t, i) = 1
           /\ t[i] \in 194 .. 223 => TextTake(t, i) = IF TextPair(t, i) THEN 2 ELSE 0
           /\ t[i] \in 224 .. 239 => TextTake(t, i) = IF TextTriple(t, i) THEN 3 ELSE 0
           /\ t[i] \in 240 .. 244 => TextTake(t, i) = IF TextQuad(t, i) THEN 4 ELSE 0
           /\ ~ (t[i] < 128 \/ t[i] \in 194 .. 244) => TextTake(t, i) = 0
<1> DEFINE a == t[i]
<1>1. a \in Nat
  BY TextByteIs DEF TextByte
<1>2. /\ TextOne(t, i) <=> a < 128
      /\ TextPair(t, i) => a \in 194 .. 223
      /\ TextTriple(t, i) => a \in 224 .. 239
      /\ TextQuad(t, i) => a \in 240 .. 244
  BY Zenon DEF TextOne, TextPair, TextTriple, TextQuad
<1> HIDE DEF a
<1>3. /\ a < 128 => TextTake(t, i) = 1
      /\ a \in 194 .. 223 => TextTake(t, i) = IF TextPair(t, i) THEN 2 ELSE 0
      /\ a \in 224 .. 239 => TextTake(t, i) = IF TextTriple(t, i) THEN 3 ELSE 0
      /\ a \in 240 .. 244 => TextTake(t, i) = IF TextQuad(t, i) THEN 4 ELSE 0
      /\ ~ (a < 128 \/ a \in 194 .. 244) => TextTake(t, i) = 0
  BY <1>1, <1>2 DEF TextTake
<1> QED
  BY <1>3 DEF a

LEMMA TextLead ==
    ASSUME NEW a \in Nat, a <= 255
    PROVE  /\ a < 128 => Text!LeadLength(a) = 1 /\ Text!PrefixLength(a) = 1
           /\ a \in 194 .. 223 => Text!LeadLength(a) = 2 /\ Text!PrefixLength(a) = 2
           /\ a \in 224 .. 239 => Text!LeadLength(a) = 3 /\ Text!PrefixLength(a) = 3
           /\ a \in 240 .. 244 => Text!LeadLength(a) = 4 /\ Text!PrefixLength(a) = 4
           /\ a \in 128 .. 191 => Text!LeadLength(a) = 0 /\ Text!PrefixLength(a) = 0
           /\ a \in 192 .. 193 => Text!LeadLength(a) = 0 /\ Text!PrefixLength(a) = 2
           /\ a \in 245 .. 247 => Text!LeadLength(a) = 0 /\ Text!PrefixLength(a) = 4
           /\ a > 247 => Text!LeadLength(a) = 0 /\ Text!PrefixLength(a) = 0
<1>1. ASSUME a < 128
      PROVE  Text!LeadLength(a) = 1 /\ Text!PrefixLength(a) = 1
  <2>1. ~ (a \in 194 .. 223) /\ ~ (a \in 224 .. 239) /\ ~ (a \in 240 .. 244)
        /\ ~ (a \in 192 .. 223) /\ ~ (a \in 240 .. 247)
    BY <1>1
  <2> QED
    BY <1>1, <2>1, Zenon DEF Text!LeadLength, Text!PrefixLength
<1>2. a \in 194 .. 223 => Text!LeadLength(a) = 2 /\ Text!PrefixLength(a) = 2
  BY DEF Text!LeadLength, Text!PrefixLength
<1>3. a \in 224 .. 239 => Text!LeadLength(a) = 3 /\ Text!PrefixLength(a) = 3
  BY DEF Text!LeadLength, Text!PrefixLength
<1>4. a \in 240 .. 244 => Text!LeadLength(a) = 4 /\ Text!PrefixLength(a) = 4
  BY DEF Text!LeadLength, Text!PrefixLength
<1>5. a \in 128 .. 191 => Text!LeadLength(a) = 0 /\ Text!PrefixLength(a) = 0
  BY DEF Text!LeadLength, Text!PrefixLength
<1>6. a \in 192 .. 193 => Text!LeadLength(a) = 0 /\ Text!PrefixLength(a) = 2
  BY DEF Text!LeadLength, Text!PrefixLength
<1>7. a \in 245 .. 247 => Text!LeadLength(a) = 0 /\ Text!PrefixLength(a) = 4
  BY DEF Text!LeadLength, Text!PrefixLength
<1>8. ASSUME a > 247
      PROVE  Text!LeadLength(a) = 0 /\ Text!PrefixLength(a) = 0
  <2>1. ~ (a \in 194 .. 223) /\ ~ (a \in 224 .. 239) /\ ~ (a \in 240 .. 244)
        /\ ~ (a \in 192 .. 223) /\ ~ (a \in 240 .. 247) /\ ~ (a < 128)
    BY <1>8
  <2> QED
    BY <2>1, Zenon DEF Text!LeadLength, Text!PrefixLength
<1> QED
  BY <1>1, <1>2, <1>3, <1>4, <1>5, <1>6, <1>7, <1>8

LEMMA TextContinued ==
    ASSUME NEW t, NEW i, TextAt(t, i)
    PROVE  /\ Text!Continued(t, i, 1)
           /\ Text!Continued(t, i, 2) <=> i + 1 <= Len(t) /\ t[i + 1] \in TextTail
           /\ Text!Continued(t, i, 3) <=>
                  i + 2 <= Len(t) /\ t[i + 1] \in TextTail /\ t[i + 2] \in TextTail
           /\ Text!Continued(t, i, 4) <=>
                  /\ i + 3 <= Len(t) /\ t[i + 1] \in TextTail /\ t[i + 2] \in TextTail
                  /\ t[i + 3] \in TextTail
<1>1. i \in Nat /\ i <= Len(t) /\ Len(t) \in Nat
  BY TextByteIs
<1>2. /\ \A k \in i + 1 .. i + 1 - 1 : FALSE
      /\ \A k \in i + 1 .. i + 2 - 1 : k = i + 1
      /\ i + 1 \in i + 1 .. i + 2 - 1
      /\ \A k \in i + 1 .. i + 3 - 1 : k = i + 1 \/ k = i + 2
      /\ i + 1 \in i + 1 .. i + 3 - 1 /\ i + 2 \in i + 1 .. i + 3 - 1
      /\ \A k \in i + 1 .. i + 4 - 1 : k = i + 1 \/ k = i + 2 \/ k = i + 3
      /\ i + 1 \in i + 1 .. i + 4 - 1 /\ i + 2 \in i + 1 .. i + 4 - 1
      /\ i + 3 \in i + 1 .. i + 4 - 1
  BY <1>1
<1>3. i + 1 - 1 = i /\ i + 2 - 1 = i + 1 /\ i + 3 - 1 = i + 2 /\ i + 4 - 1 = i + 3
  BY <1>1
<1>4. \A k : Text!Continuation(k) <=> k \in TextTail
  BY DEF Text!Continuation, TextTail
<1>5. \A n : Text!Continued(t, i, n) <=>
                 /\ i + n - 1 <= Len(t)
                 /\ \A k \in i + 1 .. i + n - 1 : t[k] \in TextTail
  BY <1>4, Zenon DEF Text!Continued
<1>6. Text!Continued(t, i, 1)
  BY <1>1, <1>2, <1>3, <1>5, Zenon
<1>7. Text!Continued(t, i, 2) <=> i + 1 <= Len(t) /\ t[i + 1] \in TextTail
  BY <1>2, <1>3, <1>5, Zenon
<1>8. Text!Continued(t, i, 3) <=>
          i + 2 <= Len(t) /\ t[i + 1] \in TextTail /\ t[i + 2] \in TextTail
  BY <1>2, <1>3, <1>5, Zenon
<1>9. Text!Continued(t, i, 4) <=>
          /\ i + 3 <= Len(t) /\ t[i + 1] \in TextTail /\ t[i + 2] \in TextTail
          /\ t[i + 3] \in TextTail
  BY <1>2, <1>3, <1>5, Zenon
<1> QED
  BY <1>6, <1>7, <1>8, <1>9, Zenon

LEMMA TextBySecond ==
    ASSUME NEW t, NEW i, TextAt(t, i)
    PROVE  Text!TakeBySecond(t, i) = TextTake(t, i)
<1> DEFINE a == t[i]
           n == Text!LeadLength(a)
<1>0. a \in TextByte /\ i \in Nat /\ i <= Len(t) /\ Len(t) \in Nat
  BY TextByteIs
<1>1. Text!TakeBySecond(t, i) =
          IF n = 1 \/ (n > 1 /\ Text!Continued(t, i, n) /\ t[i + 1] \in Text!SecondRange(a))
          THEN n ELSE 0
  BY Zenon DEF Text!TakeBySecond
<1>2. CASE a < 128
  <2>1. n = 1
    BY <1>0, <1>2, TextLead DEF TextByte
  <2> QED
    BY <1>1, <1>2, <2>1, TextTakeIs
<1>3. CASE a \in 194 .. 223
  <2>1. n = 2 /\ Text!SecondRange(a) = TextTail
    BY <1>3 DEF Text!LeadLength, Text!SecondRange, TextTail
  <2>2. Text!TakeBySecond(t, i) = IF i + 1 <= Len(t) /\ t[i + 1] \in TextTail THEN 2 ELSE 0
    BY <1>1, <2>1, TextContinued
  <2> HIDE DEF n
  <2> QED
    BY <1>3, <2>2, TextTakeIs DEF TextPair
<1>4. CASE a \in 224 .. 239
  <2>1. n = 3 /\ \A b : b \in Text!SecondRange(a) <=>
                    /\ b \in TextTail
                    /\ a = 224 => b >= 160
                    /\ a = 237 => b <= 159
    BY <1>4 DEF Text!LeadLength, Text!SecondRange, TextTail
  <2>2. Text!TakeBySecond(t, i) =
            IF /\ Text!Continued(t, i, 3) /\ t[i + 1] \in TextTail
               /\ a = 224 => t[i + 1] >= 160
               /\ a = 237 => t[i + 1] <= 159 THEN 3 ELSE 0
    BY <1>1, <2>1
  <2> HIDE DEF n
  <2> QED
    BY <1>4, <2>2, TextContinued, TextTakeIs DEF TextTriple
<1>5. CASE a \in 240 .. 244
  <2>1. n = 4 /\ \A b : b \in Text!SecondRange(a) <=>
                    /\ b \in TextTail
                    /\ a = 240 => b >= 144
                    /\ a = 244 => b <= 143
    BY <1>5 DEF Text!LeadLength, Text!SecondRange, TextTail
  <2>2. Text!TakeBySecond(t, i) =
            IF /\ Text!Continued(t, i, 4) /\ t[i + 1] \in TextTail
               /\ a = 240 => t[i + 1] >= 144
               /\ a = 244 => t[i + 1] <= 143 THEN 4 ELSE 0
    BY <1>1, <2>1
  <2> HIDE DEF n
  <2> QED
    BY <1>5, <2>2, TextContinued, TextTakeIs DEF TextQuad
<1>6. CASE ~ (a < 128 \/ a \in 194 .. 244)
  <2>1. n = 0
    BY <1>0, <1>6 DEF Text!LeadLength, TextByte
  <2> HIDE DEF n
  <2> QED
    BY <1>1, <1>6, <2>1, TextTakeIs
<1> QED
  BY <1>0, <1>2, <1>3, <1>4, <1>5, <1>6 DEF TextByte

LEMMA TextPayload ==
    ASSUME NEW t, NEW i
    PROVE  /\ Text!Payload(t, i, 1) = t[i]
           /\ Text!Payload(t, i, 2) = (t[i] % 32) * 64 + (t[i + 1] % 64)
           /\ Text!Payload(t, i, 3) =
                  (t[i] % 16) * 4096 + (t[i + 1] % 64) * 64 + (t[i + 2] % 64)
           /\ Text!Payload(t, i, 4) =
                  (t[i] % 8) * 262144 + (t[i + 1] % 64) * 4096 + (t[i + 2] % 64) * 64
                  + (t[i + 3] % 64)
BY SMT DEF Text!Payload

LEMMA TextValueFits ==
    ASSUME NEW v \in Nat
    PROVE  /\ Text!Scalar(v) <=> v <= 1114111 /\ ~ (v >= 55296 /\ v <= 57343)
           /\ Text!ValueFits(v, 1) <=> Text!Scalar(v)
           /\ Text!ValueFits(v, 2) <=> Text!Scalar(v) /\ v >= 128
           /\ Text!ValueFits(v, 3) <=> Text!Scalar(v) /\ v >= 2048
           /\ Text!ValueFits(v, 4) <=> Text!Scalar(v) /\ v >= 65536
<1>1. Text!Scalar(v) <=> v <= 1114111 /\ ~ (v >= 55296 /\ v <= 57343)
  BY SMT DEF Text!Scalar, Text!Surrogate
<1>2. /\ Text!Minimum(1) = 0 /\ Text!Minimum(2) = 128
      /\ Text!Minimum(3) = 2048 /\ Text!Minimum(4) = 65536
  BY SMT DEF Text!Minimum
<1> QED
  BY <1>1, <1>2, SMT DEF Text!ValueFits

(* What the bytes of a character carry fits its length when they are right.  *)
LEMMA TextFitsOne ==
    ASSUME NEW t, NEW i, TextAt(t, i), t[i] < 128
    PROVE  Text!ValueFits(Text!Payload(t, i, 1), 1)
<1>1. t[i] \in Nat
  BY TextByteIs DEF TextByte
<1> QED
  BY <1>1, TextPayload, TextValueFits, SMT

LEMMA TextFitsTwo ==
    ASSUME NEW t, NEW i, TextAt(t, i), Text!Continued(t, i, 2), t[i] \in 192 .. 223
    PROVE  Text!ValueFits(Text!Payload(t, i, 2), 2) <=> TextPair(t, i)
<1> DEFINE v == Text!Payload(t, i, 2)
           a == t[i]
           b == t[i + 1]
<1>1. i + 1 <= Len(t) /\ b \in TextTail /\ a \in 192 .. 223
  BY TextContinued
<1>2. v = (a % 32) * 64 + (b % 64)
  BY TextPayload, SMT
<1> HIDE DEF v, a, b
<1>3. TextIsTwo(v, a, b)
  BY <1>1, <1>2, SMT DEF TextIsTwo
<1>6. TextSaysTwo(v, a, b)
  BY <1>3, TextTwo, Zenon
<1>4. Text!ValueFits(v, 2) <=> a >= 194
  BY <1>1, <1>6, TextValueFits, SMT DEF TextSaysTwo
<1>5. a >= 194 <=> a \in 194 .. 223
  BY <1>1
<1> QED
  BY <1>1, <1>4, <1>5, Zenon DEF TextPair, v, a, b

LEMMA TextFitsThree ==
    ASSUME NEW t, NEW i, TextAt(t, i), Text!Continued(t, i, 3), t[i] \in 224 .. 239
    PROVE  Text!ValueFits(Text!Payload(t, i, 3), 3) <=> TextTriple(t, i)
<1> DEFINE v == Text!Payload(t, i, 3)
           a == t[i]
           b == t[i + 1]
           c == t[i + 2]
<1>1. i + 2 <= Len(t) /\ b \in TextTail /\ c \in TextTail /\ a \in 224 .. 239
  BY TextContinued
<1>2. v = (a % 16) * 4096 + (b % 64) * 64 + (c % 64)
  BY TextPayload, SMT
<1> HIDE DEF v, a, b, c
<1>3. TextIsThree(v, a, b, c)
  BY <1>1, <1>2, SMT DEF TextIsThree
<1>6. TextSaysThree(v, a, b, c)
  BY <1>3, TextThree, Zenon
<1>4. Text!ValueFits(v, 3) <=> (a > 224 \/ b >= 160) /\ ~ (a = 237 /\ b >= 160)
  BY <1>1, <1>6, TextValueFits, SMT DEF TextSaysThree
<1>5. /\ (a > 224 \/ b >= 160) <=> (a = 224 => b >= 160)
      /\ ~ (a = 237 /\ b >= 160) <=> (a = 237 => b <= 159)
  BY <1>1 DEF TextTail
<1> QED
  BY <1>1, <1>4, <1>5, Zenon DEF TextTriple, v, a, b, c

LEMMA TextFitsFour ==
    ASSUME NEW t, NEW i, TextAt(t, i), Text!Continued(t, i, 4), t[i] \in 240 .. 247
    PROVE  Text!ValueFits(Text!Payload(t, i, 4), 4) <=> TextQuad(t, i)
<1> DEFINE v == Text!Payload(t, i, 4)
           a == t[i]
           b == t[i + 1]
           c == t[i + 2]
           d == t[i + 3]
<1>1. i + 3 <= Len(t) /\ b \in TextTail /\ c \in TextTail /\ d \in TextTail /\ a \in 240 .. 247
  BY TextContinued
<1>2. v = (a % 8) * 262144 + (b % 64) * 4096 + (c % 64) * 64 + (d % 64)
  BY TextPayload, SMT
<1> HIDE DEF v, a, b, c, d
<1>3. TextIsFour(v, a, b, c, d)
  BY <1>1, <1>2, SMT DEF TextIsFour
<1>6. TextSaysFour(v, a, b, c, d)
  BY <1>3, TextFour, Zenon
<1>4. Text!ValueFits(v, 4) <=> (a > 240 \/ b >= 144) /\ (a < 244 \/ (a = 244 /\ b <= 143))
  BY <1>1, <1>6, TextValueFits, SMT DEF TextSaysFour
<1>5. /\ (a > 240 \/ b >= 144) <=> (a = 240 => b >= 144)
      /\ (a < 244 \/ (a = 244 /\ b <= 143)) <=> a \in 240 .. 244 /\ (a = 244 => b <= 143)
  BY <1>1 DEF TextTail
<1> QED
  BY <1>1, <1>4, <1>5, Zenon DEF TextQuad, v, a, b, c, d

LEMMA TextTaken ==
    ASSUME NEW t, NEW i, TextAt(t, i), NEW n \in Nat,
           /\ t[i] < 128 => n = 1
           /\ t[i] \in 194 .. 223 => n = 2
           /\ t[i] \in 224 .. 239 => n = 3
           /\ t[i] \in 240 .. 244 => n = 4
           /\ t[i] \in 128 .. 191 => n = 0
           /\ t[i] \in 192 .. 193 => n \in {0, 2}
           /\ t[i] \in 245 .. 247 => n \in {0, 4}
           /\ t[i] > 247 => n = 0
    PROVE  (IF n > 0 /\ Text!Continued(t, i, n) /\ Text!ValueFits(Text!Payload(t, i, n), n)
            THEN n ELSE 0) = TextTake(t, i)
<1> DEFINE a == t[i]
           r == IF n > 0 /\ Text!Continued(t, i, n) /\ Text!ValueFits(Text!Payload(t, i, n), n)
                THEN n ELSE 0
<1>0. a \in Nat /\ a <= 255
  BY TextByteIs DEF TextByte
<1>1. CASE a < 128
  <2>1. n = 1 /\ Text!Continued(t, i, 1) /\ Text!ValueFits(Text!Payload(t, i, 1), 1)
    BY <1>1, TextContinued, TextFitsOne
  <2>2. TextTake(t, i) = 1
    BY <1>1, TextTakeIs
  <2> QED
    BY <2>1, <2>2
<1>2. CASE a \in 192 .. 223
  <2>1. n \in {0, 2} /\ (a >= 194 => n = 2)
    BY <1>2
  <2>2. Text!Continued(t, i, 2) =>
            (Text!ValueFits(Text!Payload(t, i, 2), 2) <=> TextPair(t, i))
    BY <1>2, TextFitsTwo, Zenon
  <2>3. TextPair(t, i) => Text!Continued(t, i, 2) /\ a >= 194
    <3>1. TextPair(t, i) => Text!Continued(t, i, 2)
      BY TextContinued, Zenon DEF TextPair
    <3>2. TextPair(t, i) => a \in 194 .. 223
      BY Zenon DEF TextPair
    <3>3. a \in 194 .. 223 => a >= 194
      OBVIOUS
    <3> QED
      BY <3>1, <3>2, <3>3, Zenon
  <2>4. TextTake(t, i) = IF TextPair(t, i) THEN 2 ELSE 0
    <3>1. a \in 194 .. 223 \/ (~ (a < 128 \/ a \in 194 .. 244) /\ ~ (a >= 194))
      BY <1>2
    <3> QED
      BY <2>3, <3>1, TextTakeIs
  <2>5. r = IF n = 2 /\ TextPair(t, i) THEN 2 ELSE 0
    BY <2>1, <2>2, <2>3
  <2> QED
    BY <2>1, <2>3, <2>4, <2>5
<1>3. CASE a \in 224 .. 239
  <2>1. n = 3
    BY <1>3
  <2>2. Text!Continued(t, i, 3) =>
            (Text!ValueFits(Text!Payload(t, i, 3), 3) <=> TextTriple(t, i))
    BY <1>3, TextFitsThree, Zenon
  <2>3. TextTriple(t, i) => Text!Continued(t, i, 3)
    BY TextContinued DEF TextTriple
  <2>4. TextTake(t, i) = IF TextTriple(t, i) THEN 3 ELSE 0
    BY <1>3, TextTakeIs
  <2> QED
    BY <2>1, <2>2, <2>3, <2>4
<1>4. CASE a \in 240 .. 247
  <2>1. n \in {0, 4} /\ (a <= 244 => n = 4)
    BY <1>4
  <2>2. Text!Continued(t, i, 4) =>
            (Text!ValueFits(Text!Payload(t, i, 4), 4) <=> TextQuad(t, i))
    BY <1>4, TextFitsFour, Zenon
  <2>3. TextQuad(t, i) => Text!Continued(t, i, 4) /\ a <= 244
    <3>1. TextQuad(t, i) => Text!Continued(t, i, 4)
      BY TextContinued, Zenon DEF TextQuad
    <3>2. TextQuad(t, i) => a \in 240 .. 244
      BY Zenon DEF TextQuad
    <3>3. a \in 240 .. 244 => a <= 244
      OBVIOUS
    <3> QED
      BY <3>1, <3>2, <3>3, Zenon
  <2>4. TextTake(t, i) = IF TextQuad(t, i) THEN 4 ELSE 0
    <3>1. a \in 240 .. 244 \/ (~ (a < 128 \/ a \in 194 .. 244) /\ ~ (a <= 244))
      BY <1>4
    <3> QED
      BY <2>3, <3>1, TextTakeIs
  <2>5. r = IF n = 4 /\ TextQuad(t, i) THEN 4 ELSE 0
    BY <2>1, <2>2, <2>3
  <2> QED
    BY <2>1, <2>3, <2>4, <2>5
<1>5. CASE a \in 128 .. 191 \/ a > 247
  <2>1. n = 0 /\ ~ (a < 128 \/ a \in 194 .. 244)
    BY <1>5
  <2> QED
    BY <2>1, TextTakeIs
<1> QED
  BY <1>0, <1>1, <1>2, <1>3, <1>4, <1>5

LEMMA TextByValue ==
    ASSUME NEW t, NEW i, TextAt(t, i)
    PROVE  Text!TakeByValue(t, i) = TextTake(t, i) /\ Text!utf8_next(t, i) = TextTake(t, i)
<1> DEFINE a == t[i]
           n == Text!LeadLength(a)
           m == Text!PrefixLength(a)
<1>0. a \in Nat /\ a <= 255
  BY TextByteIs DEF TextByte
<1>1. /\ a < 128 => n = 1 /\ m = 1
      /\ a \in 194 .. 223 => n = 2 /\ m = 2
      /\ a \in 224 .. 239 => n = 3 /\ m = 3
      /\ a \in 240 .. 244 => n = 4 /\ m = 4
      /\ a \in 128 .. 191 => n = 0 /\ m = 0
      /\ a \in 192 .. 193 => n = 0 /\ m = 2
      /\ a \in 245 .. 247 => n = 0 /\ m = 4
      /\ a > 247 => n = 0 /\ m = 0
  BY <1>0, TextLead
<1>2. a < 128 \/ a \in 194 .. 223 \/ a \in 224 .. 239 \/ a \in 240 .. 244 \/ a \in 128 .. 191
      \/ a \in 192 .. 193 \/ a \in 245 .. 247 \/ a > 247
  BY <1>0
<1>3. Text!TakeByValue(t, i) =
          IF n > 0 /\ Text!Continued(t, i, n) /\ Text!ValueFits(Text!Payload(t, i, n), n)
          THEN n ELSE 0
  BY Zenon DEF Text!TakeByValue
<1>4. Text!utf8_next(t, i) =
          IF m > 0 /\ Text!Continued(t, i, m) /\ Text!ValueFits(Text!Payload(t, i, m), m)
          THEN m ELSE 0
  BY Zenon DEF Text!utf8_next
<1> HIDE DEF n, m
<1>5. n \in Nat /\ m \in Nat
  BY <1>1, <1>2
<1>6. Text!TakeByValue(t, i) = TextTake(t, i)
  BY <1>1, <1>3, <1>5, TextTaken
<1>7. Text!utf8_next(t, i) = TextTake(t, i)
  BY <1>1, <1>4, <1>5, TextTaken
<1> QED
  BY <1>6, <1>7

-----------------------------------------------------------------------------
(* What a character is encoded to is as long as its value says.              *)
LEMMA TextEncoded ==
    ASSUME NEW v \in Nat
    PROVE  /\ v < 128 => Text!Encoded(v) = <<v>>
           /\ v >= 128 /\ v < 2048 =>
                  Text!Encoded(v) = <<192 + v \div 64, 128 + (v % 64)>>
           /\ v >= 2048 /\ v < 65536 =>
                  Text!Encoded(v) =
                      <<224 + v \div 4096, 128 + ((v \div 64) % 64), 128 + (v % 64)>>
           /\ v >= 65536 =>
                  Text!Encoded(v) =
                      <<240 + v \div 262144, 128 + ((v \div 4096) % 64),
                        128 + ((v \div 64) % 64), 128 + (v % 64)>>
<1>1. CASE v < 128
  <2>1. ~ (v >= 128) /\ ~ (v >= 2048) /\ ~ (v >= 65536)
    BY <1>1
  <2> QED
    BY <1>1, <2>1, SMT DEF Text!Encoded
<1>2. CASE v >= 128 /\ v < 2048
  <2>1. ~ (v < 128) /\ ~ (v >= 2048) /\ ~ (v >= 65536)
    BY <1>2
  <2> QED
    BY <1>2, <2>1, SMT DEF Text!Encoded
<1>3. CASE v >= 2048 /\ v < 65536
  <2>1. ~ (v < 128) /\ ~ (v < 2048) /\ ~ (v >= 65536)
    BY <1>3
  <2> QED
    BY <1>3, <2>1, SMT DEF Text!Encoded
<1>4. CASE v >= 65536
  <2>1. ~ (v < 128) /\ ~ (v < 2048) /\ ~ (v < 65536)
    BY <1>4
  <2> QED
    BY <1>4, <2>1, SMT DEF Text!Encoded
<1> QED
  BY <1>1, <1>2, <1>3, <1>4

TextLength(v) == IF v < 128 THEN 1 ELSE IF v < 2048 THEN 2 ELSE IF v < 65536 THEN 3 ELSE 4

LEMMA TextEncodedIs ==
    ASSUME NEW v \in Nat
    PROVE  Len(Text!Encoded(v)) = TextLength(v)
BY TextEncoded, SMT DEF TextLength

LEMMA TextTuples ==
    ASSUME NEW s \in Seq(TextByte)
    PROVE  /\ Len(s) = 1 => s = <<s[1]>>
           /\ Len(s) = 2 => s = <<s[1], s[2]>>
           /\ Len(s) = 3 => s = <<s[1], s[2], s[3]>>
           /\ Len(s) = 4 => s = <<s[1], s[2], s[3], s[4]>>
<1>1. Len(s) = 1 => s = <<s[1]>>
  OBVIOUS
<1>2. Len(s) = 2 => s = <<s[1], s[2]>>
  OBVIOUS
<1>3. Len(s) = 3 => s = <<s[1], s[2], s[3]>>
  OBVIOUS
<1>4. Len(s) = 4 => s = <<s[1], s[2], s[3], s[4]>>
  OBVIOUS
<1> QED
  BY <1>1, <1>2, <1>3, <1>4

LEMMA TextSlices ==
    ASSUME NEW t, NEW i, TextAt(t, i)
    PROVE  /\ SubSeq(t, i, i) = <<t[i]>>
           /\ i + 1 <= Len(t) => SubSeq(t, i, i + 1) = <<t[i], t[i + 1]>>
           /\ i + 2 <= Len(t) => SubSeq(t, i, i + 2) = <<t[i], t[i + 1], t[i + 2]>>
           /\ i + 3 <= Len(t) =>
                  SubSeq(t, i, i + 3) = <<t[i], t[i + 1], t[i + 2], t[i + 3]>>
<1>1. t \in Seq(TextByte) /\ i \in Nat \ {0} /\ i <= Len(t) /\ Len(t) \in Nat
  BY DEF TextAt
<1>2. ASSUME NEW m \in 0 .. 3, i + m <= Len(t)
      PROVE  LET s == SubSeq(t, i, i + m)
             IN  s \in Seq(TextByte) /\ Len(s) = m + 1 /\ \A k \in 1 .. m + 1 : s[k] = t[i + k - 1]
  <2> DEFINE s == SubSeq(t, i, i + m)
  <2>1. i + m \in 0 .. Len(t)
    BY <1>1, <1>2
  <2>2. /\ s \in Seq(TextByte)
        /\ Len(s) = IF i <= i + m THEN (i + m) - i + 1 ELSE 0
        /\ \A k \in 1 .. (i + m) - i + 1 : s[k] = t[i + k - 1]
    BY <1>1, <2>1, PartIs, Zenon
  <2> HIDE DEF s
  <2>3. i <= i + m /\ (i + m) - i + 1 = m + 1
    BY <1>1
  <2>4. Len(s) = m + 1 /\ \A k \in 1 .. m + 1 : s[k] = t[i + k - 1]
    BY <2>2, <2>3
  <2> QED
    BY <2>2, <2>4, Zenon DEF s
<1>3. SubSeq(t, i, i) = <<t[i]>>
  <2> DEFINE s == SubSeq(t, i, i)
  <2>1. i \in 0 .. Len(t)
    BY <1>1
  <2>2. /\ s \in Seq(TextByte)
        /\ Len(s) = IF i <= i THEN i - i + 1 ELSE 0
        /\ \A k \in 1 .. i - i + 1 : s[k] = t[i + k - 1]
    BY <1>1, <2>1, PartIs, Zenon
  <2> HIDE DEF s
  <2>3. Len(s) = 1 /\ s[1] = t[i]
    BY <1>1, <2>2
  <2> QED
    BY <2>2, <2>3, TextTuples, Zenon DEF s
<1>4. ASSUME i + 1 <= Len(t) PROVE SubSeq(t, i, i + 1) = <<t[i], t[i + 1]>>
  <2> DEFINE s == SubSeq(t, i, i + 1)
  <2>1. s \in Seq(TextByte) /\ Len(s) = 2 /\ s[1] = t[i] /\ s[2] = t[i + 1]
    BY <1>1, <1>2, <1>4
  <2> QED
    BY <2>1, TextTuples, Zenon
<1>5. ASSUME i + 2 <= Len(t) PROVE SubSeq(t, i, i + 2) = <<t[i], t[i + 1], t[i + 2]>>
  <2> DEFINE s == SubSeq(t, i, i + 2)
  <2>1. s \in Seq(TextByte) /\ Len(s) = 3 /\ s[1] = t[i] /\ s[2] = t[i + 1] /\ s[3] = t[i + 2]
    BY <1>1, <1>2, <1>5
  <2> QED
    BY <2>1, TextTuples, Zenon
<1>6. ASSUME i + 3 <= Len(t)
      PROVE  SubSeq(t, i, i + 3) = <<t[i], t[i + 1], t[i + 2], t[i + 3]>>
  <2> DEFINE s == SubSeq(t, i, i + 3)
  <2>1. /\ s \in Seq(TextByte) /\ Len(s) = 4 /\ s[1] = t[i] /\ s[2] = t[i + 1]
        /\ s[3] = t[i + 2] /\ s[4] = t[i + 3]
    BY <1>1, <1>2, <1>6
  <2> QED
    BY <2>1, TextTuples, Zenon
<1> QED
  BY <1>3, <1>4, <1>5, <1>6, Zenon

LEMMA TextExactTwo ==
    ASSUME NEW t, NEW i, TextAt(t, i) PROVE Text!Fits(t, i, 2) <=> TextPair(t, i)
<1> DEFINE v == Text!Payload(t, i, 2)
           a == t[i]
           b == t[i + 1]
           s == <<a, b>>
<1>0. i \in Nat /\ Len(t) \in Nat /\ i + 2 - 1 = i + 1 /\ i >= 1
  BY TextByteIs
<1>1. i + 1 <= Len(t) => a \in TextByte /\ b \in TextByte
  BY <1>0, TextByteIs
<1>2. i + 1 <= Len(t) => SubSeq(t, i, i + 1) = s
  BY TextSlices, Zenon
<1>3. Text!Fits(t, i, 2) <=>
          i + 1 <= Len(t) /\ Text!Scalar(v) /\ Text!Encoded(v) = s
  BY <1>0, <1>2, Zenon DEF Text!Fits
<1>5. v = (a % 32) * 64 + (b % 64)
  BY TextPayload, SMT
<1>6. TextPair(t, i) => i + 1 <= Len(t) /\ a \in 192 .. 223 /\ b \in TextTail
  BY SMT DEF TextPair
<1>7. TextPair(t, i) <=> i + 1 <= Len(t) /\ a \in 194 .. 223 /\ b \in TextTail
  BY SMT DEF TextPair
<1> HIDE DEF v, a, b
<1>8. ASSUME i + 1 <= Len(t) PROVE v \in Nat
  <2>1. (a % 32) \in Nat /\ (b % 64) \in Nat
    BY <1>1, <1>8, SMT DEF TextByte
  <2> QED
    BY <1>5, <2>1, SMT
<1>9. ASSUME TextPair(t, i) PROVE Text!Fits(t, i, 2)
  <2>1. TextSaysTwo(v, a, b)
    <3>1. TextIsTwo(v, a, b)
      BY <1>5, <1>6, <1>9, SMT DEF TextIsTwo
    <3> QED
      BY <3>1, TextTwo, Zenon
  <2>2. a \in TextByte /\ b \in TextByte /\ i + 1 <= Len(t)
    BY <1>1, <1>6, <1>9, Zenon
  <2>3. v \in Nat /\ Text!Scalar(v) /\ v >= 128 /\ v < 2048
    BY <1>7, <1>9, <2>1, <2>2, TextValueFits, SMT DEF TextSaysTwo, TextByte
  <2>4. Text!Encoded(v) = <<192 + v \div 64, 128 + (v % 64)>>
    BY <2>3, TextEncoded, SMT
  <2>5. 192 + v \div 64 = a /\ 128 + (v % 64) = b
    BY <2>1, <2>2, <2>3, SMT DEF TextSaysTwo, TextByte
  <2> QED
    BY <1>3, <2>2, <2>3, <2>4, <2>5, SMT
<1>10. ASSUME Text!Fits(t, i, 2) PROVE TextPair(t, i)
  <2>1. v \in Nat /\ Text!Scalar(v) /\ Text!Encoded(v) = s /\ i + 1 <= Len(t)
    BY <1>3, <1>8, <1>10, Zenon
  <2>2. v >= 128 /\ v < 2048
    <3>1. Len(s) = 2
      OBVIOUS
    <3>2. TextLength(v) = 2
      BY <2>1, <3>1, TextEncodedIs
    <3> QED
      BY <2>1, <3>2, TextValueFits, SMT DEF TextLength
  <2>3. Text!Encoded(v) = <<192 + v \div 64, 128 + (v % 64)>>
    BY <2>1, <2>2, TextEncoded, SMT
  <2>4. 192 + v \div 64 = a /\ 128 + (v % 64) = b
    BY <2>1, <2>3, SMT
  <2>5. TextGivesTwo(a, b)
    <3>1. TextFromTwo(v, a, b)
      BY <2>1, <2>2, <2>4, TextValueFits, SMT DEF TextFromTwo
    <3> QED
      BY <3>1, TextTwoBack, Zenon
  <2> QED
    BY <1>7, <2>1, <2>5, SMT DEF TextGivesTwo
<1> QED
  BY <1>9, <1>10, Zenon

LEMMA TextExactThree ==
    ASSUME NEW t, NEW i, TextAt(t, i) PROVE Text!Fits(t, i, 3) <=> TextTriple(t, i)
<1> DEFINE v == Text!Payload(t, i, 3)
           a == t[i]
           b == t[i + 1]
           c == t[i + 2]
           s == <<a, b, c>>
<1>0. i \in Nat /\ Len(t) \in Nat /\ i + 3 - 1 = i + 2 /\ i >= 1
  BY TextByteIs
<1>1. i + 2 <= Len(t) => a \in TextByte /\ b \in TextByte /\ c \in TextByte
  BY <1>0, TextByteIs
<1>2. i + 2 <= Len(t) => SubSeq(t, i, i + 2) = s
  BY TextSlices, Zenon
<1>3. Text!Fits(t, i, 3) <=>
          i + 2 <= Len(t) /\ Text!Scalar(v) /\ Text!Encoded(v) = s
  BY <1>0, <1>2, Zenon DEF Text!Fits
<1>5. v = (a % 16) * 4096 + (b % 64) * 64 + (c % 64)
  BY TextPayload, SMT
<1>6. TextTriple(t, i) => i + 2 <= Len(t) /\ a \in 224 .. 239 /\ b \in TextTail /\ c \in TextTail
  BY SMT DEF TextTriple
<1>7. TextTriple(t, i) <=> i + 2 <= Len(t) /\ a \in 224 .. 239 /\ b \in TextTail /\ c \in TextTail
        /\ (a = 224 => b >= 160) /\ (a = 237 => b <= 159)
  BY SMT DEF TextTriple
<1> HIDE DEF v, a, b, c
<1>8. ASSUME i + 2 <= Len(t) PROVE v \in Nat
  <2>1. (a % 16) \in Nat /\ (b % 64) \in Nat /\ (c % 64) \in Nat
    BY <1>1, <1>8, SMT DEF TextByte
  <2> QED
    BY <1>5, <2>1, SMT
<1>9. ASSUME TextTriple(t, i) PROVE Text!Fits(t, i, 3)
  <2>1. TextSaysThree(v, a, b, c)
    <3>1. TextIsThree(v, a, b, c)
      BY <1>5, <1>6, <1>9, SMT DEF TextIsThree
    <3> QED
      BY <3>1, TextThree, Zenon
  <2>2. a \in TextByte /\ b \in TextByte /\ c \in TextByte /\ i + 2 <= Len(t)
    BY <1>1, <1>6, <1>9, Zenon
  <2>3. v \in Nat /\ Text!Scalar(v) /\ v >= 2048 /\ v < 65536
    BY <1>7, <1>9, <2>1, <2>2, TextValueFits, SMT DEF TextSaysThree, TextByte
  <2>4. Text!Encoded(v) = <<224 + v \div 4096, 128 + ((v \div 64) % 64), 128 + (v % 64)>>
    BY <2>3, TextEncoded, SMT
  <2>5. 224 + v \div 4096 = a /\ 128 + ((v \div 64) % 64) = b /\ 128 + (v % 64) = c
    BY <2>1, <2>2, <2>3, SMT DEF TextSaysThree, TextByte
  <2> QED
    BY <1>3, <2>2, <2>3, <2>4, <2>5, SMT
<1>10. ASSUME Text!Fits(t, i, 3) PROVE TextTriple(t, i)
  <2>1. v \in Nat /\ Text!Scalar(v) /\ Text!Encoded(v) = s /\ i + 2 <= Len(t)
    BY <1>3, <1>8, <1>10, Zenon
  <2>2. v >= 2048 /\ v < 65536
    <3>1. Len(s) = 3
      OBVIOUS
    <3>2. TextLength(v) = 3
      BY <2>1, <3>1, TextEncodedIs
    <3> QED
      BY <2>1, <3>2, TextValueFits, SMT DEF TextLength
  <2>3. Text!Encoded(v) = <<224 + v \div 4096, 128 + ((v \div 64) % 64), 128 + (v % 64)>>
    BY <2>1, <2>2, TextEncoded, SMT
  <2>4. 224 + v \div 4096 = a /\ 128 + ((v \div 64) % 64) = b /\ 128 + (v % 64) = c
    BY <2>1, <2>3, SMT
  <2>5. TextGivesThree(a, b, c)
    <3>1. TextFromThree(v, a, b, c)
      BY <2>1, <2>2, <2>4, TextValueFits, SMT DEF TextFromThree
    <3> QED
      BY <3>1, TextThreeBack, Zenon
  <2> QED
    BY <1>7, <2>1, <2>5, SMT DEF TextGivesThree
<1> QED
  BY <1>9, <1>10, Zenon

LEMMA TextExactFour ==
    ASSUME NEW t, NEW i, TextAt(t, i) PROVE Text!Fits(t, i, 4) <=> TextQuad(t, i)
<1> DEFINE v == Text!Payload(t, i, 4)
           a == t[i]
           b == t[i + 1]
           c == t[i + 2]
           d == t[i + 3]
           s == <<a, b, c, d>>
<1>0. i \in Nat /\ Len(t) \in Nat /\ i + 4 - 1 = i + 3 /\ i >= 1
  BY TextByteIs
<1>1. i + 3 <= Len(t) => a \in TextByte /\ b \in TextByte /\ c \in TextByte /\ d \in TextByte
  BY <1>0, TextByteIs
<1>2. i + 3 <= Len(t) => SubSeq(t, i, i + 3) = s
  BY TextSlices, Zenon
<1>3. Text!Fits(t, i, 4) <=>
          i + 3 <= Len(t) /\ Text!Scalar(v) /\ Text!Encoded(v) = s
  BY <1>0, <1>2, Zenon DEF Text!Fits
<1>5. v = (a % 8) * 262144 + (b % 64) * 4096 + (c % 64) * 64 + (d % 64)
  BY TextPayload, SMT
<1>6. TextQuad(t, i) => i + 3 <= Len(t) /\ a \in 240 .. 247 /\ b \in TextTail /\ c \in TextTail /\ d \in TextTail
  BY SMT DEF TextQuad
<1>7. TextQuad(t, i) <=> i + 3 <= Len(t) /\ a \in 240 .. 244 /\ b \in TextTail /\ c \in TextTail /\ d \in TextTail
        /\ (a = 240 => b >= 144) /\ (a = 244 => b <= 143)
  BY SMT DEF TextQuad
<1> HIDE DEF v, a, b, c, d
<1>8. ASSUME i + 3 <= Len(t) PROVE v \in Nat
  <2>1. (a % 8) \in Nat /\ (b % 64) \in Nat /\ (c % 64) \in Nat /\ (d % 64) \in Nat
    BY <1>1, <1>8, SMT DEF TextByte
  <2> QED
    BY <1>5, <2>1, SMT
<1>9. ASSUME TextQuad(t, i) PROVE Text!Fits(t, i, 4)
  <2>1. TextSaysFour(v, a, b, c, d)
    <3>1. TextIsFour(v, a, b, c, d)
      BY <1>5, <1>6, <1>9, SMT DEF TextIsFour
    <3> QED
      BY <3>1, TextFour, Zenon
  <2>2. a \in TextByte /\ b \in TextByte /\ c \in TextByte /\ d \in TextByte /\ i + 3 <= Len(t)
    BY <1>1, <1>6, <1>9, Zenon
  <2>3. v \in Nat /\ Text!Scalar(v) /\ v >= 65536 /\ v <= 1114111
    BY <1>7, <1>9, <2>1, <2>2, TextValueFits, SMT DEF TextSaysFour, TextByte
  <2>4. Text!Encoded(v) = <<240 + v \div 262144, 128 + ((v \div 4096) % 64),
                            128 + ((v \div 64) % 64), 128 + (v % 64)>>
    BY <2>3, TextEncoded, SMT
  <2>5. 240 + v \div 262144 = a /\ 128 + ((v \div 4096) % 64) = b
        /\ 128 + ((v \div 64) % 64) = c /\ 128 + (v % 64) = d
    BY <2>1, <2>2, <2>3, SMT DEF TextSaysFour, TextByte
  <2> QED
    BY <1>3, <2>2, <2>3, <2>4, <2>5, SMT
<1>10. ASSUME Text!Fits(t, i, 4) PROVE TextQuad(t, i)
  <2>1. v \in Nat /\ Text!Scalar(v) /\ Text!Encoded(v) = s /\ i + 3 <= Len(t)
    BY <1>3, <1>8, <1>10, Zenon
  <2>2. v >= 65536 /\ v <= 1114111
    <3>1. Len(s) = 4
      OBVIOUS
    <3>2. TextLength(v) = 4
      BY <2>1, <3>1, TextEncodedIs
    <3> QED
      BY <2>1, <3>2, TextValueFits, SMT DEF TextLength
  <2>3. Text!Encoded(v) = <<240 + v \div 262144, 128 + ((v \div 4096) % 64),
                            128 + ((v \div 64) % 64), 128 + (v % 64)>>
    BY <2>1, <2>2, TextEncoded, SMT
  <2>4. 240 + v \div 262144 = a /\ 128 + ((v \div 4096) % 64) = b
        /\ 128 + ((v \div 64) % 64) = c /\ 128 + (v % 64) = d
    BY <2>1, <2>3, SMT
  <2>5. TextGivesFour(a, b, c, d)
    <3>1. TextFromFour(v, a, b, c, d)
      BY <2>1, <2>2, <2>4, TextValueFits, SMT DEF TextFromFour
    <3> QED
      BY <3>1, TextFourBack, Zenon
  <2> QED
    BY <1>7, <2>1, <2>5, SMT DEF TextGivesFour
<1> QED
  BY <1>9, <1>10, Zenon

LEMMA TextExactOne ==
    ASSUME NEW t, NEW i, TextAt(t, i) PROVE Text!Fits(t, i, 1) <=> TextOne(t, i)
<1> DEFINE a == t[i]
<1>0. a \in Nat /\ a <= 255 /\ i \in Nat /\ i <= Len(t) /\ i + 1 - 1 = i
  BY TextByteIs DEF TextByte
<1>1. SubSeq(t, i, i) = <<a>>
  BY TextSlices, Zenon
<1>2. Text!Payload(t, i, 1) = a
  BY TextPayload, SMT
<1>3. Text!Fits(t, i, 1) <=> Text!Scalar(a) /\ Text!Encoded(a) = <<a>>
  BY <1>0, <1>1, <1>2, Zenon DEF Text!Fits
<1> HIDE DEF a
<1>4. Text!Scalar(a)
  BY <1>0, TextValueFits, SMT
<1>5. ASSUME a < 128 PROVE Text!Encoded(a) = <<a>>
  BY <1>0, <1>5, TextEncoded, SMT
<1>6. ASSUME Text!Encoded(a) = <<a>> PROVE a < 128
  <2>1. Len(<<a>>) = 1
    OBVIOUS
  <2>2. TextLength(a) = 1
    BY <1>0, <1>6, <2>1, TextEncodedIs
  <2> QED
    BY <1>0, <2>2, SMT DEF TextLength
<1> QED
  BY <1>3, <1>4, <1>5, <1>6, Zenon DEF TextOne, a

LEMMA TextRightly ==
    ASSUME NEW t, NEW i, TextAt(t, i) PROVE Text!TakeRightly(t, i) = TextTake(t, i)
<1> DEFINE a == t[i]
           A == TextOne(t, i)
           B == TextPair(t, i)
           C == TextTriple(t, i)
           D == TextQuad(t, i)
           F(n) == Text!Fits(t, i, n)
<1>1. /\ F(1) <=> A
      /\ F(2) <=> B
      /\ F(3) <=> C
      /\ F(4) <=> D
  BY TextExactOne, TextExactTwo, TextExactThree, TextExactFour, Zenon
<1>2. ~ (A /\ B) /\ ~ (A /\ C) /\ ~ (A /\ D) /\ ~ (B /\ C) /\ ~ (B /\ D) /\ ~ (C /\ D)
  <2>1. /\ A => a < 128
        /\ B => a \in 194 .. 223
        /\ C => a \in 224 .. 239
        /\ D => a \in 240 .. 244
    BY Zenon DEF TextOne, TextPair, TextTriple, TextQuad
  <2> HIDE DEF A, B, C, D, a
  <2> QED
    BY <2>1
<1>3. Text!TakeRightly(t, i) = IF \E n \in 1 .. 4 : F(n) THEN CHOOSE n \in 1 .. 4 : F(n) ELSE 0
  BY Zenon DEF Text!TakeRightly
<1>4. TextTake(t, i) = IF A THEN 1 ELSE IF B THEN 2 ELSE IF C THEN 3 ELSE IF D THEN 4 ELSE 0
  BY Zenon DEF TextTake
<1>5. \A n \in 1 .. 4 : n = 1 \/ n = 2 \/ n = 3 \/ n = 4
  OBVIOUS
<1>6. 1 \in 1 .. 4 /\ 2 \in 1 .. 4 /\ 3 \in 1 .. 4 /\ 4 \in 1 .. 4
  OBVIOUS
<1> HIDE DEF A, B, C, D, F
<1>7. ASSUME NEW n \in 1 .. 4, F(n), \A m \in 1 .. 4 : F(m) => m = n
      PROVE  Text!TakeRightly(t, i) = n
  <2>1. (CHOOSE m \in 1 .. 4 : F(m)) = n
    BY <1>7, Zenon
  <2> QED
    BY <1>3, <1>7, <2>1, Zenon
<1>8. CASE A
  BY <1>1, <1>2, <1>4, <1>5, <1>6, <1>7, <1>8, Zenon
<1>9. CASE B
  BY <1>1, <1>2, <1>4, <1>5, <1>6, <1>7, <1>9, Zenon
<1>10. CASE C
  BY <1>1, <1>2, <1>4, <1>5, <1>6, <1>7, <1>10, Zenon
<1>11. CASE D
  BY <1>1, <1>2, <1>4, <1>5, <1>6, <1>7, <1>11, Zenon
<1>12. CASE ~ A /\ ~ B /\ ~ C /\ ~ D
  BY <1>1, <1>3, <1>4, <1>5, <1>12, Zenon
<1> QED
  BY <1>8, <1>9, <1>10, <1>11, <1>12, Zenon

-----------------------------------------------------------------------------
(* One character at a time.                                                  *)
TextSteps == 0 .. 4

LEMMA TextTakeHas ==
    ASSUME NEW t, NEW i, TextAt(t, i)
    PROVE  LET n == TextTake(t, i)
           IN  /\ n \in Nat /\ n <= 4 /\ (n > 0 => i + n <= Len(t) + 1)
               /\ \A k \in 1 .. n - 1 : t[i + k] \in TextTail
               /\ n > 1 => t[i] >= 194
               /\ n = 1 => t[i] < 128
<1> DEFINE n == TextTake(t, i)
<1>0. i \in Nat /\ i <= Len(t) /\ Len(t) \in Nat /\ t[i] \in Nat
  BY TextByteIs DEF TextByte
<1>1. CASE TextOne(t, i)
  <2>1. n = 1 /\ t[i] < 128
    BY <1>1, Zenon DEF TextTake, TextOne
  <2> QED
    BY <1>0, <2>1
<1>2. CASE ~ TextOne(t, i) /\ TextPair(t, i)
  <2>1. n = 2
    BY <1>2, Zenon DEF TextTake
  <2>2. i + 1 <= Len(t) /\ t[i] \in 194 .. 223 /\ t[i + 1] \in TextTail
    BY <1>2, Zenon DEF TextPair
  <2>3. t[i] >= 194
    <3>1. \A b \in 194 .. 223 : b >= 194
      OBVIOUS
    <3> QED
      BY <2>2, <3>1, Zenon
  <2>4. \A k \in 1 .. 2 - 1 : k = 1
    OBVIOUS
  <2>5. \A k \in 1 .. 2 - 1 : t[i + k] \in TextTail
    BY <2>2, <2>4
  <2>6. i + 2 <= Len(t) + 1
    BY <1>0, <2>2
  <2> HIDE DEF n
  <2> QED
    BY <1>0, <2>1, <2>3, <2>5, <2>6 DEF n
<1>3. CASE ~ TextOne(t, i) /\ ~ TextPair(t, i) /\ TextTriple(t, i)
  <2>1. n = 3
    BY <1>3, Zenon DEF TextTake
  <2>2. i + 2 <= Len(t) /\ t[i] \in 224 .. 239 /\ t[i + 1] \in TextTail /\ t[i + 2] \in TextTail
    BY <1>3, Zenon DEF TextTriple
  <2>3. t[i] >= 194
    <3>1. \A b \in 224 .. 239 : b >= 194
      OBVIOUS
    <3> QED
      BY <2>2, <3>1, Zenon
  <2>4. \A k \in 1 .. 3 - 1 : k = 1 \/ k = 2
    OBVIOUS
  <2>5. \A k \in 1 .. 3 - 1 : t[i + k] \in TextTail
    BY <2>2, <2>4
  <2>6. i + 3 <= Len(t) + 1
    BY <1>0, <2>2
  <2> HIDE DEF n
  <2> QED
    BY <1>0, <2>1, <2>3, <2>5, <2>6 DEF n
<1>4. CASE ~ TextOne(t, i) /\ ~ TextPair(t, i) /\ ~ TextTriple(t, i) /\ TextQuad(t, i)
  <2>1. n = 4
    BY <1>4, Zenon DEF TextTake
  <2>2. /\ i + 3 <= Len(t) /\ t[i] \in 240 .. 244 /\ t[i + 1] \in TextTail
        /\ t[i + 2] \in TextTail /\ t[i + 3] \in TextTail
    BY <1>4, Zenon DEF TextQuad
  <2>3. t[i] >= 194
    <3>1. \A b \in 240 .. 244 : b >= 194
      OBVIOUS
    <3> QED
      BY <2>2, <3>1, Zenon
  <2>4. \A k \in 1 .. 4 - 1 : k = 1 \/ k = 2 \/ k = 3
    OBVIOUS
  <2>5. \A k \in 1 .. 4 - 1 : t[i + k] \in TextTail
    BY <2>2, <2>4
  <2>6. i + 4 <= Len(t) + 1
    BY <1>0, <2>2
  <2> HIDE DEF n
  <2> QED
    BY <1>0, <2>1, <2>3, <2>5, <2>6 DEF n
<1>5. CASE ~ TextOne(t, i) /\ ~ TextPair(t, i) /\ ~ TextTriple(t, i) /\ ~ TextQuad(t, i)
  <2>1. n = 0
    BY <1>5, Zenon DEF TextTake
  <2> HIDE DEF n
  <2> QED
    BY <2>1 DEF n
<1> QED
  BY <1>1, <1>2, <1>3, <1>4, <1>5, Zenon

-----------------------------------------------------------------------------
(* A validator over a text.                                                  *)
TextSkips(took, N) ==
    /\ N \in Nat /\ took \in [1 .. N -> Nat]
    /\ \A i \in 1 .. N : took[i] > 0 => i + took[i] <= N + 1

TextRefused(f, took, N) ==
    /\ f[N + 1] = 0
    /\ \A i \in 1 .. N : f[i] = IF took[i] = 0 THEN i ELSE f[i + took[i]]

LEMMA TextAccepts ==
    ASSUME NEW took, NEW N, TextSkips(took, N)
    PROVE  \E f : TextRefused(f, took, N) /\ (Text!AcceptsBy(took) <=> f[1] = 0)
<1>0. /\ N \in Nat /\ took \in [1 .. N -> Nat]
      /\ \A i \in 1 .. N : took[i] > 0 => i + took[i] <= N + 1
  BY DEF TextSkips
<1>1. Len(took) = N
  BY <1>0, FunctionIsSeq
<1> DEFINE following == [i \in 1 .. N |-> IF took[i] = 0 THEN N + 1 ELSE i + took[i]]
           step == [i \in 1 .. N |-> [v \in Nat |-> IF took[i] = 0 THEN i ELSE v]]
           S == Nat
           z == 0
<1>2. \A i \in 1 .. N : following[i] \in i + 1 .. N + 1
  BY <1>0
<1>3. \A i \in 1 .. N : \A v \in S : step[i][v] \in S
  BY <1>0
<1>4. z \in S /\ \A i \in 1 .. N : \A v \in Nat : step[i][v] = IF took[i] = 0 THEN i ELSE v
  OBVIOUS
<1>5. \A i \in 1 .. N : following[i] = IF took[i] = 0 THEN N + 1 ELSE i + took[i]
  OBVIOUS
<1> HIDE DEF following, step, S, z
<1>6. PICK g : Leads(g, N, S, z, following, step)
  BY <1>0, <1>2, <1>3, <1>4, RecursionDown
<1>7. /\ g \in [1 .. N + 1 -> Nat] /\ g[N + 1] = 0
      /\ \A i \in 1 .. N : g[i] = step[i][g[following[i]]]
  BY <1>6, Zenon DEF Leads, S, z
<1>8. ASSUME NEW i \in 1 .. N PROVE g[i] = IF took[i] = 0 THEN i ELSE g[i + took[i]]
  <2>1. following[i] \in 1 .. N + 1
    BY <1>0, <1>2
  <2>2. g[following[i]] \in Nat
    BY <1>7, <2>1
  <2>3. g[i] = IF took[i] = 0 THEN i ELSE g[following[i]]
    BY <1>4, <1>7, <2>2
  <2> QED
    BY <1>5, <2>3
<1> DEFINE E(f, i) == IF i > Len(took) THEN 0 ELSE IF took[i] = 0 THEN i ELSE f[i + took[i]]
           Is(f) == f = [i \in 1 .. Len(took) + 1 |-> E(f, i)]
           c == CHOOSE f : Is(f)
<1>9. \A i \in 1 .. N + 1 : i \in 1 .. N \/ (i = N + 1 /\ i > N)
  BY <1>0
<1>10. \A i \in 1 .. N : ~ (i > N) /\ i \in 1 .. N + 1
  BY <1>0
<1>11. N + 1 \in 1 .. N + 1 /\ N + 1 > N
  BY <1>0
<1>12. \A i \in 1 .. N + 1 : g[i] = E(g, i)
  BY <1>1, <1>7, <1>8, <1>9, <1>10, Zenon
<1>13. g = [i \in 1 .. N + 1 |-> g[i]]
  BY <1>7
<1>14. Is(g)
  <2> HIDE DEF E
  <2>1. [i \in 1 .. N + 1 |-> g[i]] = [i \in 1 .. N + 1 |-> E(g, i)]
    BY <1>12, Zenon
  <2>2. 1 .. N + 1 = 1 .. Len(took) + 1
    BY <1>1
  <2> QED
    BY <1>13, <2>1, <2>2, Zenon
<1>15. Is(c)
  BY <1>14, Zenon
<1>16. Text!AcceptsBy(took) <=> c[1] = 0
  BY Zenon DEF Text!AcceptsBy
<1> HIDE DEF c
<1>17. \A i \in 1 .. N + 1 : c[i] = E(c, i)
  BY <1>1, <1>15, Zenon
<1>18. c[N + 1] = 0 /\ \A i \in 1 .. N : c[i] = IF took[i] = 0 THEN i ELSE c[i + took[i]]
  BY <1>1, <1>10, <1>11, <1>17, Zenon
<1> QED
  BY <1>16, <1>18, Zenon DEF TextRefused

(* The rules of all validators of well-formed text are one.                  *)
TextTakes(t) == [i \in 1 .. Len(t) |-> TextTake(t, i)]

LEMMA TextSame ==
    ASSUME NEW t \in Seq(TextByte)
    PROVE  /\ Text!utf8_valid(t) <=> Text!AcceptsBy(TextTakes(t))
           /\ Text!position_utf8_valid(t) <=> Text!AcceptsBy(TextTakes(t))
           /\ Text!WellFormed(t) <=> Text!AcceptsBy(TextTakes(t))
<1>1. DOMAIN t = 1 .. Len(t)
  OBVIOUS
<1>2. ASSUME NEW i \in 1 .. Len(t)
      PROVE  /\ Text!TakeByValue(t, i) = TextTake(t, i) /\ Text!TakeBySecond(t, i) = TextTake(t, i)
             /\ Text!TakeRightly(t, i) = TextTake(t, i)
  <2>1. TextAt(t, i)
    BY DEF TextAt
  <2> QED
    BY <2>1, TextByValue, TextBySecond, TextRightly, Zenon
<1>3. [i \in DOMAIN t |-> Text!TakeByValue(t, i)] = TextTakes(t)
  BY <1>1, <1>2, Zenon DEF TextTakes
<1>4. [i \in DOMAIN t |-> Text!TakeBySecond(t, i)] = TextTakes(t)
  BY <1>1, <1>2, Zenon DEF TextTakes
<1>5. [i \in DOMAIN t |-> Text!TakeRightly(t, i)] = TextTakes(t)
  BY <1>1, <1>2, Zenon DEF TextTakes
<1> QED
  BY <1>3, <1>4, <1>5, Zenon DEF Text!utf8_valid, Text!position_utf8_valid, Text!WellFormed

LEMMA TextTakesSkip ==
    ASSUME NEW t \in Seq(TextByte) PROVE TextSkips(TextTakes(t), Len(t))
<1>1. ASSUME NEW i \in 1 .. Len(t)
      PROVE  TextTake(t, i) \in Nat /\ (TextTake(t, i) > 0 => i + TextTake(t, i) <= Len(t) + 1)
  <2>1. TextAt(t, i)
    BY DEF TextAt
  <2> QED
    BY <2>1, TextTakeHas, Zenon
<1>2. Len(t) \in Nat
  OBVIOUS
<1>3. TextTakes(t) \in [1 .. Len(t) -> Nat]
  BY <1>1, Zenon DEF TextTakes
<1>4. \A i \in 1 .. Len(t) : TextTakes(t)[i] = TextTake(t, i)
  BY Zenon DEF TextTakes
<1> QED
  BY <1>1, <1>2, <1>3, <1>4, Zenon DEF TextSkips

-----------------------------------------------------------------------------
(* From the end to the beginning, past it included.                          *)
LEMMA TextDownward ==
    ASSUME NEW N \in Nat, NEW P, N + 1 \in P,
           \A i \in 1 .. N : (\A k \in i + 1 .. N + 1 : k \in P) => i \in P
    PROVE  \A i \in 1 .. N + 1 : i \in P
<1>1. N + 1 \in Nat
  OBVIOUS
<1>2. ASSUME NEW i \in 1 .. N + 1, \A k \in i + 1 .. N + 1 : k \in P PROVE i \in P
  <2>1. i \in 1 .. N \/ i = N + 1
    OBVIOUS
  <2> QED
    BY <1>2, <2>1
<1> QED
  BY <1>1, <1>2, Downward

(* Printable from i on.                                                      *)
TextPlain(t, i) == \A k \in i .. Len(t) : t[k] >= 32 /\ t[k] # 127

LEMMA TextPlainOver ==
    ASSUME NEW t, NEW i, TextAt(t, i), TextTake(t, i) > 0
    PROVE  TextPlain(t, i) <=> t[i] >= 32 /\ t[i] # 127 /\ TextPlain(t, i + TextTake(t, i))
<1> DEFINE n == TextTake(t, i)
<1>0. i \in Nat /\ i <= Len(t) /\ Len(t) \in Nat
  BY TextByteIs
<1>1. /\ n \in Nat /\ n > 0 /\ i + n <= Len(t) + 1
      /\ \A k \in 1 .. n - 1 : t[i + k] \in TextTail
  BY TextTakeHas, Zenon
<1> HIDE DEF n
<1>2. ASSUME NEW k \in i + 1 .. i + n - 1 PROVE t[k] >= 32 /\ t[k] # 127
  <2>1. k - i \in 1 .. n - 1 /\ i + (k - i) = k
    BY <1>0, <1>1
  <2>2. t[k] \in TextTail
    BY <1>1, <2>1
  <2> QED
    BY <2>2 DEF TextTail
<1>3. \A k \in i .. Len(t) : k = i \/ k \in i + 1 .. i + n - 1 \/ k \in i + n .. Len(t)
  BY <1>0, <1>1
<1>4. i \in i .. Len(t) /\ \A k \in i + n .. Len(t) : k \in i .. Len(t)
  BY <1>0, <1>1
<1> QED
  BY <1>2, <1>3, <1>4, Zenon DEF TextPlain, n

LEMMA TextHeaderIs ==
    ASSUME NEW t \in Seq(TextByte)
    PROVE  Text!header_text_ok(t) <=> Len(t) \in 1 .. DeviceMax /\ TextPlain(t, 1)
<1>1. \A k : k \in DOMAIN t <=> k \in 1 .. Len(t)
  OBVIOUS
<1>2. (\A k \in DOMAIN t : t[k] >= 32 /\ t[k] # 127) <=> TextPlain(t, 1)
  BY <1>1, Zenon DEF TextPlain
<1> QED
  BY <1>2, Zenon DEF Text!header_text_ok

LEMMA TextControl ==
    ASSUME NEW v \in Nat, ~ Text!Control(v) PROVE v >= 32 /\ v # 127
<1>1. v = 127 => v \in 127 .. 159
  OBVIOUS
<1>2. ~ (v < 32) /\ v # 127
  BY <1>1, Zenon DEF Text!Control
<1> QED
  BY <1>2

LEMMA TextIdAgrees ==
    ASSUME NEW t \in Seq(TextByte)
    PROVE  Text!cn_sync_valid_device_id(t) <=> Text!header_text_ok(t) /\ Text!utf8_valid(t)
<1> DEFINE N == Len(t)
           took == [i \in DOMAIN t |-> Text!TakeOfId(t, i)]
           plain == TextTakes(t)
<1>0. N \in Nat /\ DOMAIN t = 1 .. N /\ DeviceMax \in Nat
  BY TextAssumption DEF Text!BoundsAssumption
<1>1. ASSUME NEW i \in 1 .. N
      PROVE  /\ TextAt(t, i)
             /\ took[i] = IF \/ i > DeviceMax \/ t[i] < 32 \/ t[i] = 127
                             \/ i + TextTake(t, i) - 1 > DeviceMax
                          THEN 0 ELSE TextTake(t, i)
             /\ plain[i] = TextTake(t, i)
             /\ TextTake(t, i) \in Nat
             /\ TextTake(t, i) > 0 => i + TextTake(t, i) <= N + 1
  <2>1. TextAt(t, i)
    BY DEF TextAt
  <2>2. Text!TakeByValue(t, i) = TextTake(t, i)
    BY <2>1, TextByValue, Zenon
  <2>3. took[i] = Text!TakeOfId(t, i) /\ plain[i] = TextTake(t, i)
    BY <1>0, Zenon DEF TextTakes
  <2>4. TextTake(t, i) \in Nat /\ (TextTake(t, i) > 0 => i + TextTake(t, i) <= N + 1)
    BY <2>1, TextTakeHas, Zenon
  <2> QED
    BY <2>1, <2>2, <2>3, <2>4, Zenon DEF Text!TakeOfId
<1>2. TextSkips(took, N)
  <2>1. \A i \in 1 .. N : took[i] \in Nat /\ (took[i] > 0 => i + took[i] <= N + 1)
    <3> HIDE DEF took
    <3> QED
      BY <1>1
  <2>2. took \in [1 .. N -> Nat]
    BY <1>0, <2>1, Zenon
  <2> QED
    BY <1>0, <2>1, <2>2, Zenon DEF TextSkips
<1>3. PICK f : TextRefused(f, took, N) /\ (Text!AcceptsBy(took) <=> f[1] = 0)
  BY <1>2, TextAccepts, Zenon
<1>4. PICK g : TextRefused(g, plain, N) /\ (Text!AcceptsBy(plain) <=> g[1] = 0)
  BY TextTakesSkip, TextAccepts, Zenon
<1>5. /\ f[N + 1] = 0 /\ g[N + 1] = 0
      /\ \A i \in 1 .. N : f[i] = IF took[i] = 0 THEN i ELSE f[i + took[i]]
      /\ \A i \in 1 .. N : g[i] = IF plain[i] = 0 THEN i ELSE g[i + plain[i]]
  BY <1>3, <1>4, Zenon DEF TextRefused
<1>6. Text!cn_sync_valid_device_id(t) <=> t # << >> /\ f[1] = 0
  BY <1>3, Zenon DEF Text!cn_sync_valid_device_id
<1>7. Text!utf8_valid(t) <=> g[1] = 0
  BY <1>4, TextSame, Zenon
<1> DEFINE Good(i) == (i <= N => N <= DeviceMax) /\ TextPlain(t, i)
           P == {i \in 1 .. N + 1 : f[i] = 0 <=> (g[i] = 0 /\ Good(i))}
<1> HIDE DEF took, plain
<1>8. N + 1 \in P
  <2>1. Good(N + 1)
    BY <1>0 DEF TextPlain
  <2>2. N + 1 \in 1 .. N + 1
    BY <1>0
  <2> QED
    BY <1>5, <2>1, <2>2, Zenon
<1>9. ASSUME NEW i \in 1 .. N, \A k \in i + 1 .. N + 1 : k \in P PROVE i \in P
  <2> DEFINE n == TextTake(t, i)
             bad == i > DeviceMax \/ t[i] < 32 \/ t[i] = 127 \/ i + n - 1 > DeviceMax
  <2>1. /\ took[i] = (IF bad THEN 0 ELSE n) /\ plain[i] = n /\ n \in Nat /\ TextAt(t, i)
        /\ n > 0 => i + n <= N + 1
    BY <1>1, Zenon
  <2>2. f[i] = (IF took[i] = 0 THEN i ELSE f[i + took[i]]) /\ i # 0
        /\ g[i] = (IF plain[i] = 0 THEN i ELSE g[i + plain[i]]) /\ i \in 1 .. N + 1 /\ i <= N
    BY <1>0, <1>5
  <2>3. CASE n = 0
    <3>1. f[i] = i /\ g[i] = i
      BY <2>1, <2>2, <2>3
    <3> QED
      BY <2>2, <3>1
  <2>4. CASE n > 0
    <3>1. TextPlain(t, i) <=> t[i] >= 32 /\ t[i] # 127 /\ TextPlain(t, i + n)
      BY <2>1, <2>4, TextPlainOver, Zenon
    <3>2. i + n \in i + 1 .. N + 1 /\ t[i] \in Nat
      BY <1>0, <2>1, <2>4, TextByteIs DEF TextByte
    <3>3. f[i + n] = 0 <=> (g[i + n] = 0 /\ Good(i + n))
      BY <1>9, <3>2
    <3>4. g[i] = g[i + n]
      BY <2>1, <2>2, <2>4
    <3> HIDE DEF n
    <3>5. CASE bad
      <4>1. f[i] # 0
        BY <2>1, <2>2, <3>5
      <4>2. ~ (N <= DeviceMax) \/ ~ (t[i] >= 32 /\ t[i] # 127)
        BY <1>0, <2>1, <2>4, <3>2, <3>5
      <4>3. ~ Good(i)
        BY <2>2, <3>1, <4>2, Zenon
      <4> QED
        BY <2>2, <4>1, <4>3, Zenon
    <3>6. CASE ~ bad
      <4>1. f[i] = f[i + n]
        BY <2>1, <2>2, <2>4, <3>6
      <4>2. t[i] >= 32 /\ t[i] # 127
        BY <3>2, <3>6
      <4>3. (i + n <= N => N <= DeviceMax) <=> N <= DeviceMax
        BY <1>0, <2>1, <2>2, <2>4, <3>2, <3>6
      <4>4. Good(i) <=> Good(i + n)
        BY <2>2, <3>1, <4>2, <4>3, Zenon
      <4> QED
        BY <2>2, <3>3, <3>4, <4>1, <4>4, Zenon
    <3> QED
      BY <3>5, <3>6, Zenon
  <2> QED
    BY <2>1, <2>3, <2>4
<1>10. \A i \in 1 .. N + 1 : i \in P
  <2> HIDE DEF P, N
  <2> QED
    BY <1>0, <1>8, <1>9, TextDownward
<1>11. f[1] = 0 <=> (g[1] = 0 /\ Good(1))
  <2>1. 1 \in 1 .. N + 1
    BY <1>0
  <2> QED
    BY <1>10, <2>1, Zenon
<1>12. Text!header_text_ok(t) <=> t # << >> /\ Good(1)
  <2>1. t # << >> <=> 1 <= N
    OBVIOUS
  <2>2. N \in 1 .. DeviceMax <=> 1 <= N /\ N <= DeviceMax
    BY <1>0
  <2>4. Text!header_text_ok(t) <=> N \in 1 .. DeviceMax /\ TextPlain(t, 1)
    BY TextHeaderIs, Zenon
  <2>5. Good(1) <=> (1 <= N => N <= DeviceMax) /\ TextPlain(t, 1)
    BY Zenon
  <2> HIDE DEF N, Good
  <2> QED
    BY <2>1, <2>2, <2>4, <2>5, Zenon
<1> QED
  BY <1>6, <1>7, <1>11, <1>12, Zenon

LEMMA TextNameSends ==
    ASSUME NEW t \in Seq(TextByte), Text!DeviceNameOk(t)
    PROVE  Text!header_text_ok(t) /\ Text!utf8_valid(t)
<1> DEFINE N == Len(t)
           took == [i \in DOMAIN t |-> Text!TakeOfName(t, i)]
           plain == TextTakes(t)
<1>0. N \in Nat /\ DOMAIN t = 1 .. N
  OBVIOUS
<1>1. ASSUME NEW i \in 1 .. N
      PROVE  /\ TextAt(t, i)
             /\ took[i] = IF TextTake(t, i) > 0 /\ ~ Text!Control(Text!Payload(t, i, TextTake(t, i)))
                          THEN TextTake(t, i) ELSE 0
             /\ plain[i] = TextTake(t, i)
             /\ TextTake(t, i) \in Nat
             /\ TextTake(t, i) > 0 => i + TextTake(t, i) <= N + 1
  <2>1. TextAt(t, i)
    BY DEF TextAt
  <2>2. Text!utf8_next(t, i) = TextTake(t, i)
    BY <2>1, TextByValue, Zenon
  <2>3. took[i] = Text!TakeOfName(t, i) /\ plain[i] = TextTake(t, i)
    BY <1>0, Zenon DEF TextTakes
  <2>4. TextTake(t, i) \in Nat /\ (TextTake(t, i) > 0 => i + TextTake(t, i) <= N + 1)
    BY <2>1, TextTakeHas, Zenon
  <2> QED
    BY <2>1, <2>2, <2>3, <2>4, Zenon DEF Text!TakeOfName
<1>2. TextSkips(took, N)
  <2>1. \A i \in 1 .. N : took[i] \in Nat /\ (took[i] > 0 => i + took[i] <= N + 1)
    <3> HIDE DEF took
    <3> QED
      BY <1>1
  <2>2. took \in [1 .. N -> Nat]
    BY <1>0, <2>1, Zenon
  <2> QED
    BY <1>0, <2>1, <2>2, Zenon DEF TextSkips
<1>3. PICK f : TextRefused(f, took, N) /\ (Text!AcceptsBy(took) <=> f[1] = 0)
  BY <1>2, TextAccepts, Zenon
<1>4. PICK g : TextRefused(g, plain, N) /\ (Text!AcceptsBy(plain) <=> g[1] = 0)
  BY TextTakesSkip, TextAccepts, Zenon
<1>5. /\ f[N + 1] = 0 /\ g[N + 1] = 0
      /\ \A i \in 1 .. N : f[i] = IF took[i] = 0 THEN i ELSE f[i + took[i]]
      /\ \A i \in 1 .. N : g[i] = IF plain[i] = 0 THEN i ELSE g[i + plain[i]]
  BY <1>3, <1>4, Zenon DEF TextRefused
<1>6. N \in 1 .. DeviceMax /\ f[1] = 0
  BY <1>3, Zenon DEF Text!DeviceNameOk, Text!utf8_device_name_valid
<1>7. Text!utf8_valid(t) <=> g[1] = 0
  BY <1>4, TextSame, Zenon
<1> DEFINE P == {i \in 1 .. N + 1 : f[i] = 0 => g[i] = 0 /\ TextPlain(t, i)}
<1> HIDE DEF took, plain
<1>8. N + 1 \in P
  <2>1. TextPlain(t, N + 1)
    BY <1>0 DEF TextPlain
  <2>2. N + 1 \in 1 .. N + 1
    BY <1>0
  <2> QED
    BY <1>5, <2>1, <2>2, Zenon
<1>9. ASSUME NEW i \in 1 .. N, \A k \in i + 1 .. N + 1 : k \in P PROVE i \in P
  <2> DEFINE n == TextTake(t, i)
             bad == Text!Control(Text!Payload(t, i, n))
  <2>1. /\ took[i] = (IF n > 0 /\ ~ bad THEN n ELSE 0) /\ plain[i] = n /\ n \in Nat /\ TextAt(t, i)
        /\ n > 0 => i + n <= N + 1
    BY <1>1, Zenon
  <2>2. f[i] = (IF took[i] = 0 THEN i ELSE f[i + took[i]]) /\ i # 0
        /\ g[i] = (IF plain[i] = 0 THEN i ELSE g[i + plain[i]]) /\ i \in 1 .. N + 1 /\ i <= N
    BY <1>0, <1>5
  <2>3. CASE n = 0 \/ bad
    <3>1. f[i] = i
      <4> HIDE DEF n, bad
      <4> QED
        BY <2>1, <2>2, <2>3
    <3> QED
      BY <2>2, <3>1
  <2>4. CASE n > 0 /\ ~ bad
    <3>1. TextPlain(t, i) <=> t[i] >= 32 /\ t[i] # 127 /\ TextPlain(t, i + n)
      BY <2>1, <2>4, TextPlainOver, Zenon
    <3>2. i + n \in i + 1 .. N + 1 /\ t[i] \in Nat
      BY <1>0, <2>1, <2>4, TextByteIs DEF TextByte
    <3>3. f[i + n] = 0 => g[i + n] = 0 /\ TextPlain(t, i + n)
      BY <1>9, <3>2
    <3>4. t[i] >= 32 /\ t[i] # 127
      <4>1. CASE n = 1
        <5>1. Text!Payload(t, i, n) = t[i]
          BY <4>1, TextPayload, SMT
        <5>2. ~ Text!Control(t[i])
          BY <2>4, <5>1, Zenon
        <5> QED
          BY <3>2, <5>2, TextControl, Zenon
      <4>2. CASE n # 1
        <5>1. n > 1
          BY <2>1, <2>4, <4>2
        <5>2. t[i] >= 194
          BY <2>1, <5>1, TextTakeHas, Zenon
        <5> QED
          BY <3>2, <5>2
      <4> QED
        BY <4>1, <4>2
    <3> HIDE DEF n, bad
    <3>5. g[i] = g[i + n] /\ f[i] = f[i + n]
      BY <2>1, <2>2, <2>4
    <3> QED
      BY <2>2, <3>1, <3>3, <3>4, <3>5, Zenon
  <2> HIDE DEF n, bad
  <2> QED
    BY <2>1, <2>3, <2>4
<1>10. \A i \in 1 .. N + 1 : i \in P
  <2> HIDE DEF P, N
  <2> QED
    BY <1>0, <1>8, <1>9, TextDownward
<1>11. g[1] = 0 /\ TextPlain(t, 1)
  <2>1. 1 \in 1 .. N + 1
    BY <1>0
  <2> QED
    BY <1>6, <1>10, <2>1, Zenon
<1>12. Text!header_text_ok(t)
  BY <1>6, <1>11, TextHeaderIs, Zenon
<1> QED
  BY <1>7, <1>11, <1>12, Zenon

-----------------------------------------------------------------------------
(* What is decoded and encoded again.                                        *)
LEMMA TextMod ==
    ASSUME NEW x \in Nat
    PROVE  (x % 8) \in Nat /\ (x % 16) \in Nat /\ (x % 32) \in Nat /\ (x % 64) \in Nat
OBVIOUS

LEMMA TextTupleSeq ==
    ASSUME NEW a \in Nat
    PROVE  /\ <<a>> \in Seq(Nat)
           /\ \A b \in Nat : <<a, b>> \in Seq(Nat)
           /\ \A b, c \in Nat : <<a, b, c>> \in Seq(Nat)
           /\ \A b, c, d \in Nat : <<a, b, c, d>> \in Seq(Nat)
OBVIOUS

LEMMA TextCharacter ==
    ASSUME NEW t, NEW i, TextAt(t, i), NEW n, n = TextTake(t, i), n > 0
    PROVE  /\ Text!Payload(t, i, n) \in Nat
           /\ Text!Encoded(Text!Payload(t, i, n)) = SubSeq(t, i, i + n - 1)
<1>0. i \in Nat /\ i >= 1 /\ i <= Len(t) /\ Len(t) \in Nat
      /\ \A k \in 1 .. Len(t) : t[k] \in Nat
  BY TextByteIs DEF TextByte
<1>1. n \in Nat /\ n <= 4 /\ i + n <= Len(t) + 1
  BY TextTakeHas, Zenon
<1>2. Text!Fits(t, i, n)
  <2>1. n = 1 \/ n = 2 \/ n = 3 \/ n = 4
    BY <1>1
  <2>2. /\ TextOne(t, i) => Text!Fits(t, i, 1)
        /\ TextPair(t, i) => Text!Fits(t, i, 2)
        /\ TextTriple(t, i) => Text!Fits(t, i, 3)
        /\ TextQuad(t, i) => Text!Fits(t, i, 4)
    BY TextExactOne, TextExactTwo, TextExactThree, TextExactFour, Zenon
  <2>3. TextOne(t, i) \/ TextPair(t, i) \/ TextTriple(t, i) \/ TextQuad(t, i)
    <3>1. n # 0
      OBVIOUS
    <3> QED
      BY <3>1, Zenon DEF TextTake
  <2>4. n = IF TextOne(t, i) THEN 1 ELSE IF TextPair(t, i) THEN 2
            ELSE IF TextTriple(t, i) THEN 3 ELSE 4
    BY <2>3, Zenon DEF TextTake
  <2> QED
    BY <2>2, <2>3, <2>4, Zenon
<1>3. Text!Encoded(Text!Payload(t, i, n)) = SubSeq(t, i, i + n - 1)
  BY <1>2, Zenon DEF Text!Fits
<1>4. Text!Payload(t, i, n) \in Nat
  <2>1. CASE n = 1
    BY <1>0, <2>1, TextPayload, SMT
  <2>2. CASE n = 2
    <3>1. t[i] \in Nat /\ t[i + 1] \in Nat
      BY <1>0, <1>1, <2>2
    <3>2. (t[i] % 32) \in Nat /\ (t[i + 1] % 64) \in Nat
      BY <3>1, TextMod
    <3> QED
      BY <2>2, <3>2, TextPayload, SMT
  <2>3. CASE n = 3
    <3>1. t[i] \in Nat /\ t[i + 1] \in Nat /\ t[i + 2] \in Nat
      BY <1>0, <1>1, <2>3
    <3>2. (t[i] % 16) \in Nat /\ (t[i + 1] % 64) \in Nat /\ (t[i + 2] % 64) \in Nat
      BY <3>1, TextMod
    <3> QED
      BY <2>3, <3>2, TextPayload, SMT
  <2>4. CASE n = 4
    <3>1. t[i] \in Nat /\ t[i + 1] \in Nat /\ t[i + 2] \in Nat /\ t[i + 3] \in Nat
      BY <1>0, <1>1, <2>4
    <3>2. (t[i] % 8) \in Nat /\ (t[i + 1] % 64) \in Nat /\ (t[i + 2] % 64) \in Nat /\ (t[i + 3] % 64) \in Nat
      BY <3>1, TextMod
    <3> QED
      BY <2>4, <3>2, TextPayload, SMT
  <2> QED
    BY <1>1, <2>1, <2>2, <2>3, <2>4
<1> QED
  BY <1>3, <1>4

LEMMA TextEncodedSeq ==
    ASSUME NEW v \in Nat PROVE Text!Encoded(v) \in Seq(Nat)
<1>1. CASE v < 128
  <2>1. Text!Encoded(v) = <<v>>
    BY <1>1, TextEncoded, SMT
  <2> QED
    BY <2>1, TextTupleSeq, Zenon
<1>2. CASE v >= 128 /\ v < 2048
  <2> DEFINE a == 192 + v \div 64
             b == 128 + (v % 64)
  <2>1. a \in Nat /\ b \in Nat
    BY SMT
  <2>2. Text!Encoded(v) = <<a, b>>
    BY <1>2, TextEncoded, SMT
  <2> HIDE DEF a, b
  <2> QED
    BY <2>1, <2>2, TextTupleSeq, Zenon
<1>3. CASE v >= 2048 /\ v < 65536
  <2> DEFINE a == 224 + v \div 4096
             b == 128 + ((v \div 64) % 64)
             c == 128 + (v % 64)
  <2>1. a \in Nat /\ b \in Nat /\ c \in Nat
    BY SMT
  <2>2. Text!Encoded(v) = <<a, b, c>>
    BY <1>3, TextEncoded, SMT
  <2> HIDE DEF a, b, c
  <2> QED
    BY <2>1, <2>2, TextTupleSeq, Zenon
<1>4. CASE v >= 65536
  <2> DEFINE a == 240 + v \div 262144
             b == 128 + ((v \div 4096) % 64)
             c == 128 + ((v \div 64) % 64)
             d == 128 + (v % 64)
  <2>1. a \in Nat /\ b \in Nat /\ c \in Nat /\ d \in Nat
    BY SMT
  <2>2. Text!Encoded(v) = <<a, b, c, d>>
    <3>1. ~ (v < 128) /\ ~ (v < 2048) /\ ~ (v < 65536)
      BY <1>4
    <3> QED
      BY <1>4, <3>1, SMT DEF Text!Encoded
  <2> HIDE DEF a, b, c, d
  <2> QED
    BY <2>1, <2>2, TextTupleSeq, Zenon
<1> QED
  BY <1>1, <1>2, <1>3, <1>4, SMT

TextEncodes(e, s) ==
    /\ e[Len(s) + 1] = << >>
    /\ \A i \in 1 .. Len(s) : e[i] = Text!Encoded(s[i]) \o e[i + 1]
    /\ \A i \in 1 .. Len(s) + 1 : e[i] \in Seq(Nat)

LEMMA TextAllEncoded ==
    ASSUME NEW s \in Seq(Nat)
    PROVE  \E e : TextEncodes(e, s) /\ Text!EncodedAll(s) = e[1]
<1> DEFINE N == Len(s)
           S == Seq(Nat)
           z == << >>
           following == [i \in 1 .. N |-> i + 1]
           step == [i \in 1 .. N |-> [v \in S |-> Text!Encoded(s[i]) \o v]]
<1>0. N \in Nat /\ \A i \in 1 .. N : s[i] \in Nat
  OBVIOUS
<1>1. \A i \in 1 .. N : following[i] = i + 1 /\ i + 1 \in i + 1 .. N + 1
  BY <1>0
<1>2. ASSUME NEW i \in 1 .. N, NEW v \in S
      PROVE  step[i][v] = Text!Encoded(s[i]) \o v /\ Text!Encoded(s[i]) \o v \in S
  <2>1. Text!Encoded(s[i]) \in Seq(Nat)
    BY <1>0, TextEncodedSeq
  <2> QED
    BY <2>1
<1>3. z \in S /\ \A i \in 1 .. N : \A v \in S : step[i][v] \in S
  <2>1. \A i \in 1 .. N : \A v \in S : step[i][v] \in S
    BY <1>2, Zenon
  <2> QED
    BY <2>1
<1>4. \A i \in 1 .. N : following[i] \in i + 1 .. N + 1
  BY <1>1
<1> HIDE DEF following, step
<1>5. PICK g : Leads(g, N, S, z, following, step)
  <2> HIDE DEF S, z, N
  <2> QED
    BY <1>0, <1>3, <1>4, RecursionDown
<1>6. /\ g \in [1 .. N + 1 -> S] /\ g[N + 1] = << >>
      /\ \A i \in 1 .. N : g[i] = Text!Encoded(s[i]) \o g[i + 1]
  <2>1. /\ g \in [1 .. N + 1 -> S] /\ g[N + 1] = << >>
        /\ \A i \in 1 .. N : g[i] = step[i][g[i + 1]]
    BY <1>1, <1>5, Zenon DEF Leads
  <2>2. \A i \in 1 .. N : i + 1 \in 1 .. N + 1
    BY <1>0
  <2>3. \A i \in 1 .. N : g[i + 1] \in S
    BY <2>1, <2>2
  <2> QED
    BY <1>2, <2>1, <2>3, Zenon
<1> DEFINE E(f, i) == IF i > Len(s) THEN << >> ELSE Text!Encoded(s[i]) \o f[i + 1]
           Is(f) == f = [i \in 1 .. Len(s) + 1 |-> E(f, i)]
           c == CHOOSE f : Is(f)
<1>9. \A i \in 1 .. N + 1 : i \in 1 .. N \/ (i = N + 1 /\ i > N)
  BY <1>0
<1>10. \A i \in 1 .. N : ~ (i > N) /\ i \in 1 .. N + 1
  BY <1>0
<1>11. N + 1 \in 1 .. N + 1 /\ N + 1 > N
  BY <1>0
<1>12. \A i \in 1 .. N + 1 : g[i] = E(g, i)
  BY <1>6, <1>9, <1>10, Zenon
<1>13. g = [i \in 1 .. N + 1 |-> g[i]]
  BY <1>6
<1>14. Is(g)
  <2> HIDE DEF E
  <2>1. [i \in 1 .. N + 1 |-> g[i]] = [i \in 1 .. N + 1 |-> E(g, i)]
    BY <1>12, Zenon
  <2> QED
    BY <1>13, <2>1, Zenon
<1>15. Is(c)
  BY <1>14, Zenon
<1>16. Text!EncodedAll(s) = c[1]
  BY Zenon DEF Text!EncodedAll
<1> HIDE DEF c
<1>17. \A i \in 1 .. N + 1 : c[i] = E(c, i)
  BY <1>15, Zenon
<1>18. c[N + 1] = << >> /\ \A i \in 1 .. N : c[i] = Text!Encoded(s[i]) \o c[i + 1]
  BY <1>10, <1>11, <1>17, Zenon
<1> DEFINE P == {i \in 1 .. N + 1 : c[i] = g[i]}
<1>19. N + 1 \in P
  BY <1>6, <1>11, <1>18, Zenon
<1>20. ASSUME NEW i \in 1 .. N, \A k \in i + 1 .. N + 1 : k \in P PROVE i \in P
  <2>1. i + 1 \in P
    BY <1>1, <1>20
  <2> QED
    BY <1>6, <1>10, <1>18, <2>1, Zenon
<1>21. \A i \in 1 .. N + 1 : i \in P
  <2> HIDE DEF P, N
  <2> QED
    BY <1>0, <1>19, <1>20, TextDownward
<1>22. \A i \in 1 .. N + 1 : c[i] \in Seq(Nat)
  BY <1>6, <1>21
<1> QED
  BY <1>16, <1>18, <1>22, Zenon DEF TextEncodes

LEMMA TextEncodedMore ==
    ASSUME NEW v \in Nat, NEW s \in Seq(Nat)
    PROVE  Text!EncodedAll(<<v>> \o s) = Text!Encoded(v) \o Text!EncodedAll(s)
<1> DEFINE u == <<v>> \o s
           N == Len(s)
<1>0. N \in Nat /\ u \in Seq(Nat) /\ Len(u) = N + 1 /\ u[1] = v /\ \A i \in 1 .. N : u[i + 1] = s[i]
  OBVIOUS
<1>1. PICK e : TextEncodes(e, s) /\ Text!EncodedAll(s) = e[1]
  BY TextAllEncoded
<1>2. PICK h : TextEncodes(h, u) /\ Text!EncodedAll(u) = h[1]
  BY <1>0, TextAllEncoded
<1> HIDE DEF u
<1>3. /\ e[N + 1] = << >> /\ h[N + 1 + 1] = << >>
      /\ \A i \in 1 .. N : e[i] = Text!Encoded(s[i]) \o e[i + 1]
      /\ \A i \in 1 .. N + 1 : h[i] = Text!Encoded(u[i]) \o h[i + 1]
  BY <1>0, <1>1, <1>2, Zenon DEF TextEncodes
<1> DEFINE P == {i \in 1 .. N + 1 : h[i + 1] = e[i]}
<1>4. N + 1 \in P
  <2>1. N + 1 \in 1 .. N + 1
    BY <1>0
  <2> QED
    BY <1>3, <2>1, Zenon
<1>5. ASSUME NEW i \in 1 .. N, \A k \in i + 1 .. N + 1 : k \in P PROVE i \in P
  <2>1. i + 1 \in i + 1 .. N + 1 /\ i \in 1 .. N + 1 /\ i + 1 \in 1 .. N + 1
    BY <1>0
  <2>2. h[i + 1 + 1] = e[i + 1]
    BY <1>5, <2>1
  <2>3. h[i + 1] = Text!Encoded(u[i + 1]) \o h[i + 1 + 1] /\ e[i] = Text!Encoded(s[i]) \o e[i + 1]
    BY <1>3, <2>1, Zenon
  <2>4. u[i + 1] = s[i]
    BY <1>0
  <2> QED
    BY <2>1, <2>2, <2>3, <2>4, Zenon
<1>6. \A i \in 1 .. N + 1 : i \in P
  <2> HIDE DEF P, N
  <2> QED
    BY <1>0, <1>4, <1>5, TextDownward
<1>7. 1 \in 1 .. N + 1
  BY <1>0
<1>8. h[1] = Text!Encoded(u[1]) \o h[1 + 1] /\ h[1 + 1] = e[1]
  BY <1>3, <1>6, <1>7, Zenon
<1> QED
  BY <1>0, <1>1, <1>2, <1>8, Zenon DEF u

LEMMA TextEncodedSeqs ==
    ASSUME NEW s \in Seq(Nat) PROVE Text!EncodedAll(s) \in Seq(Nat)
<1>1. PICK e : TextEncodes(e, s) /\ Text!EncodedAll(s) = e[1]
  BY TextAllEncoded
<1>2. 1 \in 1 .. Len(s) + 1
  OBVIOUS
<1> QED
  BY <1>1, <1>2, Zenon DEF TextEncodes

LEMMA TextEncodedNone == Text!EncodedAll(<< >>) = << >>
<1> DEFINE s == << >>
<1>1. s \in Seq(Nat) /\ Len(s) + 1 = 1
  OBVIOUS
<1>2. PICK e : TextEncodes(e, s) /\ Text!EncodedAll(s) = e[1]
  BY <1>1, TextAllEncoded
<1> QED
  BY <1>1, <1>2, Zenon DEF TextEncodes

-----------------------------------------------------------------------------
(* The decoder, and what it counts as bad.                                   *)
TextSkip(t, i) == IF TextTake(t, i) > 0 THEN TextTake(t, i) ELSE 1

TextHead(t, i) ==
    IF TextTake(t, i) > 0 THEN <<Text!Payload(t, i, TextTake(t, i))>> ELSE << >>

TextBadHere(t, i) == IF TextTake(t, i) > 0 THEN 0 ELSE 1

TextDecodes(e, t) ==
    /\ e[Len(t) + 1] = << >>
    /\ \A i \in 1 .. Len(t) : e[i] = TextHead(t, i) \o e[i + TextSkip(t, i)]
    /\ \A i \in 1 .. Len(t) + 1 : e[i] \in Seq(Nat)

TextCounts(e, t) ==
    /\ e[Len(t) + 1] = 0
    /\ \A i \in 1 .. Len(t) : e[i] = TextBadHere(t, i) + e[i + TextSkip(t, i)]
    /\ \A i \in 1 .. Len(t) + 1 : e[i] \in Nat

LEMMA TextHeads ==
    ASSUME NEW t, NEW i, TextAt(t, i)
    PROVE  /\ TextHead(t, i) \in Seq(Nat) /\ TextBadHere(t, i) \in Nat
           /\ i + TextSkip(t, i) \in i + 1 .. Len(t) + 1
           /\ Text!utf8_next(t, i) = TextTake(t, i) /\ Text!Skipped(t, i) = TextSkip(t, i)
<1> DEFINE n == TextTake(t, i)
<1>0. i \in Nat /\ i <= Len(t) /\ Len(t) \in Nat
  BY TextByteIs
<1>1. n \in Nat /\ (n > 0 => i + n <= Len(t) + 1)
  BY TextTakeHas, Zenon
<1>2. Text!utf8_next(t, i) = n
  BY TextByValue, Zenon
<1>3. Text!Skipped(t, i) = TextSkip(t, i)
  BY <1>2, Zenon DEF Text!Skipped, TextSkip
<1>4. TextHead(t, i) \in Seq(Nat)
  <2>1. CASE n > 0
    <3>1. Text!Payload(t, i, n) \in Nat
      BY <2>1, TextCharacter, Zenon
    <3>2. TextHead(t, i) = <<Text!Payload(t, i, n)>>
      BY <2>1, Zenon DEF TextHead
    <3> QED
      BY <3>1, <3>2, TextTupleSeq, Zenon
  <2>2. CASE ~ (n > 0)
    <3>1. TextHead(t, i) = << >>
      BY <2>2, Zenon DEF TextHead
    <3> QED
      BY <3>1
  <2> QED
    BY <2>1, <2>2
<1>5. TextBadHere(t, i) \in Nat
  <2> HIDE DEF n
  <2> QED
    BY DEF TextBadHere
<1>6. i + TextSkip(t, i) \in i + 1 .. Len(t) + 1
  <2>1. TextSkip(t, i) = IF n > 0 THEN n ELSE 1
    BY Zenon DEF TextSkip
  <2> HIDE DEF n
  <2> QED
    BY <1>0, <1>1, <2>1
<1> QED
  BY <1>2, <1>3, <1>4, <1>5, <1>6, Zenon

LEMMA TextDecodedIs ==
    ASSUME NEW t \in Seq(TextByte)
    PROVE  \E e : TextDecodes(e, t) /\ Text!cn_utf8_decode(t) = e[1]
<1> DEFINE N == Len(t)
           S == Seq(Nat)
           z == << >>
           head == [i \in 1 .. N |-> TextHead(t, i)]
           following == [i \in 1 .. N |-> i + TextSkip(t, i)]
           step == [i \in 1 .. N |-> [v \in S |-> head[i] \o v]]
<1>0. N \in Nat
  OBVIOUS
<1>1. ASSUME NEW i \in 1 .. N
      PROVE  /\ head[i] \in S /\ head[i] = TextHead(t, i)
             /\ following[i] = i + TextSkip(t, i) /\ i + TextSkip(t, i) \in i + 1 .. N + 1
             /\ Text!utf8_next(t, i) = TextTake(t, i) /\ Text!Skipped(t, i) = TextSkip(t, i)
  <2>1. TextAt(t, i)
    BY DEF TextAt
  <2>2. TextHead(t, i) \in S
    BY <2>1, TextHeads, Zenon
  <2> QED
    BY <2>1, <2>2, TextHeads, Zenon
<1> HIDE DEF head, following
<1>2. ASSUME NEW i \in 1 .. N, NEW v \in S
      PROVE  step[i][v] = head[i] \o v /\ head[i] \o v \in S
  BY <1>1
<1>3. z \in S /\ \A i \in 1 .. N : \A v \in S : step[i][v] \in S
  <2>1. \A i \in 1 .. N : \A v \in S : step[i][v] \in S
    BY <1>2, Zenon
  <2> QED
    BY <2>1
<1>4. \A i \in 1 .. N : following[i] \in i + 1 .. N + 1
  BY <1>1
<1> HIDE DEF step
<1>5. PICK g : Leads(g, N, S, z, following, step)
  <2> HIDE DEF S, z, N
  <2> QED
    BY <1>0, <1>3, <1>4, RecursionDown
<1>6. /\ g \in [1 .. N + 1 -> S] /\ g[N + 1] = z
      /\ \A i \in 1 .. N : g[i] = TextHead(t, i) \o g[i + TextSkip(t, i)]
  <2>1. /\ g \in [1 .. N + 1 -> S] /\ g[N + 1] = z
        /\ \A i \in 1 .. N : g[i] = step[i][g[i + TextSkip(t, i)]]
    BY <1>1, <1>5, Zenon DEF Leads
  <2>2. \A i \in 1 .. N : i + TextSkip(t, i) \in 1 .. N + 1
    BY <1>0, <1>1
  <2>3. \A i \in 1 .. N : g[i + TextSkip(t, i)] \in S
    BY <2>1, <2>2
  <2>4. ASSUME NEW i \in 1 .. N PROVE g[i] = TextHead(t, i) \o g[i + TextSkip(t, i)]
    <3>1. step[i][g[i + TextSkip(t, i)]] = head[i] \o g[i + TextSkip(t, i)]
      BY <1>2, <2>3
    <3> QED
      BY <1>1, <2>1, <3>1, Zenon
  <2> QED
    BY <2>1, <2>4, Zenon
<1> DEFINE H(i) == IF Text!utf8_next(t, i) > 0
                    THEN <<Text!Payload(t, i, Text!utf8_next(t, i))>> ELSE << >>
           E(f, i) == IF i > Len(t) THEN << >> ELSE H(i) \o f[i + Text!Skipped(t, i)]
           Is(f) == f = [i \in 1 .. Len(t) + 1 |-> E(f, i)]
           c == CHOOSE f : Is(f)
<1>7. \A i \in 1 .. N : H(i) = TextHead(t, i)
  BY <1>1, Zenon DEF TextHead
<1>8. Text!cn_utf8_decode(t) = c[1]
  BY Zenon DEF Text!cn_utf8_decode
<1> HIDE DEF H
<1>9. \A i \in 1 .. N + 1 : i \in 1 .. N \/ (i = N + 1 /\ i > N)
  BY <1>0
<1>10. \A i \in 1 .. N : ~ (i > N) /\ i \in 1 .. N + 1
  BY <1>0
<1>11. N + 1 \in 1 .. N + 1 /\ N + 1 > N
  BY <1>0
<1>12. \A i \in 1 .. N + 1 : g[i] = E(g, i)
  BY <1>1, <1>6, <1>7, <1>9, <1>10, Zenon
<1>13. g = [i \in 1 .. N + 1 |-> g[i]]
  BY <1>6
<1>14. Is(g)
  <2> HIDE DEF E
  <2>1. [i \in 1 .. N + 1 |-> g[i]] = [i \in 1 .. N + 1 |-> E(g, i)]
    BY <1>12, Zenon
  <2> QED
    BY <1>13, <2>1, Zenon
<1>15. Is(c)
  BY <1>14, Zenon
<1> HIDE DEF c
<1>16. \A i \in 1 .. N + 1 : c[i] = E(c, i)
  BY <1>15, Zenon
<1>17. c[N + 1] = z /\ \A i \in 1 .. N : c[i] = TextHead(t, i) \o c[i + TextSkip(t, i)]
  BY <1>1, <1>7, <1>10, <1>11, <1>16, Zenon
<1> DEFINE P == {i \in 1 .. N + 1 : c[i] = g[i]}
<1>18. N + 1 \in P
  BY <1>6, <1>11, <1>17, Zenon
<1>19. ASSUME NEW i \in 1 .. N, \A k \in i + 1 .. N + 1 : k \in P PROVE i \in P
  <2>1. i + TextSkip(t, i) \in P
    BY <1>1, <1>19
  <2> QED
    BY <1>6, <1>10, <1>17, <2>1, Zenon
<1>20. \A i \in 1 .. N + 1 : i \in P
  <2> HIDE DEF P, N
  <2> QED
    BY <1>0, <1>18, <1>19, TextDownward
<1>21. \A i \in 1 .. N + 1 : c[i] \in S
  BY <1>6, <1>20
<1> QED
  BY <1>8, <1>17, <1>21, Zenon DEF TextDecodes

LEMMA TextBadIs ==
    ASSUME NEW t \in Seq(TextByte)
    PROVE  \E e : TextCounts(e, t) /\ Text!Bad(t) = e[1]
<1> DEFINE N == Len(t)
           S == Nat
           z == 0
           head == [i \in 1 .. N |-> TextBadHere(t, i)]
           following == [i \in 1 .. N |-> i + TextSkip(t, i)]
           step == [i \in 1 .. N |-> [v \in S |-> head[i] + v]]
<1>0. N \in Nat
  OBVIOUS
<1>1. ASSUME NEW i \in 1 .. N
      PROVE  /\ head[i] \in S /\ head[i] = TextBadHere(t, i)
             /\ following[i] = i + TextSkip(t, i) /\ i + TextSkip(t, i) \in i + 1 .. N + 1
             /\ Text!utf8_next(t, i) = TextTake(t, i) /\ Text!Skipped(t, i) = TextSkip(t, i)
  <2>1. TextAt(t, i)
    BY DEF TextAt
  <2>2. TextBadHere(t, i) \in S
    BY <2>1, TextHeads, Zenon
  <2> QED
    BY <2>1, <2>2, TextHeads, Zenon
<1> HIDE DEF head, following
<1>2. ASSUME NEW i \in 1 .. N, NEW v \in S
      PROVE  step[i][v] = head[i] + v /\ head[i] + v \in S
  BY <1>1
<1>3. z \in S /\ \A i \in 1 .. N : \A v \in S : step[i][v] \in S
  <2>1. \A i \in 1 .. N : \A v \in S : step[i][v] \in S
    BY <1>2, Zenon
  <2> QED
    BY <2>1
<1>4. \A i \in 1 .. N : following[i] \in i + 1 .. N + 1
  BY <1>1
<1> HIDE DEF step
<1>5. PICK g : Leads(g, N, S, z, following, step)
  <2> HIDE DEF S, z, N
  <2> QED
    BY <1>0, <1>3, <1>4, RecursionDown
<1>6. /\ g \in [1 .. N + 1 -> S] /\ g[N + 1] = z
      /\ \A i \in 1 .. N : g[i] = TextBadHere(t, i) + g[i + TextSkip(t, i)]
  <2>1. /\ g \in [1 .. N + 1 -> S] /\ g[N + 1] = z
        /\ \A i \in 1 .. N : g[i] = step[i][g[i + TextSkip(t, i)]]
    BY <1>1, <1>5, Zenon DEF Leads
  <2>2. \A i \in 1 .. N : i + TextSkip(t, i) \in 1 .. N + 1
    BY <1>0, <1>1
  <2>3. \A i \in 1 .. N : g[i + TextSkip(t, i)] \in S
    BY <2>1, <2>2
  <2>4. ASSUME NEW i \in 1 .. N PROVE g[i] = TextBadHere(t, i) + g[i + TextSkip(t, i)]
    <3>1. step[i][g[i + TextSkip(t, i)]] = head[i] + g[i + TextSkip(t, i)]
      BY <1>2, <2>3
    <3> QED
      BY <1>1, <2>1, <3>1, Zenon
  <2> QED
    BY <2>1, <2>4, Zenon
<1> DEFINE H(i) == IF Text!utf8_next(t, i) > 0 THEN 0 ELSE 1
           E(f, i) == IF i > Len(t) THEN 0 ELSE H(i) + f[i + Text!Skipped(t, i)]
           Is(f) == f = [i \in 1 .. Len(t) + 1 |-> E(f, i)]
           c == CHOOSE f : Is(f)
<1>7. \A i \in 1 .. N : H(i) = TextBadHere(t, i)
  BY <1>1, Zenon DEF TextBadHere
<1>8. Text!Bad(t) = c[1]
  BY Zenon DEF Text!Bad
<1> HIDE DEF H
<1>9. \A i \in 1 .. N + 1 : i \in 1 .. N \/ (i = N + 1 /\ i > N)
  BY <1>0
<1>10. \A i \in 1 .. N : ~ (i > N) /\ i \in 1 .. N + 1
  BY <1>0
<1>11. N + 1 \in 1 .. N + 1 /\ N + 1 > N
  BY <1>0
<1>12. \A i \in 1 .. N + 1 : g[i] = E(g, i)
  BY <1>1, <1>6, <1>7, <1>9, <1>10, Zenon
<1>13. g = [i \in 1 .. N + 1 |-> g[i]]
  BY <1>6
<1>14. Is(g)
  <2> HIDE DEF E
  <2>1. [i \in 1 .. N + 1 |-> g[i]] = [i \in 1 .. N + 1 |-> E(g, i)]
    BY <1>12, Zenon
  <2> QED
    BY <1>13, <2>1, Zenon
<1>15. Is(c)
  BY <1>14, Zenon
<1> HIDE DEF c
<1>16. \A i \in 1 .. N + 1 : c[i] = E(c, i)
  BY <1>15, Zenon
<1>17. c[N + 1] = z /\ \A i \in 1 .. N : c[i] = TextBadHere(t, i) + c[i + TextSkip(t, i)]
  BY <1>1, <1>7, <1>10, <1>11, <1>16, Zenon
<1> DEFINE P == {i \in 1 .. N + 1 : c[i] = g[i]}
<1>18. N + 1 \in P
  BY <1>6, <1>11, <1>17, Zenon
<1>19. ASSUME NEW i \in 1 .. N, \A k \in i + 1 .. N + 1 : k \in P PROVE i \in P
  <2>1. i + TextSkip(t, i) \in P
    BY <1>1, <1>19
  <2> QED
    BY <1>6, <1>10, <1>17, <2>1, Zenon
<1>20. \A i \in 1 .. N + 1 : i \in P
  <2> HIDE DEF P, N
  <2> QED
    BY <1>0, <1>18, <1>19, TextDownward
<1>21. \A i \in 1 .. N + 1 : c[i] \in S
  BY <1>6, <1>20
<1> QED
  BY <1>8, <1>17, <1>21, Zenon DEF TextCounts

LEMMA TextLosesNothing ==
    ASSUME NEW t \in Seq(TextByte)
    PROVE  /\ Text!WellFormed(t) <=> Text!Bad(t) = 0
           /\ Text!WellFormed(t) => Text!EncodedAll(Text!cn_utf8_decode(t)) = t
           /\ Len(Text!EncodedAll(Text!cn_utf8_decode(t))) + Text!Bad(t) = Len(t)
<1> DEFINE N == Len(t)
           plain == TextTakes(t)
<1>0. N \in Nat
  OBVIOUS
<1>1. PICK g : TextRefused(g, plain, N) /\ (Text!AcceptsBy(plain) <=> g[1] = 0)
  BY TextTakesSkip, TextAccepts, Zenon
<1>2. PICK d : TextDecodes(d, t) /\ Text!cn_utf8_decode(t) = d[1]
  BY TextDecodedIs
<1>3. PICK b : TextCounts(b, t) /\ Text!Bad(t) = b[1]
  BY TextBadIs
<1>4. \A i \in 1 .. N : plain[i] = TextTake(t, i)
  BY Zenon DEF TextTakes
<1> HIDE DEF plain
<1>5. /\ g[N + 1] = 0 /\ d[N + 1] = << >> /\ b[N + 1] = 0
      /\ \A i \in 1 .. N : g[i] = IF TextTake(t, i) = 0 THEN i ELSE g[i + TextTake(t, i)]
      /\ \A i \in 1 .. N : d[i] = TextHead(t, i) \o d[i + TextSkip(t, i)]
      /\ \A i \in 1 .. N : b[i] = TextBadHere(t, i) + b[i + TextSkip(t, i)]
      /\ \A i \in 1 .. N + 1 : d[i] \in Seq(Nat) /\ b[i] \in Nat
  BY <1>1, <1>2, <1>3, <1>4, Zenon DEF TextRefused, TextDecodes, TextCounts
<1> DEFINE E(i) == Text!EncodedAll(d[i])
           P == {i \in 1 .. N + 1 : /\ g[i] = 0 <=> b[i] = 0
                                    /\ g[i] = 0 => E(i) = SubSeq(t, i, N)
                                    /\ Len(E(i)) + b[i] = N + 1 - i}
<1>6. N + 1 \in P
  <2>1. E(N + 1) = << >>
    BY <1>5, TextEncodedNone, Zenon
  <2>2. SubSeq(t, N + 1, N) = << >>
    BY <1>0, SubSeqEmpty
  <2>3. N + 1 \in 1 .. N + 1 /\ Len(<< >>) + 0 = N + 1 - (N + 1)
    BY <1>0
  <2> QED
    BY <1>5, <2>1, <2>2, <2>3, Zenon
<1>7. ASSUME NEW i \in 1 .. N, \A k \in i + 1 .. N + 1 : k \in P PROVE i \in P
  <2> DEFINE n == TextTake(t, i)
             v == Text!Payload(t, i, n)
             m == i + TextSkip(t, i)
  <2>1. TextAt(t, i) /\ i \in 1 .. N + 1 /\ i # 0 /\ i \in Nat /\ i <= N
    BY <1>0 DEF TextAt
  <2>2. m \in i + 1 .. N + 1
    BY <2>1, TextHeads, Zenon
  <2>3. /\ g[m] = 0 <=> b[m] = 0
        /\ g[m] = 0 => E(m) = SubSeq(t, m, N)
        /\ Len(E(m)) + b[m] = N + 1 - m
        /\ d[m] \in Seq(Nat) /\ b[m] \in Nat /\ b[i] \in Nat /\ m \in Nat
    <3>1. m \in P
      BY <1>7, <2>2
    <3>2. m \in 1 .. N + 1 /\ m \in Nat
      BY <2>1, <2>2
    <3> QED
      BY <1>5, <2>1, <3>1, <3>2, Zenon
  <2>4. /\ g[i] = (IF n = 0 THEN i ELSE g[i + n]) /\ d[i] = TextHead(t, i) \o d[m]
        /\ b[i] = TextBadHere(t, i) + b[m]
    BY <1>5, Zenon
  <2>5. n \in Nat /\ m = i + (IF n > 0 THEN n ELSE 1)
    BY <2>1, TextTakeHas, Zenon DEF TextSkip
  <2>6. E(m) \in Seq(Nat)
    BY <2>3, TextEncodedSeqs, Zenon
  <2>7. CASE n = 0
    <3>1. m = i + 1 /\ TextHead(t, i) = << >> /\ TextBadHere(t, i) = 1 /\ g[i] = i
      <4>1. ~ (n > 0)
        BY <2>7
      <4>2. TextHead(t, i) = << >> /\ TextBadHere(t, i) = 1
        BY <4>1, Zenon DEF TextHead, TextBadHere
      <4> HIDE DEF n, m
      <4> QED
        BY <2>4, <2>5, <2>7, <4>2
    <3> HIDE DEF m, n
    <3>2. d[i] = d[m]
      BY <2>3, <2>4, <3>1
    <3>3. b[i] = 1 + b[m] /\ b[i] # 0 /\ g[i] # 0
      BY <2>1, <2>3, <2>4, <3>1
    <3>4. E(i) = E(m)
      BY <3>2, Zenon
    <3>5. Len(E(m)) \in Nat
      BY <2>6
    <3> HIDE DEF E
    <3>6. Len(E(i)) + b[i] = N + 1 - i
      <4>1. Len(E(m)) + b[m] = N + 1 - m /\ b[m] \in Nat
        BY <2>3, Zenon
      <4>2. Len(E(i)) = Len(E(m)) /\ b[i] = 1 + b[m] /\ m = i + 1
        BY <3>1, <3>3, <3>4, Zenon
      <4> HIDE DEF N
      <4> QED
        BY <1>0, <2>1, <3>5, <4>1, <4>2
    <3> QED
      BY <2>1, <3>3, <3>6, Zenon
  <2>8. CASE n > 0
    <3>1. m = i + n /\ TextHead(t, i) = <<v>> /\ TextBadHere(t, i) = 0 /\ g[i] = g[m]
      <4>1. TextHead(t, i) = <<v>> /\ TextBadHere(t, i) = 0
        BY <2>8, Zenon DEF TextHead, TextBadHere
      <4> HIDE DEF n, m, v
      <4> QED
        BY <2>4, <2>5, <2>8, <4>1
    <3>2. v \in Nat /\ Text!Encoded(v) = SubSeq(t, i, i + n - 1)
      BY <2>1, <2>8, TextCharacter, Zenon
    <3>3. E(i) = Text!Encoded(v) \o E(m)
      BY <2>3, <2>4, <3>1, <3>2, TextEncodedMore, Zenon
    <3> HIDE DEF m, n, v, E
    <3>4. b[i] = b[m]
      BY <2>3, <2>4, <3>1
    <3>5. /\ Text!Encoded(v) \in Seq(TextByte) /\ Len(Text!Encoded(v)) = n
          /\ \A k \in 1 .. n : Text!Encoded(v)[k] = t[i + k - 1]
      <4>1. i + n - 1 \in 0 .. N /\ i \in Nat \ {0} /\ i <= i + n - 1 /\ (i + n - 1) - i + 1 = n
        BY <1>0, <2>1, <2>2, <2>5, <3>1
      <4> DEFINE q == i + n - 1
      <4> HIDE DEF q
      <4>2. q \in 0 .. N /\ i \in Nat \ {0} /\ i <= q /\ q - i + 1 = n
        BY <4>1 DEF q
      <4>3. /\ SubSeq(t, i, q) \in Seq(TextByte)
            /\ Len(SubSeq(t, i, q)) = IF i <= q THEN q - i + 1 ELSE 0
            /\ \A k \in 1 .. q - i + 1 : SubSeq(t, i, q)[k] = t[i + k - 1]
        BY <4>2, PartIs, Zenon
      <4>4. Text!Encoded(v) = SubSeq(t, i, q)
        BY <3>2 DEF q
      <4> QED
        BY <4>2, <4>3, <4>4
    <3>6. Len(E(i)) + b[i] = N + 1 - i
      <4>1. Text!Encoded(v) \in Seq(Nat)
        BY <3>2, TextEncodedSeq
      <4>2. Joined(Text!Encoded(v) \o E(m), Text!Encoded(v), E(m), Nat)
        BY <2>6, <4>1, ConcatIs, Zenon
      <4>3. Len(E(i)) = n + Len(E(m)) /\ Len(E(m)) \in Nat
        BY <3>3, <3>5, <4>2, Zenon DEF Joined
      <4>4. Len(E(m)) + b[m] = N + 1 - m /\ b[m] \in Nat
        BY <2>3, Zenon
      <4>5. b[i] = b[m] /\ m = i + n
        BY <3>1, <3>4, Zenon
      <4> HIDE DEF N
      <4> QED
        BY <1>0, <2>1, <2>5, <4>3, <4>4, <4>5
    <3>7. ASSUME g[i] = 0 PROVE E(i) = SubSeq(t, i, N)
      <4> DEFINE x == Text!Encoded(v)
                 y == SubSeq(t, m, N)
                 z == SubSeq(t, i, N)
      <4>1. E(m) = y
        BY <2>3, <3>1, <3>7
      <4>2. m \in Nat \ {0} /\ N \in 0 .. N /\ i \in Nat \ {0}
        BY <1>0, <2>1, <2>2
      <4>3. /\ y \in Seq(TextByte)
            /\ Len(y) = IF m <= N THEN N - m + 1 ELSE 0
            /\ \A k \in 1 .. N - m + 1 : y[k] = t[m + k - 1]
        BY <4>2, PartIs, Zenon
      <4>4. /\ z \in Seq(TextByte)
            /\ Len(z) = IF i <= N THEN N - i + 1 ELSE 0
            /\ \A k \in 1 .. N - i + 1 : z[k] = t[i + k - 1]
        BY <4>2, PartIs, Zenon
      <4> HIDE DEF x, y, z
      <4>5. x \in Seq(TextByte) /\ Len(x) = n /\ \A k \in 1 .. n : x[k] = t[i + k - 1]
        BY <3>5 DEF x
      <4>6. Joined(x \o y, x, y, TextByte)
        BY <4>3, <4>5, ConcatIs, Zenon
      <4>7. /\ x \o y \in Seq(TextByte) /\ Len(x \o y) = Len(x) + Len(y)
            /\ \A k \in 1 .. Len(x) : (x \o y)[k] = x[k]
            /\ \A k \in 1 .. Len(y) : (x \o y)[Len(x) + k] = y[k]
        BY <4>6, Zenon DEF Joined
      <4>8. Len(y) = N - m + 1 /\ Len(z) = N - i + 1
        <5>1. Len(y) = (IF m <= N THEN N - m + 1 ELSE 0) /\ Len(z) = (IF i <= N THEN N - i + 1 ELSE 0)
          BY <4>3, <4>4, Zenon
        <5> HIDE DEF N
        <5> QED
          BY <1>0, <2>1, <2>2, <5>1
      <4>9. Len(x \o y) = Len(z)
        BY <1>0, <2>1, <2>2, <2>5, <3>1, <4>5, <4>7, <4>8
      <4>10. ASSUME NEW k \in 1 .. Len(z) PROVE (x \o y)[k] = z[k]
        <5>1. z[k] = t[i + k - 1] /\ k \in Nat
          BY <4>4, <4>8
        <5>2. CASE k <= n
          <6>1. k \in 1 .. n
            BY <2>5, <5>1, <5>2
          <6> QED
            BY <4>5, <4>7, <5>1, <6>1
        <5>3. CASE ~ (k <= n)
          <6>1. k - n \in 1 .. Len(y) /\ Len(x) + (k - n) = k /\ m + (k - n) - 1 = i + k - 1
            BY <1>0, <2>1, <2>2, <2>5, <3>1, <4>5, <4>8, <5>1, <5>3
          <6>2. (x \o y)[k] = y[k - n]
            BY <4>7, <6>1
          <6>3. y[k - n] = t[m + (k - n) - 1]
            BY <4>3, <4>8, <6>1
          <6> QED
            BY <5>1, <6>1, <6>2, <6>3, Zenon
        <5> QED
          BY <5>2, <5>3
      <4>11. x \o y = z
        BY <4>4, <4>7, <4>9, <4>10, SeqEqual
      <4> QED
        BY <3>3, <4>1, <4>11, Zenon DEF x, z
    <3> QED
      BY <2>1, <2>3, <3>1, <3>4, <3>6, <3>7, Zenon
  <2> HIDE DEF n
  <2> QED
    BY <2>5, <2>7, <2>8
<1>8. \A i \in 1 .. N + 1 : i \in P
  <2> HIDE DEF P, N
  <2> QED
    BY <1>0, <1>6, <1>7, TextDownward
<1>9. /\ g[1] = 0 <=> b[1] = 0
      /\ g[1] = 0 => E(1) = SubSeq(t, 1, N)
      /\ Len(E(1)) + b[1] = N + 1 - 1
  <2>1. 1 \in 1 .. N + 1
    BY <1>0
  <2> QED
    BY <1>8, <2>1, Zenon
<1>10. SubSeq(t, 1, N) = t /\ N + 1 - 1 = N
  BY <1>0
<1>11. Text!WellFormed(t) <=> g[1] = 0
  BY <1>1, TextSame, Zenon DEF plain
<1> QED
  BY <1>2, <1>3, <1>9, <1>10, <1>11, Zenon

-----------------------------------------------------------------------------
LEMMA TextConstants == TextBytes \subseteq TextByte
<1>1. \A k : k \in TextBytes => k \in 1 .. 255
  BY TextAssumption, Zenon DEF Text!BytesAssumption
<1> DEFINE top == 255
<1>2. top \in Nat /\ \A k \in 1 .. top : k \in Nat /\ k >= 1 /\ k <= top
  OBVIOUS
<1> QED
  BY <1>1, <1>2, Zenon DEF TextByte

LEMMA TextInitially == ASSUME Text!Init PROVE TextInv
BY DEF Text!Init, TextInv

LEMMA TextStep == ASSUME TextInv, Text!Next PROVE TextInv'
<1>1. PICK k \in TextBytes : text' = Append(text, k)
  BY Zenon DEF Text!Next
<1>2. k \in TextByte /\ text \in Seq(TextByte)
  BY TextConstants, Zenon DEF TextInv
<1>3. Append(text, k) \in Seq(TextByte)
  BY <1>2
<1> QED
  BY <1>1, <1>3, Zenon DEF TextInv

LEMMA TextStutters == ASSUME TextInv, UNCHANGED textVars PROVE TextInv'
BY Zenon DEF TextInv, textVars

LEMMA TextIsGood ==
    ASSUME TextInv
    PROVE  /\ Text!PositionRulesAgree /\ Text!DeviceNameIsSendable
           /\ Text!DeviceIdRulesAgree /\ Text!DecoderLosesNothing
<1>1. text \in Seq(TextByte)
  BY Zenon DEF TextInv
<1>2. Text!PositionRulesAgree
  BY <1>1, TextSame, Zenon DEF Text!PositionRulesAgree
<1>3. Text!DeviceNameIsSendable
  BY <1>1, TextNameSends, Zenon DEF Text!DeviceNameIsSendable
<1>4. Text!DeviceIdRulesAgree
  BY <1>1, TextIdAgrees, Zenon DEF Text!DeviceIdRulesAgree
<1>5. Text!DecoderLosesNothing
  BY <1>1, TextLosesNothing, Zenon DEF Text!DecoderLosesNothing
<1> QED
  BY <1>2, <1>3, <1>4, <1>5, Zenon

-----------------------------------------------------------------------------
(* Texts one after another: where each of them begins.                       *)
LineFlat(t, ps, u, S) ==
    /\ t \in Seq(S) /\ u \in [0 .. Len(ps) -> Nat] /\ u[0] = 0 /\ Len(t) = u[Len(ps)]
    /\ \A n \in 1 .. Len(ps) : u[n] = u[n - 1] + Len(ps[n])
    /\ \A n \in 1 .. Len(ps) : \A k \in 1 .. Len(ps[n]) : t[u[n - 1] + k] = ps[n][k]
    /\ \A m, n \in 0 .. Len(ps) : m <= n => u[m] <= u[n]

LEMMA LineFlatIs ==
    ASSUME NEW S, NEW ps \in Seq(Seq(S))
    PROVE  \E u : LineFlat(Line!Flat(ps), ps, u, S)
<1> DEFINE N == Len(ps)
           T == Seq(S)
           z == << >>
           step == [n \in 1 .. N |-> [v \in T |-> v \o ps[n]]]
<1>1. N \in Nat /\ z \in T /\ \A n \in 1 .. N : ps[n] \in T
  OBVIOUS
<1>2. \A n \in 1 .. N : \A v \in T : step[n][v] = v \o ps[n]
  BY Zenon
<1>3. \A v, w \in T : v \o w \in T /\ Joined(v \o w, v, w, S)
  BY ConcatIs, ConcatProperties
<1> HIDE DEF step, T, N, z
<1>4. PICK f : Chains(f, N, T, z, step)
  <2>1. \A n \in 1 .. N : \A v \in T : step[n][v] \in T
    BY <1>1, <1>2, <1>3, Zenon
  <2> QED
    BY <1>1, <2>1, Chain
<1>5. f \in [0 .. N -> T] /\ f[0] = z /\ \A n \in 1 .. N : f[n] = step[n][f[n - 1]]
  BY <1>4, Zenon DEF Chains
<1>6. \A n \in 0 .. N : n # 0 => n \in 1 .. N /\ f[n - 1] \in T
  <2> TAKE n \in 0 .. N
  <2>1. n # 0 => n \in 1 .. N /\ n - 1 \in 0 .. N
    BY <1>1
  <2> QED
    BY <1>5, <2>1
<1>7. f = [n \in 0 .. N |-> IF n = 0 THEN z ELSE f[n - 1] \o ps[n]]
  <2>1. \A n \in 0 .. N : f[n] = IF n = 0 THEN z ELSE f[n - 1] \o ps[n]
    BY <1>2, <1>5, <1>6, Zenon
  <2>2. f = [n \in 0 .. N |-> f[n]]
    BY <1>5
  <2> QED
    BY <2>1, <2>2, Zenon
<1> DEFINE g == CHOOSE g : g = [n \in 0 .. N |-> IF n = 0 THEN z ELSE g[n - 1] \o ps[n]]
<1>8. Line!Flat(ps) = g[N]
  BY Zenon DEF Line!Flat, N, z
<1>9. g = [n \in 0 .. N |-> IF n = 0 THEN z ELSE g[n - 1] \o ps[n]]
  BY <1>7, Zenon
<1> HIDE DEF g
<1>10. 0 \in 0 .. N /\ \A n \in 1 .. N : n \in 0 .. N /\ n # 0 /\ n - 1 \in 0 .. N
  BY <1>1
<1>11. g[0] = z /\ \A n \in 1 .. N : g[n] = g[n - 1] \o ps[n]
  BY <1>9, <1>10, Zenon
<1> DEFINE P == {n \in Nat : g[n] \in T}
<1>12. \A n \in 0 .. N : n \in P
  <2>1. 0 \in P
    BY <1>1, <1>11
  <2>2. ASSUME NEW n \in 1 .. N, n - 1 \in P PROVE n \in P
    <3>1. g[n - 1] \in T /\ n \in Nat
      BY <2>2
    <3>2. g[n] \in T
      BY <1>1, <1>3, <1>11, <3>1
    <3> QED
      BY <3>1, <3>2
  <2> HIDE DEF P
  <2> QED
    BY <1>1, <2>1, <2>2, Induction
<1>13. \A n \in 0 .. N : g[n] \in T
  BY <1>12
<1>14. \A n \in 1 .. N : Joined(g[n], g[n - 1], ps[n], S)
  BY <1>1, <1>3, <1>10, <1>11, <1>13, Zenon
<1> DEFINE u == [n \in 0 .. N |-> Len(g[n])]
<1>15. /\ u \in [0 .. N -> Nat] /\ u[0] = 0
       /\ \A n \in 0 .. N : u[n] = Len(g[n])
  BY <1>10, <1>11, <1>13 DEF T, z
<1> HIDE DEF u, P
<1>16. \A n \in 1 .. N : Len(ps[n]) \in Nat /\ u[n] = u[n - 1] + Len(ps[n])
  <2> TAKE n \in 1 .. N
  <2>1. Len(g[n]) = Len(g[n - 1]) + Len(ps[n]) /\ Len(ps[n]) \in Nat
    BY <1>14, Zenon DEF Joined
  <2> QED
    BY <1>10, <1>15, <2>1
<1> DEFINE Q == {n \in Nat :
                   /\ \A m \in 0 .. n : u[m] <= u[n]
                   /\ \A m \in 1 .. n : \A k \in 1 .. Len(ps[m]) : g[n][u[m - 1] + k] = ps[m][k]}
<1>17. \A n \in 0 .. N : n \in Q
  <2>1. 0 \in Q
    <3>1. u[0] \in Nat
      BY <1>10, <1>15
    <3> QED
      BY <3>1
  <2>2. ASSUME NEW n \in 1 .. N, n - 1 \in Q PROVE n \in Q
    <3>1. /\ \A m \in 0 .. n - 1 : u[m] <= u[n - 1]
          /\ \A m \in 1 .. n - 1 : \A k \in 1 .. Len(ps[m]) :
                g[n - 1][u[m - 1] + k] = ps[m][k]
      BY <2>2
    <3>2. \A m \in 0 .. n : m \in 0 .. N /\ u[m] \in Nat /\ (m # n => m \in 0 .. n - 1)
      BY <1>1, <1>15
    <3>3. \A m \in 0 .. n : u[m] <= u[n]
      <4> TAKE m \in 0 .. n
      <4>1. u[n - 1] \in Nat /\ u[n] = u[n - 1] + Len(ps[n]) /\ Len(ps[n]) \in Nat
        BY <1>10, <1>15, <1>16
      <4> QED
        BY <3>1, <3>2, <4>1
    <3>4. ASSUME NEW m \in 1 .. n, NEW k \in 1 .. Len(ps[m])
          PROVE  g[n][u[m - 1] + k] = ps[m][k]
      <4>1. /\ Len(g[n - 1]) = u[n - 1]
            /\ \A i \in 1 .. Len(g[n - 1]) : g[n][i] = g[n - 1][i]
            /\ \A i \in 1 .. Len(ps[n]) : g[n][Len(g[n - 1]) + i] = ps[n][i]
        BY <1>10, <1>14, <1>15, Zenon DEF Joined
      <4>2. CASE m = n
        BY <4>1, <4>2
      <4>3. CASE m # n
        <5>1. m \in 1 .. n - 1 /\ m \in 1 .. N /\ m - 1 \in 0 .. n /\ m \in 0 .. n - 1
          BY <1>1, <4>3
        <5>2. u[m] = u[m - 1] + Len(ps[m]) /\ Len(ps[m]) \in Nat /\ u[m - 1] \in Nat
          BY <1>16, <3>2, <5>1
        <5>3. u[m] <= u[n - 1] /\ u[n - 1] \in Nat
          BY <1>10, <1>15, <3>1, <5>1
        <5>4. u[m - 1] + k \in 1 .. Len(g[n - 1])
          <6>1. k \in Nat /\ 1 <= k /\ k <= Len(ps[m])
            BY <5>2
          <6> QED
            BY <4>1, <5>2, <5>3, <6>1
        <5> QED
          BY <3>1, <4>1, <5>1, <5>4
      <4> QED
        BY <4>2, <4>3
    <3>5. n \in Nat
      BY <1>1
    <3> QED
      BY <3>3, <3>4, <3>5
  <2> HIDE DEF Q
  <2> QED
    BY <1>1, <2>1, <2>2, Induction
<1>18. /\ \A m, n \in 0 .. N : m <= n => u[m] <= u[n]
       /\ \A n \in 1 .. N : \A k \in 1 .. Len(ps[n]) : g[N][u[n - 1] + k] = ps[n][k]
  <2>1. N \in Q /\ N \in 0 .. N
    BY <1>1, <1>17
  <2>2. \A m, n \in 0 .. N : m <= n => m \in 0 .. n /\ n \in Q
    BY <1>1, <1>17
  <2>3. \A m, n \in 0 .. N : m <= n => u[m] <= u[n]
    BY <2>2
  <2> QED
    BY <2>1, <2>3
<1>19. N \in 0 .. N
  BY <1>1
<1>20. g[N] \in Seq(S) /\ Len(g[N]) = u[N]
  BY <1>13, <1>15, <1>19 DEF T
<1> HIDE DEF Q
<1>21. LineFlat(g[N], ps, u, S)
  BY <1>15, <1>16, <1>18, <1>20, Zenon DEF LineFlat, N
<1> QED
  BY <1>8, <1>21, Zenon

(* Fields with a character between them: where each begins and ends.         *)
LineJoin(t, fs, c, b, e, S) ==
    /\ t \in Seq(S) /\ b \in [1 .. Len(fs) -> Nat] /\ e \in [1 .. Len(fs) -> Nat]
    /\ b[1] = 0 /\ e[Len(fs)] = Len(t)
    /\ \A n \in 1 .. Len(fs) :
          /\ e[n] = b[n] + Len(fs[n])
          /\ \A k \in 1 .. Len(fs[n]) : t[b[n] + k] = fs[n][k]
    /\ \A n \in 1 .. Len(fs) - 1 :
          b[n + 1] = e[n] + 1 /\ t[e[n] + 1] = c /\ e[n] < Len(t)

LEMMA LineJoinIs ==
    ASSUME NEW S, NEW c \in S, NEW fs \in Seq(Seq(S)), fs # << >>
    PROVE  \E b, e : LineJoin(Line!Joined(fs, c), fs, c, b, e, S)
<1> DEFINE L == Len(fs)
           t == Line!Joined(fs, c)
           ps == [n \in DOMAIN fs |-> IF n = 1 THEN fs[n] ELSE <<c>> \o fs[n]]
<1>1. L \in Nat /\ L >= 1 /\ DOMAIN fs = 1 .. L /\ \A n \in 1 .. L : fs[n] \in Seq(S)
  BY EmptySeq
<1>2. <<c>> \in Seq(S) /\ Len(<<c>>) = 1 /\ <<c>>[1] = c
  OBVIOUS
<1>3. ASSUME NEW n \in 1 .. L
      PROVE  Joined(<<c>> \o fs[n], <<c>>, fs[n], S)
  BY <1>1, <1>2, ConcatIs
<1>4. \A n \in 1 .. L : ps[n] \in Seq(S)
  BY <1>1, <1>2
<1>5. t = Line!Flat(ps)
  BY Zenon DEF Line!Joined
<1>6. /\ ps[1] = fs[1]
      /\ \A n \in 1 .. L : n # 1 => ps[n] = <<c>> \o fs[n]
  BY <1>1
<1>7. ps \in [1 .. L -> Seq(S)]
  BY <1>1, <1>4
<1> HIDE DEF ps, t, L
<1>8. ps \in Seq(Seq(S)) /\ Len(ps) = L
  BY <1>1, <1>7, FunctionIsSeq
<1>9. PICK u : LineFlat(t, ps, u, S)
  BY <1>5, <1>8, LineFlatIs, Zenon
<1>10. /\ t \in Seq(S) /\ u \in [0 .. L -> Nat] /\ u[0] = 0 /\ Len(t) = u[L]
       /\ \A n \in 1 .. L : u[n] = u[n - 1] + Len(ps[n])
       /\ \A n \in 1 .. L : \A k \in 1 .. Len(ps[n]) : t[u[n - 1] + k] = ps[n][k]
       /\ \A m, n \in 0 .. L : m <= n => u[m] <= u[n]
  BY <1>8, <1>9, Zenon DEF LineFlat
<1> DEFINE b == [n \in 1 .. L |-> IF n = 1 THEN 0 ELSE u[n - 1] + 1]
           e == [n \in 1 .. L |-> u[n]]
<1>11. /\ \A n \in 1 .. L : n \in 0 .. L /\ n - 1 \in 0 .. L /\ u[n] \in Nat /\ u[n - 1] \in Nat
       /\ \A n \in 1 .. L - 1 : n \in 1 .. L /\ n + 1 \in 1 .. L /\ n + 1 # 1 /\ n + 1 - 1 = n
       /\ 1 \in 1 .. L /\ L \in 1 .. L /\ 1 - 1 = 0 /\ L \in 0 .. L
  BY <1>1, <1>10
<1>12. /\ b \in [1 .. L -> Nat] /\ e \in [1 .. L -> Nat] /\ b[1] = 0
       /\ \A n \in 1 .. L : e[n] = u[n]
       /\ \A n \in 1 .. L : n # 1 => b[n] = u[n - 1] + 1
  BY <1>11
<1> HIDE DEF b, e
<1>13. ASSUME NEW n \in 1 .. L
       PROVE  /\ e[n] = b[n] + Len(fs[n])
              /\ \A k \in 1 .. Len(fs[n]) : t[b[n] + k] = fs[n][k]
  <2>1. CASE n = 1
    <3>1. u[1] = u[0] + Len(ps[1]) /\ \A k \in 1 .. Len(ps[1]) : t[u[0] + k] = ps[1][k]
      <4>1. /\ u[1] = u[1 - 1] + Len(ps[1])
            /\ \A k \in 1 .. Len(ps[1]) : t[u[1 - 1] + k] = ps[1][k]
        BY <1>10, <1>11, Zenon
      <4> QED
        BY <1>11, <4>1, Zenon
    <3> QED
      BY <1>6, <1>10, <1>12, <2>1, <3>1
  <2>2. CASE n # 1
    <3> DEFINE p == ps[n]
               f == fs[n]
               lp == Len(p)
               lf == Len(f)
    <3>1. /\ lp = 1 + lf /\ lf \in Nat /\ p[1] = c
          /\ \A k \in 1 .. lf : p[1 + k] = f[k]
      <4>1. Joined(p, <<c>>, f, S)
        BY <1>3, <1>6, <2>2, Zenon
      <4>2. /\ lp = Len(<<c>>) + lf /\ lf \in Nat
            /\ \A k \in 1 .. Len(<<c>>) : p[k] = <<c>>[k]
            /\ \A k \in 1 .. lf : p[Len(<<c>>) + k] = f[k]
        BY <4>1, Zenon DEF Joined
      <4> HIDE DEF p, f, lp, lf
      <4> QED
        BY <1>2, <4>2
    <3> DEFINE v == u[n - 1]
               x == b[n]
               y == e[n]
    <3>2. /\ y = v + lp /\ v \in Nat /\ x = v + 1
          /\ \A k \in 1 .. lp : t[v + k] = p[k]
      BY <1>10, <1>11, <1>12, <2>2
    <3> HIDE DEF p, f, lp, lf, v, x, y
    <3>3. y = x + lf
      BY <3>1, <3>2
    <3>4. ASSUME NEW k \in 1 .. lf PROVE t[x + k] = f[k]
      <4>1. 1 + k \in 1 .. lp /\ v + (1 + k) = x + k
        <5>1. lp = 1 + lf /\ lf \in Nat /\ v \in Nat /\ x = v + 1 /\ k \in 1 .. lf
          BY <3>1, <3>2, <3>4, Zenon
        <5> QED
          BY <5>1
      <4>2. t[v + (1 + k)] = p[1 + k] /\ p[1 + k] = f[k]
        BY <3>1, <3>2, <3>4, <4>1, Zenon
      <4> QED
        BY <4>1, <4>2, Zenon
    <3> QED
      BY <3>3, <3>4 DEF lf, f, x, y
  <2> QED
    BY <2>1, <2>2
<1>14. ASSUME NEW n \in 1 .. L - 1
       PROVE  b[n + 1] = e[n] + 1 /\ t[e[n] + 1] = c /\ e[n] < Len(t)
  <2> DEFINE m == n + 1
             p == ps[m]
             f == fs[m]
  <2>1. m \in 1 .. L /\ m # 1 /\ m - 1 = n /\ n \in 1 .. L
    BY <1>11
  <2> HIDE DEF m
  <2>2. Len(p) = 1 + Len(f) /\ Len(f) \in Nat /\ p[1] = c
    <3>1. Joined(p, <<c>>, f, S)
      BY <1>3, <1>6, <2>1, Zenon
    <3> QED
      BY <1>2, <3>1 DEF Joined
  <2>3. /\ u[m] = u[n] + Len(p) /\ u[n] \in Nat /\ b[m] = u[n] + 1 /\ e[n] = u[n]
        /\ \A k \in 1 .. Len(p) : t[u[n] + k] = p[k]
        /\ u[m] <= u[L] /\ u[m] \in Nat /\ u[L] \in Nat
    <3>1. m <= L /\ m \in 0 .. L
      BY <1>1, <2>1
    <3> QED
      BY <1>10, <1>11, <1>12, <2>1, <3>1
  <2> HIDE DEF p, f
  <2>4. 1 \in 1 .. Len(p)
    BY <2>2
  <2>5. b[m] = e[n] + 1 /\ t[e[n] + 1] = c /\ e[n] < Len(t)
    BY <1>10, <2>2, <2>3, <2>4
  <2> QED
    BY <2>5 DEF m
<1>15. e[L] = Len(t)
  BY <1>10, <1>11, <1>12
<1>16. LineJoin(t, fs, c, b, e, S)
  BY <1>10, <1>12, <1>13, <1>14, <1>15, Zenon DEF LineJoin, L
<1> QED
  BY <1>16, Zenon DEF t

(* Fields read so far, against the fields that were written.                 *)
LineCut(v, fs, S) ==
    /\ v \in Seq(Seq(S)) /\ Len(v) \in 1 .. Len(fs)
    /\ \A n \in 1 .. Len(v) - 1 : v[n] = fs[n]
    /\ Line!Begins(v[Len(v)], fs[Len(v)])

LineStands(v, n, fs, b, S) ==
    /\ v \in Seq(Seq(S)) /\ Len(v) \in 1 .. Len(fs)
    /\ \A i \in 1 .. Len(v) - 1 : v[i] = fs[i]
    /\ Len(v[Len(v)]) <= Len(fs[Len(v)]) /\ n = b[Len(v)] + Len(v[Len(v)])
    /\ \A i \in 1 .. Len(v[Len(v)]) : v[Len(v)][i] = fs[Len(v)][i]

LineRead(v, x, c) ==
    IF x = c THEN Append(v, << >>) ELSE [v EXCEPT ![Len(v)] = Append(@, x)]

LineReads(w, v, x, c, S) ==
    /\ w \in Seq(Seq(S)) /\ w # << >>
    /\ x = c =>
          /\ Len(w) = Len(v) + 1 /\ w[Len(v) + 1] = << >>
          /\ \A i \in 1 .. Len(v) : w[i] = v[i]
    /\ x # c =>
          /\ Len(w) = Len(v) /\ w[Len(v)] = Append(v[Len(v)], x)
          /\ \A i \in 1 .. Len(v) - 1 : w[i] = v[i]

LEMMA LineReadIs ==
    ASSUME NEW S, NEW v \in Seq(Seq(S)), v # << >>, NEW x \in S, NEW c
    PROVE  LineReads(LineRead(v, x, c), v, x, c, S)
<1> DEFINE T == Seq(S)
           z == << >>
           w == LineRead(v, x, c)
           m == Len(v)
<1>1. m \in Nat /\ m >= 1 /\ m \in 1 .. m /\ v \in Seq(T) /\ z \in T
  BY EmptySeq
<1>2. v[m] \in T
  BY <1>1
<1>3. Append(v[m], x) \in T
  BY <1>2
<1> HIDE DEF T, m
<1>4. CASE x = c
  <2>1. w = Append(v, z)
    BY <1>4, Zenon DEF LineRead, m
  <2>2. Longer(w, v, z, T)
    BY <1>1, <2>1, AppendHas, Zenon
  <2> HIDE DEF w, z
  <2>3. w \in Seq(T) /\ Len(w) = m + 1 /\ w[m + 1] = z /\ \A i \in 1 .. m : w[i] = v[i]
    BY <2>2, Zenon DEF Longer, m
  <2>4. w # << >>
    BY <1>1, <2>3
  <2> QED
    BY <1>4, <2>3, <2>4, Zenon DEF LineReads, w, z, T, m
<1>5. CASE x # c
  <2> DEFINE y == Append(v[m], x)
  <2>1. w = [v EXCEPT ![m] = y]
    BY <1>5, Zenon DEF LineRead, m
  <2>2. y \in T
    BY <1>3
  <2> HIDE DEF y, w
  <2>3. /\ w \in Seq(T) /\ Len(w) = m
        /\ \A i \in 1 .. m : w[i] = IF i = m THEN y ELSE v[i]
    <3>1. v \in Seq(T) /\ m \in 1 .. Len(v)
      BY <1>1 DEF m
    <3> QED
      BY <2>1, <2>2, <3>1, ExceptSeq DEF m
  <2>4. w # << >> /\ w[m] = y
    BY <1>1, <2>3
  <2>5. \A i \in 1 .. m - 1 : w[i] = v[i]
    BY <1>1, <2>3
  <2> QED
    BY <1>5, <2>3, <2>4, <2>5, Zenon DEF LineReads, w, T, m, y
<1> QED
  BY <1>4, <1>5, Zenon

(* One more character.                                                       *)
LEMMA LineStandsStill ==
    ASSUME NEW S, NEW c \in S, NEW fs \in Seq(Seq(S)), fs # << >>,
           \A n \in 1 .. Len(fs) : \A k \in 1 .. Len(fs[n]) : fs[n][k] # c,
           NEW t, NEW b, NEW e, LineJoin(t, fs, c, b, e, S),
           NEW n \in 1 .. Len(t), NEW v, LineStands(v, n - 1, fs, b, S)
    PROVE  LineStands(LineRead(v, t[n], c), n, fs, b, S)
<1> DEFINE L == Len(fs)
           x == t[n]
           w == LineRead(v, x, c)
           m == Len(v)
           f == fs[m]
           g == v[m]
           k == Len(g)
           l == Len(f)
           o == b[m]
           p == e[m]
<1>1. /\ v \in Seq(Seq(S)) /\ m \in 1 .. L /\ v # << >> /\ L \in Nat /\ m \in Nat
      /\ \A i \in 1 .. m - 1 : v[i] = fs[i]
      /\ k <= l /\ n - 1 = o + k
      /\ \A i \in 1 .. k : g[i] = f[i]
  <2>1. /\ v \in Seq(Seq(S)) /\ m \in 1 .. L
        /\ \A i \in 1 .. m - 1 : v[i] = fs[i]
        /\ k <= l /\ n - 1 = o + k
        /\ \A i \in 1 .. k : g[i] = f[i]
    BY Zenon DEF LineStands
  <2>2. L \in Nat /\ m \in Nat
    BY <2>1
  <2>3. v # << >>
    BY <2>1
  <2> QED
    BY <2>1, <2>2, <2>3, Zenon
<1>2. f \in Seq(S) /\ g \in Seq(S) /\ k \in Nat /\ l \in Nat
  BY <1>1
<1>3. /\ t \in Seq(S) /\ o \in Nat /\ p = o + l
      /\ \A i \in 1 .. l : t[o + i] = f[i] /\ f[i] # c
      /\ p = Len(t) \/ (m \in 1 .. L - 1 /\ b[m + 1] = p + 1 /\ t[p + 1] = c)
  <2>1. /\ t \in Seq(S) /\ b \in [1 .. L -> Nat] /\ e[L] = Len(t)
        /\ p = o + l
        /\ \A i \in 1 .. l : t[o + i] = f[i]
        /\ m \in 1 .. L - 1 => b[m + 1] = p + 1 /\ t[p + 1] = c
    BY <1>1, Zenon DEF LineJoin
  <2>2. m \in 1 .. L - 1 \/ m = L
    BY <1>1
  <2> QED
    BY <1>1, <2>1, <2>2
<1>4. n \in Nat /\ n <= Len(t) /\ Len(t) \in Nat /\ x \in S
  BY <1>3
<1>5. /\ w \in Seq(Seq(S)) /\ w # << >>
      /\ x = c => Len(w) = m + 1 /\ w[m + 1] = << >> /\ \A i \in 1 .. m : w[i] = v[i]
      /\ x # c => Len(w) = m /\ w[m] = Append(g, x) /\ \A i \in 1 .. m - 1 : w[i] = v[i]
  <2>1. LineReads(w, v, x, c, S)
    BY <1>1, <1>4, LineReadIs, Zenon
  <2> QED
    BY <2>1, Zenon DEF LineReads
<1>6. /\ Append(g, x) \in Seq(S) /\ Len(Append(g, x)) = k + 1 /\ Append(g, x)[k + 1] = x
      /\ \A i \in 1 .. k : Append(g, x)[i] = g[i]
  <2>1. Longer(Append(g, x), g, x, S)
    BY <1>2, <1>4, AppendHas, Zenon
  <2> QED
    BY <2>1, Zenon DEF Longer
<1> HIDE DEF L, x, w, m, f, g, k, l, o, p
<1>7. CASE k < l
  <2>1. k + 1 \in 1 .. l /\ n = o + (k + 1)
    BY <1>1, <1>2, <1>3, <1>4, <1>7
  <2>2. x = f[k + 1] /\ x # c
    BY <1>3, <2>1, Zenon DEF x
  <2> DEFINE y == w[m]
  <2>3. /\ Len(w) = m /\ Len(y) = k + 1 /\ y[k + 1] = x
        /\ \A i \in 1 .. k : y[i] = g[i]
        /\ \A i \in 1 .. m - 1 : w[i] = fs[i]
    BY <1>1, <1>5, <1>6, <2>2, Zenon
  <2> HIDE DEF y
  <2>4. \A i \in 1 .. Len(y) : y[i] = f[i]
    <3>1. \A i \in 1 .. k + 1 : i \in 1 .. k \/ i = k + 1
      BY <1>2
    <3> QED
      BY <1>1, <2>2, <2>3, <3>1, Zenon
  <2>5. Len(y) <= l /\ n = o + Len(y)
    BY <1>2, <2>1, <2>3
  <2> QED
    BY <1>1, <1>5, <2>3, <2>4, <2>5, Zenon DEF LineStands, L, f, l, o, y, w, x
<1>8. CASE k = l
  <2>1. n = p + 1
    BY <1>1, <1>2, <1>3, <1>4, <1>8
  <2>2. m \in 1 .. L - 1 /\ b[m + 1] = p + 1 /\ x = c
    <3>1. p # Len(t)
      BY <1>4, <2>1, <1>3
    <3> QED
      BY <1>3, <2>1, <3>1, Zenon DEF x
  <2>3. Len(w) = m + 1 /\ w[m + 1] = << >> /\ \A i \in 1 .. m : w[i] = v[i]
    BY <1>5, <2>2, Zenon
  <2>4. g = f
    BY <1>1, <1>2, <1>8, SeqEqual, Zenon DEF k, l
  <2>5. \A i \in 1 .. m : w[i] = fs[i]
    <3>1. \A i \in 1 .. m : i \in 1 .. m - 1 \/ i = m
      BY <1>1
    <3> QED
      BY <1>1, <2>3, <2>4, <3>1, Zenon DEF g, f
  <2> DEFINE q == m + 1
             y == w[q]
  <2>6. /\ q \in 1 .. L /\ q - 1 = m /\ Len(y) = 0 /\ b[q] = n
        /\ fs[q] \in Seq(S)
    BY <1>1, <2>1, <2>2, <2>3 DEF L
  <2>7. Len(w) = q
    BY <2>3
  <2> HIDE DEF q, y
  <2>8. Len(y) <= Len(fs[q]) /\ n = b[q] + Len(y)
    BY <1>4, <2>6
  <2>9. \A i \in 1 .. Len(y) : y[i] = fs[q][i]
    BY <2>6
  <2> QED
    <3>1. /\ w \in Seq(Seq(S)) /\ Len(w) \in 1 .. Len(fs)
          /\ \A i \in 1 .. Len(w) - 1 : w[i] = fs[i]
      BY <1>5, <2>5, <2>6, <2>7 DEF L
    <3>2. w[Len(w)] = y
      BY <2>7, Zenon DEF y
    <3>3. LineStands(w, n, fs, b, S)
      BY <2>7, <2>8, <2>9, <3>1, <3>2, Zenon DEF LineStands
    <3> QED
      BY <3>3, Zenon DEF w, x
<1> QED
  BY <1>1, <1>2, <1>7, <1>8

(* The fields of a text, as they are read one character after another.       *)
LEMMA LineSplitRuns ==
    ASSUME NEW S, NEW c, NEW s \in Seq(S)
    PROVE  \E g : /\ Line!Split(s, c) = g[Len(s)] /\ g[0] = << << >> >>
                  /\ \A n \in 1 .. Len(s) : g[n] = LineRead(g[n - 1], s[n], c)
<1> DEFINE N == Len(s)
           W == {v \in Seq(Seq(S)) : v # << >>}
           z == << << >> >>
           step == [n \in 1 .. N |-> [v \in W |-> LineRead(v, s[n], c)]]
<1>1. N \in Nat /\ z \in W /\ \A n \in 1 .. N : s[n] \in S
  OBVIOUS
<1>2. \A n \in 1 .. N : \A v \in W : step[n][v] = LineRead(v, s[n], c)
  BY Zenon
<1>3. ASSUME NEW n \in 1 .. N, NEW v \in W PROVE LineRead(v, s[n], c) \in W
  <2>1. LineReads(LineRead(v, s[n], c), v, s[n], c, S)
    BY <1>1, LineReadIs, Zenon
  <2> QED
    BY <2>1, Zenon DEF LineReads
<1> HIDE DEF step, W, N, z
<1>4. PICK f : Chains(f, N, W, z, step)
  <2>1. \A n \in 1 .. N : \A v \in W : step[n][v] \in W
    BY <1>2, <1>3, Zenon
  <2> QED
    BY <1>1, <2>1, Chain
<1>5. f \in [0 .. N -> W] /\ f[0] = z /\ \A n \in 1 .. N : f[n] = step[n][f[n - 1]]
  BY <1>4, Zenon DEF Chains
<1>6. \A n \in 0 .. N : n # 0 => n \in 1 .. N /\ f[n - 1] \in W
  <2> TAKE n \in 0 .. N
  <2>1. n # 0 => n \in 1 .. N /\ n - 1 \in 0 .. N
    BY <1>1
  <2> QED
    BY <1>5, <2>1
<1>7. f = [n \in 0 .. N |-> IF n = 0 THEN z ELSE LineRead(f[n - 1], s[n], c)]
  <2>1. \A n \in 0 .. N : f[n] = IF n = 0 THEN z ELSE LineRead(f[n - 1], s[n], c)
    BY <1>2, <1>5, <1>6, Zenon
  <2>2. f = [n \in 0 .. N |-> f[n]]
    BY <1>5
  <2> QED
    BY <2>1, <2>2, Zenon
<1> DEFINE Runs(h) == h = [n \in 0 .. N |-> IF n = 0 THEN z ELSE LineRead(h[n - 1], s[n], c)]
           g == CHOOSE h : Runs(h)
<1>8. Line!Split(s, c) = g[N]
  BY Zenon DEF Line!Split, LineRead, N, z
<1>9. g = [n \in 0 .. N |-> IF n = 0 THEN z ELSE LineRead(g[n - 1], s[n], c)]
  BY <1>7, Zenon
<1> HIDE DEF g, Runs
<1>10. 0 \in 0 .. N /\ \A n \in 1 .. N : n \in 0 .. N /\ n # 0
  BY <1>1
<1>11. g[0] = z /\ \A n \in 1 .. N : g[n] = LineRead(g[n - 1], s[n], c)
  BY <1>9, <1>10, Zenon
<1> QED
  BY <1>8, <1>11, Zenon DEF N, z

LEMMA LineSplit ==
    ASSUME NEW S, NEW c \in S, NEW fs \in Seq(Seq(S)), fs # << >>,
           \A n \in 1 .. Len(fs) : \A k \in 1 .. Len(fs[n]) : fs[n][k] # c,
           NEW s \in Seq(S), Line!Begins(s, Line!Joined(fs, c))
    PROVE  /\ LineCut(Line!Split(s, c), fs, S)
           /\ Len(s) = Len(Line!Joined(fs, c)) => Line!Split(s, c) = fs
<1> DEFINE t == Line!Joined(fs, c)
           N == Len(s)
           L == Len(fs)
<1>1. PICK b, e : LineJoin(t, fs, c, b, e, S)
  BY LineJoinIs, Zenon
<1>2. PICK g : /\ Line!Split(s, c) = g[N] /\ g[0] = << << >> >>
               /\ \A n \in 1 .. N : g[n] = LineRead(g[n - 1], s[n], c)
  BY LineSplitRuns, Zenon
<1>3. N \in Nat /\ N <= Len(t) /\ L \in Nat /\ L >= 1 /\ \A n \in 1 .. N : s[n] = t[n]
  BY EmptySeq DEF Line!Begins
<1>4. /\ t \in Seq(S) /\ b[1] = 0 /\ e[L] = Len(t)
      /\ \A n \in 1 .. L : e[n] = b[n] + Len(fs[n])
      /\ \A n \in 1 .. L - 1 : e[n] < Len(t)
  BY <1>1, Zenon DEF LineJoin
<1> HIDE DEF t, N, L
<1> DEFINE P == {n \in Nat : LineStands(g[n], n, fs, b, S)}
<1>5. 0 \in P
  <2> DEFINE v == << << >> >>
  <2>1. v \in Seq(Seq(S)) /\ Len(v) = 1 /\ v[1] = << >> /\ Len(v[1]) = 0 /\ fs[1] \in Seq(S)
    BY <1>3 DEF L
  <2>2. g[0] = v
    BY <1>2
  <2> HIDE DEF v
  <2>3. LineStands(v, 0, fs, b, S)
    BY <1>3, <1>4, <2>1 DEF LineStands, L
  <2> QED
    BY <2>2, <2>3
<1>6. ASSUME NEW n \in 1 .. N, n - 1 \in P PROVE n \in P
  <2>1. n \in 1 .. Len(t) /\ n \in Nat /\ LineStands(g[n - 1], n - 1, fs, b, S)
    BY <1>3, <1>4, <1>6
  <2>2. LineStands(LineRead(g[n - 1], t[n], c), n, fs, b, S)
    BY <1>1, <2>1, LineStandsStill, Zenon
  <2>3. LineStands(g[n], n, fs, b, S)
    BY <1>2, <1>3, <2>2, Zenon
  <2> QED
    BY <2>1, <2>3
<1> HIDE DEF P
<1>7. \A n \in 0 .. N : n \in P
  BY <1>3, <1>5, <1>6, Induction
<1>8. LineStands(g[N], N, fs, b, S)
  <2>1. N \in P
    BY <1>3, <1>7
  <2> QED
    BY <2>1 DEF P
<1> DEFINE v == g[N]
           m == Len(v)
           q == v[m]
           k == Len(q)
           f == fs[m]
<1>9. /\ v \in Seq(Seq(S)) /\ m \in 1 .. L
      /\ \A i \in 1 .. m - 1 : v[i] = fs[i]
      /\ k <= Len(f) /\ N = b[m] + k
      /\ \A i \in 1 .. k : q[i] = f[i]
  BY <1>8, Zenon DEF LineStands, L
<1>10. q \in Seq(S) /\ f \in Seq(S) /\ DOMAIN q = 1 .. k /\ k \in Nat /\ Len(f) \in Nat
  BY <1>9 DEF L
<1>11. LineCut(v, fs, S)
  BY <1>9, <1>10, Zenon DEF LineCut, Line!Begins, L
<1>12. ASSUME N = Len(t) PROVE v = fs
  <2>1. e[m] = b[m] + Len(f) /\ (m # L => m \in 1 .. L - 1 /\ e[m] < Len(t))
    <3>1. m \in 1 .. L
      BY <1>9, Zenon
    <3> HIDE DEF m
    <3>2. m # L => m \in 1 .. L - 1
      BY <1>3, <3>1
    <3> QED
      BY <1>4, <3>1, <3>2, Zenon DEF f
  <2>2. b[m] \in Nat
    BY <1>1, <1>9, Zenon DEF LineJoin, L
  <2> HIDE DEF v, m, q, k, f
  <2>3. m = L
    BY <1>4, <1>9, <1>10, <1>12, <2>1, <2>2
  <2>4. k = Len(f)
    BY <1>4, <1>9, <1>10, <1>12, <2>1, <2>2, <2>3
  <2>5. q = f
    BY <1>9, <1>10, <2>4, SeqEqual, Zenon DEF k
  <2>6. \A i \in 1 .. L : v[i] = fs[i]
    <3>1. \A i \in 1 .. L : i \in 1 .. m - 1 \/ i = m
      BY <1>3, <2>3
    <3> QED
      BY <1>9, <2>5, <3>1, Zenon DEF q, f
  <2>7. Len(v) = Len(fs)
    BY <2>3, Zenon DEF m, L
  <2> QED
    BY <1>9, <2>6, <2>7, SeqEqual, Zenon DEF L
<1> QED
  BY <1>2, <1>11, <1>12, Zenon DEF t, N

-----------------------------------------------------------------------------
(* Characters and digits.                                                    *)
LineMarks ==
    {"0", "1", "2", "3", "4", "5", "6", "7", "8", "9", " ", "\t", "\n", "\\", "-", ":", ",", "/",
     "a", "d", "o", "r", "v", "w", "other"}
LineChar == STRING \cup LineMarks
LineInk == LineChar \ {" "}

LEMMA LineDigits ==
    \A n \in 1 .. 10 : /\ Line!Digit[n] \in LineChar /\ Line!IsDigit(Line!Digit[n])
                       /\ Line!ValueOf(Line!Digit[n]) = n - 1 /\ Line!Digit[n] # ":"
                       /\ Line!Digit[n] # " "
<1>1. ASSUME NEW n \in 1 .. 10, NEW m \in 1 .. 10, Line!Digit[n] = Line!Digit[m] PROVE n = m
  BY <1>1 DEF Line!Digit
<1>2. ASSUME NEW n \in 1 .. 10
      PROVE  Line!IsDigit(Line!Digit[n]) /\ Line!ValueOf(Line!Digit[n]) = n - 1
  BY <1>1 DEF Line!IsDigit, Line!ValueOf
<1>3. ASSUME NEW n \in 1 .. 10
      PROVE  Line!Digit[n] \in LineMarks /\ Line!Digit[n] # ":" /\ Line!Digit[n] # " "
  <2>1. n = 1 \/ n = 2 \/ n = 3 \/ n = 4 \/ n = 5 \/ n = 6 \/ n = 7 \/ n = 8 \/ n = 9 \/ n = 10
    OBVIOUS
  <2> DEFINE Mark(x) == x \in LineMarks /\ x # ":" /\ x # " "
  <2>2. /\ Mark("0") /\ Mark("1") /\ Mark("2") /\ Mark("3") /\ Mark("4")
        /\ Mark("5") /\ Mark("6") /\ Mark("7") /\ Mark("8") /\ Mark("9")
    BY SMT DEF LineMarks
  <2>3. /\ Line!Digit[1] = "0" /\ Line!Digit[2] = "1" /\ Line!Digit[3] = "2"
        /\ Line!Digit[4] = "3" /\ Line!Digit[5] = "4" /\ Line!Digit[6] = "5"
        /\ Line!Digit[7] = "6" /\ Line!Digit[8] = "7" /\ Line!Digit[9] = "8"
        /\ Line!Digit[10] = "9"
    BY DEF Line!Digit
  <2> HIDE DEF Mark
  <2>4. Mark(Line!Digit[n])
    BY <2>1, <2>2, <2>3, Zenon
  <2> QED
    BY <2>4, Zenon DEF Mark
<1> QED
  BY <1>2, <1>3, Zenon DEF LineChar

LineCoded(p, c) ==
    /\ p[1] = "\\" /\ Len(p) = 4 /\ p \in Seq(LineInk)
    /\ Line!IsOctal(<<p[2], p[3], p[4]>>)
    /\ Line!OfCode(Line!Octal(<<p[2], p[3], p[4]>>)) = c

LEMMA LineOctals ==
    ASSUME NEW a \in 1 .. 8, NEW b \in 1 .. 8, NEW d \in 1 .. 8,
           (a - 1) * 64 + (b - 1) * 8 + (d - 1) # 0
    PROVE  /\ Line!IsOctal(<<Line!Digit[a], Line!Digit[b], Line!Digit[d]>>)
           /\ Line!Octal(<<Line!Digit[a], Line!Digit[b], Line!Digit[d]>>)
                = (a - 1) * 64 + (b - 1) * 8 + (d - 1)
<1> DEFINE x == Line!Digit[a]
           y == Line!Digit[b]
           z == Line!Digit[d]
           t == <<x, y, z>>
<1>0. a \in 1 .. 10 /\ b \in 1 .. 10 /\ d \in 1 .. 10
  OBVIOUS
<1>1. /\ Line!ValueOf(x) = a - 1 /\ Line!ValueOf(y) = b - 1 /\ Line!ValueOf(z) = d - 1
      /\ Line!IsDigit(x) /\ Line!IsDigit(y) /\ Line!IsDigit(z)
  BY <1>0, LineDigits, Zenon
<1>2. Len(t) = 3 /\ t[1] = x /\ t[2] = y /\ t[3] = z
  OBVIOUS
<1> HIDE DEF x, y, z, t
<1>3. Line!Octal(t) = (a - 1) * 64 + (b - 1) * 8 + (d - 1)
  BY <1>1, <1>2 DEF Line!Octal
<1>4. \A n \in 1 .. 3 : Line!IsDigit(t[n]) /\ Line!ValueOf(t[n]) <= 7
  BY <1>1, <1>2
<1>5. Line!IsOctal(t)
  BY <1>2, <1>3, <1>4 DEF Line!IsOctal
<1> QED
  BY <1>3, <1>5 DEF x, y, z, t

LEMMA LineCodedBy ==
    ASSUME NEW c, NEW i \in 1 .. 8, NEW j \in 1 .. 8, NEW k \in 1 .. 8, NEW p,
           p = <<"\\", Line!Digit[i], Line!Digit[j], Line!Digit[k]>>,
           Line!OfCode((i - 1) * 64 + (j - 1) * 8 + (k - 1)) = c,
           (i - 1) * 64 + (j - 1) * 8 + (k - 1) # 0
    PROVE  LineCoded(p, c)
<1> DEFINE x == Line!Digit[i]
           y == Line!Digit[j]
           z == Line!Digit[k]
<1>0. i \in 1 .. 10 /\ j \in 1 .. 10 /\ k \in 1 .. 10
  OBVIOUS
<1>1. x \in LineInk /\ y \in LineInk /\ z \in LineInk
  BY <1>0, LineDigits, Zenon DEF LineInk
<1>2. Line!IsOctal(<<x, y, z>>) /\ Line!Octal(<<x, y, z>>) = (i - 1) * 64 + (j - 1) * 8 + (k - 1)
  BY LineOctals, Zenon
<1> HIDE DEF x, y, z
<1>3. /\ p \in Seq(LineInk) /\ Len(p) = 4
      /\ p[1] = "\\" /\ p[2] = x /\ p[3] = y /\ p[4] = z
  <2>1. p = <<"\\", x, y, z>>
    BY Zenon DEF x, y, z
  <2>2. "\\" \in LineInk
    <3>1. "\\" \in LineChar
      BY Zenon DEF LineChar, LineMarks
    <3>2. "\\" # " "
      OBVIOUS
    <3> QED
      BY <3>1, <3>2, Zenon DEF LineInk
  <2> DEFINE w == "\\"
  <2>3. w \in LineInk /\ p = <<w, x, y, z>>
    BY <2>1, <2>2
  <2> HIDE DEF w
  <2>4. p \in Seq(LineInk) /\ Len(p) = 4 /\ p[1] = w /\ p[2] = x /\ p[3] = y /\ p[4] = z
    BY <1>1, <2>3
  <2> QED
    BY <2>4 DEF w
<1> QED
  BY <1>2, <1>3, Zenon DEF LineCoded

LEMMA LineEscapes ==
    ASSUME NEW c \in LineChar
    PROVE  /\ Line!Escaped(c) \in Seq(LineInk)
           /\ \/ Line!Escaped(c) = <<c>> /\ c # "\\"
              \/ LineCoded(Line!Escaped(c), c)
<1>1. CASE c = " "
  <2>1. Line!Escaped(c) = <<"\\", Line!Digit[1], Line!Digit[5], Line!Digit[1]>>
    BY <1>1 DEF Line!Escaped, Line!Digit
  <2>2. Line!OfCode((1 - 1) * 64 + (5 - 1) * 8 + (1 - 1)) = c
    <3>1. (1 - 1) * 64 + (5 - 1) * 8 + (1 - 1) = 32
      OBVIOUS
    <3>2. Line!OfCode(32) = " "
      BY DEF Line!OfCode
    <3> QED
      BY <1>1, <3>1, <3>2
  <2>3. 1 \in 1 .. 8 /\ 5 \in 1 .. 8 /\ 1 \in 1 .. 8 /\ (1 - 1) * 64 + (5 - 1) * 8 + (1 - 1) # 0
    OBVIOUS
  <2>4. LineCoded(Line!Escaped(c), c)
    BY <2>1, <2>2, <2>3, LineCodedBy, Zenon
  <2> QED
    BY <2>4, Zenon DEF LineCoded
<1>2. CASE c = "\t"
  <2>1. Line!Escaped(c) = <<"\\", Line!Digit[1], Line!Digit[2], Line!Digit[2]>>
    BY <1>2 DEF Line!Escaped, Line!Digit
  <2>2. Line!OfCode((1 - 1) * 64 + (2 - 1) * 8 + (2 - 1)) = c
    BY <1>2 DEF Line!OfCode
  <2>3. 1 \in 1 .. 8 /\ 2 \in 1 .. 8 /\ 2 \in 1 .. 8 /\ (1 - 1) * 64 + (2 - 1) * 8 + (2 - 1) # 0
    OBVIOUS
  <2>4. LineCoded(Line!Escaped(c), c)
    BY <2>1, <2>2, <2>3, LineCodedBy, Zenon
  <2> QED
    BY <2>4, Zenon DEF LineCoded
<1>3. CASE c = "\n"
  <2>1. Line!Escaped(c) = <<"\\", Line!Digit[1], Line!Digit[2], Line!Digit[3]>>
    BY <1>3 DEF Line!Escaped, Line!Digit
  <2>2. Line!OfCode((1 - 1) * 64 + (2 - 1) * 8 + (3 - 1)) = c
    BY <1>3 DEF Line!OfCode
  <2>3. 1 \in 1 .. 8 /\ 2 \in 1 .. 8 /\ 3 \in 1 .. 8 /\ (1 - 1) * 64 + (2 - 1) * 8 + (3 - 1) # 0
    OBVIOUS
  <2>4. LineCoded(Line!Escaped(c), c)
    BY <2>1, <2>2, <2>3, LineCodedBy, Zenon
  <2> QED
    BY <2>4, Zenon DEF LineCoded
<1>4. CASE c = "\\"
  <2>1. Line!Escaped(c) = <<"\\", Line!Digit[2], Line!Digit[4], Line!Digit[5]>>
    BY <1>4 DEF Line!Escaped, Line!Digit
  <2>2. Line!OfCode((2 - 1) * 64 + (4 - 1) * 8 + (5 - 1)) = c
    BY <1>4 DEF Line!OfCode
  <2>3. 2 \in 1 .. 8 /\ 4 \in 1 .. 8 /\ 5 \in 1 .. 8 /\ (2 - 1) * 64 + (4 - 1) * 8 + (5 - 1) # 0
    OBVIOUS
  <2>4. LineCoded(Line!Escaped(c), c)
    BY <2>1, <2>2, <2>3, LineCodedBy, Zenon
  <2> QED
    BY <2>4, Zenon DEF LineCoded
<1>5. CASE c # " " /\ c # "\t" /\ c # "\n" /\ c # "\\"
  <2>1. Line!Escaped(c) = <<c>>
    BY <1>5 DEF Line!Escaped
  <2>2. <<c>> \in Seq(LineInk)
    <3>1. c \in LineInk
      BY <1>5, Zenon DEF LineInk
    <3> QED
      BY <3>1
  <2> QED
    BY <1>5, <2>1, <2>2, Zenon
<1> QED
  BY <1>1, <1>2, <1>3, <1>4, <1>5, Zenon

-----------------------------------------------------------------------------
(* What was escaped is read back.                                            *)
LineFound ==
    {Line!Fails} \cup {Line!Is(v) : v \in Seq(LineChar)}

LinePut(x, r) == IF r.ok THEN Line!Is(<<x>> \o r.value) ELSE Line!Fails

LineThree(t, n) == SubSeq(t, n + 1, IF n + 3 <= Len(t) THEN n + 3 ELSE n)

LEMMA LinePuts ==
    ASSUME NEW x \in LineChar, NEW r \in LineFound PROVE LinePut(x, r) \in LineFound
<1>1. CASE r = Line!Fails
  <2>1. ~r.ok
    BY <1>1 DEF Line!Fails
  <2> QED
    BY <2>1, Zenon DEF LinePut, LineFound
<1>2. ASSUME NEW v \in Seq(LineChar), r = Line!Is(v) PROVE LinePut(x, r) \in LineFound
  <2>1. r.value = v
    BY <1>2 DEF Line!Is
  <2>2. <<x>> \o v \in Seq(LineChar)
    OBVIOUS
  <2> QED
    BY <2>1, <2>2, Zenon DEF LinePut, LineFound
<1> QED
  BY <1>1, <1>2, Zenon DEF LineFound

LEMMA LineCodesAre == \A n : Line!OfCode(n) \in LineChar
<1> TAKE n
<1>1. Line!OfCode(n) \in {" ", "\t", "\n", "\\", "other"}
  BY SMT DEF Line!OfCode
<1>2. /\ " " \in LineChar /\ "\t" \in LineChar /\ "\n" \in LineChar /\ "\\" \in LineChar
      /\ "other" \in LineChar
  BY Zenon DEF LineChar, LineMarks
<1> QED
  BY <1>1, <1>2, Zenon

LineGoes(g, t, N) ==
    /\ g[N + 1] = Line!Is(<< >>)
    /\ \A n \in 1 .. N :
          /\ t[n] # "\\" => g[n] = LinePut(t[n], g[n + 1])
          /\ t[n] = "\\" /\ Line!IsOctal(LineThree(t, n)) =>
                g[n] = LinePut(Line!OfCode(Line!Octal(LineThree(t, n))), g[n + 4])

LEMMA LineUnescapeRuns ==
    ASSUME NEW t \in Seq(LineChar)
    PROVE  \E g : Line!unescape(t) = g[1] /\ LineGoes(g, t, Len(t))
<1> DEFINE N == Len(t)
           W == LineFound
           z == Line!Is(<< >>)
           Code(n) == Line!OfCode(Line!Octal(LineThree(t, n)))
           Octal(n) == Line!IsOctal(LineThree(t, n))
           Plain(n) == t[n] # "\\"
           following == [n \in 1 .. N |-> IF ~Plain(n) /\ Octal(n) THEN n + 4 ELSE n + 1]
           Step(n, v) == IF Plain(n) THEN LinePut(t[n], v)
                         ELSE IF Octal(n) THEN LinePut(Code(n), v)
                         ELSE Line!Fails
           step == [n \in 1 .. N |-> [v \in W |-> Step(n, v)]]
<1>1. N \in Nat /\ \A n \in 1 .. N : t[n] \in LineChar
  OBVIOUS
<1>2. z \in W
  <2>1. << >> \in Seq(LineChar)
    OBVIOUS
  <2> QED
    BY <2>1, Zenon DEF LineFound
<1>3. ASSUME NEW n \in 1 .. N, Octal(n) PROVE n + 4 \in 1 .. N + 1
  <2>1. CASE n + 3 <= Len(t)
    BY <1>1, <2>1
  <2>2. CASE ~(n + 3 <= Len(t))
    <3>1. LineThree(t, n) = SubSeq(t, n + 1, n)
      BY <2>2, Zenon DEF LineThree
    <3>2. Len(SubSeq(t, n + 1, n)) = 0
      <4>1. n + 1 \in Nat \ {0} /\ n \in 0 .. Len(t) /\ ~(n + 1 <= n)
        BY <1>1
      <4> QED
        BY <4>1, PartIs
    <3>3. Len(LineThree(t, n)) = 3
      BY <1>3, Zenon DEF Line!IsOctal
    <3> QED
      BY <3>1, <3>2, <3>3
  <2> QED
    BY <2>1, <2>2, Zenon
<1>4. /\ \A n \in 1 .. N : \A v \in W : step[n][v] = Step(n, v)
      /\ \A n \in 1 .. N : following[n] = IF ~Plain(n) /\ Octal(n) THEN n + 4 ELSE n + 1
  BY Zenon
<1>5. \A n : Code(n) \in LineChar
  BY LineCodesAre, Zenon
<1>6. \A n \in 1 .. N : \A v \in W : Step(n, v) \in W
  <2>1. Line!Fails \in W
    BY Zenon DEF LineFound
  <2> QED
    BY <1>1, <1>5, <2>1, LinePuts, Zenon
<1>7. \A n \in 1 .. N : n + 1 \in 1 .. N + 1 /\ n + 1 \in n + 1 .. N + 1
  BY <1>1
<1>8. ASSUME NEW n \in 1 .. N PROVE following[n] \in n + 1 .. N + 1
  <2>1. CASE ~Plain(n) /\ Octal(n)
    <3>1. following[n] = n + 4 /\ n + 4 \in 1 .. N + 1
      BY <1>3, <1>4, <2>1, Zenon
    <3> QED
      BY <1>1, <3>1
  <2>2. CASE ~(~Plain(n) /\ Octal(n))
    BY <1>4, <1>7, <2>2, Zenon
  <2> QED
    BY <2>1, <2>2, Zenon
<1> HIDE DEF following, step, W, N, z, Octal, Plain, Code
<1>9. PICK f : Leads(f, N, W, z, following, step)
  <2>1. \A n \in 1 .. N : \A v \in W : step[n][v] \in W
    BY <1>4, <1>6, Zenon
  <2> HIDE DEF Step
  <2> QED
    BY <1>1, <1>2, <1>8, <2>1, RecursionDown, Zenon
<1>10. /\ f \in [1 .. N + 1 -> W] /\ f[N + 1] = z
       /\ \A n \in 1 .. N : f[n] = step[n][f[following[n]]]
  BY <1>9, Zenon DEF Leads
<1>11. \A n \in 1 .. N : following[n] \in 1 .. N + 1 /\ f[following[n]] \in W
  <2> TAKE n \in 1 .. N
  <2>1. following[n] \in 1 .. N + 1
    BY <1>1, <1>8
  <2> QED
    BY <1>10, <2>1, Zenon
<1> DEFINE Body(h, n) ==
               IF n > N THEN z
               ELSE IF Plain(n) THEN LinePut(t[n], h[n + 1])
               ELSE IF Octal(n) THEN LinePut(Code(n), h[n + 4])
               ELSE Line!Fails
<1>12. \A n \in 1 .. N + 1 : (n \in 1 .. N /\ ~(n > N)) \/ (n = N + 1 /\ n > N)
  BY <1>1
<1>13. f = [n \in 1 .. N + 1 |-> Body(f, n)]
  <2>1. \A n \in 1 .. N + 1 : f[n] = Body(f, n)
    <3> TAKE n \in 1 .. N + 1
    <3>1. CASE n \in 1 .. N /\ ~(n > N)
      <4>1. f[n] = Step(n, f[following[n]])
        BY <1>4, <1>10, <1>11, <3>1, Zenon
      <4> QED
        BY <1>4, <3>1, <4>1, Zenon
    <3>2. CASE n = N + 1 /\ n > N
      BY <1>10, <3>2, Zenon
    <3> QED
      BY <1>12, <3>1, <3>2, Zenon
  <2>2. f = [n \in 1 .. N + 1 |-> f[n]]
    BY <1>10, Zenon
  <2> HIDE DEF Body
  <2> QED
    BY <2>1, <2>2, Zenon
<1> DEFINE g == CHOOSE h : h = [n \in 1 .. N + 1 |-> Body(h, n)]
<1>14. Line!unescape(t) = g[1]
  BY Zenon DEF Line!unescape, LinePut, LineThree, Plain, Octal, Code, N, z
<1>15. g = [n \in 1 .. N + 1 |-> Body(g, n)]
  BY <1>13, Zenon
<1> HIDE DEF g
<1>16. N + 1 \in 1 .. N + 1 /\ \A n \in 1 .. N : n \in 1 .. N + 1
  BY <1>1
<1>17. \A n \in 1 .. N + 1 : g[n] = Body(g, n)
  <2> HIDE DEF Body
  <2> QED
    BY <1>15, Zenon
<1>18. ~(N > N) /\ N + 1 > N /\ \A n \in 1 .. N : ~(n > N)
  BY <1>1
<1>19. g[N + 1] = z
  BY <1>16, <1>17, <1>18, Zenon
<1>20. ASSUME NEW n \in 1 .. N
       PROVE  /\ Plain(n) => g[n] = LinePut(t[n], g[n + 1])
              /\ ~Plain(n) /\ Octal(n) => g[n] = LinePut(Code(n), g[n + 4])
  BY <1>16, <1>17, <1>18, Zenon
<1>21. LineGoes(g, t, N)
  BY <1>19, <1>20, Zenon DEF LineGoes, Plain, Octal, Code, z
<1> QED
  BY <1>14, <1>21, Zenon DEF N

(* The end of a sequence, one element longer.                                *)
LEMMA LineTail ==
    ASSUME NEW S, NEW s \in Seq(S), NEW i \in 1 .. Len(s)
    PROVE  /\ <<s[i]>> \o SubSeq(s, i + 1, Len(s)) = SubSeq(s, i, Len(s))
           /\ SubSeq(s, i + 1, Len(s)) \in Seq(S)
<1> DEFINE N == Len(s)
           x == <<s[i]>>
           y == SubSeq(s, i + 1, N)
           z == SubSeq(s, i, N)
           w == x \o y
<1>1. N \in Nat /\ i \in Nat \ {0} /\ i + 1 \in Nat \ {0} /\ N \in 0 .. Len(s) /\ i <= N
  OBVIOUS
<1>2. /\ y \in Seq(S) /\ Len(y) = IF i + 1 <= N THEN N - (i + 1) + 1 ELSE 0
      /\ \A k \in 1 .. N - (i + 1) + 1 : y[k] = s[i + 1 + k - 1]
  BY <1>1, PartIs, Zenon
<1>3. /\ z \in Seq(S) /\ Len(z) = IF i <= N THEN N - i + 1 ELSE 0
      /\ \A k \in 1 .. N - i + 1 : z[k] = s[i + k - 1]
  BY <1>1, PartIs, Zenon
<1>4. x \in Seq(S) /\ Len(x) = 1 /\ x[1] = s[i]
  OBVIOUS
<1>5. Joined(w, x, y, S)
  BY <1>2, <1>4, ConcatIs, Zenon
<1> HIDE DEF x, y, z, w, N
<1>6. /\ w \in Seq(S) /\ Len(w) = 1 + Len(y) /\ w[1] = s[i]
      /\ \A k \in 1 .. Len(y) : w[1 + k] = y[k]
  BY <1>4, <1>5 DEF Joined
<1>7. Len(y) = N - i /\ Len(z) = N - i + 1
  BY <1>1, <1>2, <1>3
<1>8. ASSUME NEW k \in 1 .. N - i + 1 PROVE w[k] = z[k]
  <2>1. CASE k = 1
    <3>1. z[1] = s[i + 1 - 1] /\ i + 1 - 1 = i
      BY <1>1, <1>3, <2>1
    <3> QED
      BY <1>6, <2>1, <3>1
  <2>2. CASE k # 1
    <3> DEFINE j == k - 1
    <3>1. j \in 1 .. N - i /\ k = 1 + j /\ j \in 1 .. N - (i + 1) + 1 /\ i + 1 + j - 1 = i + k - 1
      BY <1>1, <2>2
    <3> HIDE DEF j
    <3>2. w[1 + j] = y[j] /\ y[j] = s[i + 1 + j - 1]
      BY <1>2, <1>6, <1>7, <3>1, Zenon
    <3> QED
      BY <1>3, <3>1, <3>2
  <2> QED
    BY <2>1, <2>2
<1>9. w = z
  <2>1. Len(w) = N - i + 1 /\ Len(w) = Len(z)
    BY <1>1, <1>6, <1>7
  <2>2. \A k \in 1 .. Len(w) : w[k] = z[k]
    BY <1>8, <2>1, Zenon
  <2> QED
    BY <1>3, <1>6, <2>1, <2>2, SeqEqual, Zenon
<1> QED
  BY <1>2, <1>9, Zenon DEF w, x, y, z, N

LEMMA LineMangled ==
    ASSUME NEW x \in Seq(LineChar)
    PROVE  /\ Line!Mangle(x) \in Seq(LineInk)
           /\ Line!unescape(Line!Mangle(x)) = Line!Is(x)
           /\ x # << >> => Line!Mangle(x) # << >>
<1> DEFINE M == Len(x)
           ps == [n \in DOMAIN x |-> Line!Escaped(x[n])]
           t == Line!Mangle(x)
           N == Len(t)
<1>1. M \in Nat /\ DOMAIN x = 1 .. M /\ \A n \in 1 .. M : x[n] \in LineChar
  OBVIOUS
<1>2. /\ ps \in [1 .. M -> Seq(LineInk)]
      /\ \A n \in 1 .. M : ps[n] = Line!Escaped(x[n])
  <2>1. \A n \in 1 .. M : Line!Escaped(x[n]) \in Seq(LineInk)
    BY <1>1, LineEscapes, Zenon
  <2> QED
    BY <1>1, <2>1
<1>3. t = Line!Flat(ps)
  BY Zenon DEF Line!Mangle
<1> HIDE DEF ps, t, M, N
<1>4. ps \in Seq(Seq(LineInk)) /\ Len(ps) = M
  BY <1>1, <1>2, FunctionIsSeq
<1>5. PICK u : LineFlat(t, ps, u, LineInk)
  BY <1>3, <1>4, LineFlatIs, Zenon
<1>6. /\ t \in Seq(LineInk) /\ u \in [0 .. M -> Nat] /\ u[0] = 0 /\ N = u[M]
      /\ \A n \in 1 .. M : u[n] = u[n - 1] + Len(ps[n])
      /\ \A n \in 1 .. M : \A k \in 1 .. Len(ps[n]) : t[u[n - 1] + k] = ps[n][k]
      /\ \A m, n \in 0 .. M : m <= n => u[m] <= u[n]
  BY <1>4, <1>5, Zenon DEF LineFlat, N
<1>7. t \in Seq(LineChar)
  <2>1. LineInk \subseteq LineChar
    BY Zenon DEF LineInk
  <2> QED
    BY <1>6, <2>1, SeqSpreads, Zenon
<1>8. PICK g : Line!unescape(t) = g[1] /\ LineGoes(g, t, N)
  BY <1>7, LineUnescapeRuns, Zenon DEF N
<1>9. /\ g[N + 1] = Line!Is(<< >>)
      /\ \A n \in 1 .. N :
          /\ t[n] # "\\" => g[n] = LinePut(t[n], g[n + 1])
          /\ t[n] = "\\" /\ Line!IsOctal(LineThree(t, n)) =>
                g[n] = LinePut(Line!OfCode(Line!Octal(LineThree(t, n))), g[n + 4])
  BY <1>8, Zenon DEF LineGoes
<1> DEFINE Rest(i) == SubSeq(x, i, M)
<1>10. ASSUME NEW i \in 1 .. M
       PROVE  /\ Rest(i + 1) \in Seq(LineChar) /\ <<x[i]>> \o Rest(i + 1) = Rest(i)
              /\ LinePut(x[i], Line!Is(Rest(i + 1))) = Line!Is(Rest(i))
  <2>1. Rest(i + 1) \in Seq(LineChar) /\ <<x[i]>> \o Rest(i + 1) = Rest(i)
    BY LineTail, Zenon DEF M
  <2> HIDE DEF Rest
  <2>2. Line!Is(Rest(i + 1)).ok /\ Line!Is(Rest(i + 1)).value = Rest(i + 1)
    BY DEF Line!Is
  <2> QED
    BY <2>1, <2>2, Zenon DEF LinePut
<1>11. Rest(1) = x /\ Rest(M + 1) = << >>
  <2>1. Rest(1) = x
    <3>1. /\ SubSeq(x, 1, M) \in Seq(LineChar)
          /\ Len(SubSeq(x, 1, M)) = IF 1 <= M THEN M - 1 + 1 ELSE 0
          /\ \A k \in 1 .. M - 1 + 1 : SubSeq(x, 1, M)[k] = x[1 + k - 1]
      <4>1. 1 \in Nat \ {0} /\ M \in 0 .. Len(x)
        BY <1>1 DEF M
      <4> QED
        BY <4>1, PartIs, Zenon
    <3> DEFINE y == SubSeq(x, 1, M)
    <3>2. /\ y \in Seq(LineChar)
          /\ Len(y) = IF 1 <= M THEN M - 1 + 1 ELSE 0
          /\ \A k \in 1 .. M - 1 + 1 : y[k] = x[1 + k - 1]
      BY <3>1, Zenon DEF y
    <3> HIDE DEF y
    <3>3. Len(y) = M /\ \A k \in 1 .. M : y[k] = x[k]
      BY <1>1, <3>2
    <3>4. y = x
      BY <3>2, <3>3, SeqEqual, Zenon DEF M
    <3> QED
      BY <3>4 DEF y
  <2>2. Rest(M + 1) = << >>
    <3>1. M + 1 \in Nat \ {0} /\ M \in 0 .. Len(x) /\ ~(M + 1 <= M)
      BY <1>1 DEF M
    <3>2. Rest(M + 1) \in Seq(LineChar) /\ Len(Rest(M + 1)) = 0
      BY <3>1, PartIs, Zenon
    <3> HIDE DEF Rest
    <3> QED
      BY <3>2
  <2> QED
    BY <2>1, <2>2
<1> HIDE DEF Rest
<1> DEFINE P == {i \in Nat : g[u[i - 1] + 1] = Line!Is(Rest(i))}
<1>12. M + 1 \in P
  <2>1. M + 1 \in Nat
    BY <1>1
  <2>2. (M + 1) - 1 = M
    BY <1>1
  <2>3. g[u[(M + 1) - 1] + 1] = Line!Is(Rest(M + 1))
    BY <1>6, <1>9, <1>11, <2>2, Zenon
  <2> QED
    BY <2>1, <2>3, Zenon DEF P
<1>13. ASSUME NEW i \in 1 .. M, i + 1 \in P PROVE i \in P
  <2> DEFINE o == u[i - 1]
             n == o + 1
             p == ps[i]
             e == u[i]
             c == x[i]
  <2>1. /\ i \in Nat /\ i - 1 \in 0 .. M /\ i \in 0 .. M /\ i + 1 - 1 = i /\ M \in 0 .. M
    BY <1>1
  <2>2. /\ o \in Nat /\ e = o + Len(p) /\ e \in Nat /\ e <= N /\ N \in Nat
        /\ \A k \in 1 .. Len(p) : t[o + k] = p[k]
    <3>1. u[i] <= u[M] /\ u[M] \in Nat
      BY <1>6, <2>1
    <3> QED
      BY <1>6, <2>1, <3>1
  <2>3. g[e + 1] = Line!Is(Rest(i + 1))
    BY <1>13, <2>1
  <2>4. p = Line!Escaped(c) /\ c \in LineChar
    BY <1>1, <1>2
  <2>5. LinePut(c, g[e + 1]) = Line!Is(Rest(i))
    BY <1>10, <2>3, Zenon
  <2> HIDE DEF o, p, e, c, P
  <2>6. g[n] = Line!Is(Rest(i))
    <3>1. CASE p = <<c>> /\ c # "\\"
      <4>1. Len(p) = 1 /\ p[1] = c
        BY <3>1
      <4>2. n \in 1 .. N /\ t[n] = c /\ e = n
        BY <2>2, <4>1
      <4> HIDE DEF n
      <4>3. g[n] = LinePut(c, g[n + 1])
        BY <1>9, <3>1, <4>2, Zenon
      <4> QED
        BY <2>5, <4>2, <4>3, Zenon
    <3>2. CASE LineCoded(p, c)
      <4>1. /\ p[1] = "\\" /\ Len(p) = 4 /\ p \in Seq(LineInk)
            /\ Line!IsOctal(<<p[2], p[3], p[4]>>)
            /\ Line!OfCode(Line!Octal(<<p[2], p[3], p[4]>>)) = c
        BY <3>2, Zenon DEF LineCoded
      <4>2. /\ n \in 1 .. N /\ t[n] = "\\" /\ n + 4 = e + 1 /\ n + 3 <= N /\ n \in Nat
            /\ t[n + 1] = p[2] /\ t[n + 2] = p[3] /\ t[n + 3] = p[4]
        <5>1. t[o + 1] = p[1] /\ t[o + 2] = p[2] /\ t[o + 3] = p[3] /\ t[o + 4] = p[4]
          BY <2>2, <4>1
        <5> QED
          BY <2>2, <4>1, <5>1
      <4> HIDE DEF n
      <4>3. LineThree(t, n) = <<p[2], p[3], p[4]>>
        <5>1. LineThree(t, n) = SubSeq(t, n + 1, n + 3)
          BY <4>2, Zenon DEF LineThree, N
        <5> DEFINE s == SubSeq(t, n + 1, n + 3)
                   r == <<p[2], p[3], p[4]>>
        <5>2. /\ s \in Seq(LineInk)
              /\ Len(s) = IF n + 1 <= n + 3 THEN (n + 3) - (n + 1) + 1 ELSE 0
              /\ \A k \in 1 .. (n + 3) - (n + 1) + 1 : s[k] = t[n + 1 + k - 1]
          <6>1. n + 1 \in Nat \ {0} /\ n + 3 \in 0 .. Len(t)
            BY <2>2, <4>2 DEF N
          <6>2. t \in Seq(LineInk)
            BY <1>6
          <6> DEFINE a == n + 1
                     b == n + 3
          <6>3. a \in Nat \ {0} /\ b \in 0 .. Len(t)
            BY <6>1
          <6> HIDE DEF a, b
          <6>4. /\ SubSeq(t, a, b) \in Seq(LineInk)
                /\ Len(SubSeq(t, a, b)) = IF a <= b THEN b - a + 1 ELSE 0
                /\ \A k \in 1 .. b - a + 1 : SubSeq(t, a, b)[k] = t[a + k - 1]
            BY <6>2, <6>3, PartIs, Zenon
          <6> QED
            BY <6>4, Zenon DEF a, b, s
        <5>3. p[2] \in LineInk /\ p[3] \in LineInk /\ p[4] \in LineInk
          <6>3. p \in Seq(LineInk)
            BY <4>1
          <6>1. \A k \in 1 .. Len(p) : p[k] \in LineInk
            BY <6>3
          <6>2. 2 \in 1 .. Len(p) /\ 3 \in 1 .. Len(p) /\ 4 \in 1 .. Len(p)
            BY <4>1
          <6> QED
            BY <6>1, <6>2, Zenon
        <5>4. r \in Seq(LineInk) /\ Len(r) = 3 /\ r[1] = p[2] /\ r[2] = p[3] /\ r[3] = p[4]
          BY <5>3
        <5> HIDE DEF s, r
        <5>5. Len(s) = 3 /\ s[1] = t[n + 1] /\ s[2] = t[n + 2] /\ s[3] = t[n + 3]
          BY <4>2, <5>2
        <5>6. \A k \in 1 .. 3 : s[k] = r[k]
          BY <4>2, <5>4, <5>5
        <5>7. s = r
          BY <5>2, <5>4, <5>5, <5>6, SeqEqual
        <5> QED
          BY <5>1, <5>7 DEF s, r
      <4>4. g[n] = LinePut(c, g[n + 4])
        BY <1>9, <4>1, <4>2, <4>3, Zenon
      <4> QED
        BY <2>5, <4>2, <4>4, Zenon
    <3> QED
      BY <2>4, <3>1, <3>2, LineEscapes, Zenon
  <2> QED
    BY <2>1, <2>6 DEF P, o
<1> HIDE DEF P
<1> DEFINE Q == {i \in Nat : M + 1 - i \in P}
<1>14. \A i \in 0 .. M : i \in Q
  <2>1. 0 \in Q
    BY <1>1, <1>12
  <2>2. ASSUME NEW i \in 1 .. M, i - 1 \in Q PROVE i \in Q
    <3>1. M + 1 - (i - 1) \in P
      BY <2>2
    <3>2. M + 1 - i \in 1 .. M /\ M + 1 - (i - 1) = M + 1 - i + 1 /\ i \in Nat
      BY <1>1
    <3>3. M + 1 - i \in P
      BY <1>13, <3>1, <3>2
    <3> QED
      BY <3>2, <3>3
  <2> HIDE DEF Q
  <2> QED
    BY <1>1, <2>1, <2>2, Induction
<1>15. g[1] = Line!Is(x)
  <2>1. M \in Q /\ M + 1 - M = 1
    BY <1>1, <1>14
  <2>2. 1 \in P
    BY <2>1
  <2>3. g[u[1 - 1] + 1] = Line!Is(Rest(1))
    BY <2>2, Zenon DEF P
  <2>4. 1 - 1 = 0 /\ u[0] + 1 = 1
    BY <1>6
  <2> QED
    BY <1>11, <2>3, <2>4, Zenon
<1>16. ASSUME x # << >> PROVE t # << >>
  <2>1. 1 \in 1 .. M /\ 0 \in 0 .. M /\ 1 \in 0 .. M /\ M \in 0 .. M
    <3>1. M # 0
      BY <1>16 DEF M
    <3> QED
      BY <1>1, <3>1
  <2>2. ps[1] = Line!Escaped(x[1]) /\ x[1] \in LineChar
    BY <1>1, <1>2, <2>1, Zenon
  <2>3. Len(ps[1]) >= 1
    <3>1. CASE ps[1] = <<x[1]>>
      BY <3>1
    <3>2. CASE LineCoded(ps[1], x[1])
      <4>1. Len(ps[1]) = 4
        BY <3>2, Zenon DEF LineCoded
      <4> QED
        BY <4>1
    <3> QED
      BY <2>2, <3>1, <3>2, LineEscapes, Zenon
  <2>4. u[1] = u[0] + Len(ps[1]) /\ u[1] <= u[M] /\ u[0] = 0 /\ u[M] \in Nat /\ u[1] \in Nat
    <3>1. u[1] = u[1 - 1] + Len(ps[1])
      BY <1>6, <2>1, Zenon
    <3>4. u[1 - 1] = u[0]
      OBVIOUS
    <3>2. 1 <= M
      BY <2>1
    <3>5. u[1] <= u[M] /\ u[0] = 0 /\ u[M] \in Nat /\ u[1] \in Nat
      BY <1>6, <2>1, <3>2
    <3> QED
      BY <3>1, <3>4, <3>5, Zenon
  <2>5. Len(ps[1]) \in Nat
    BY <1>4, <2>1
  <2>6. Len(t) # 0
    <3> DEFINE l == Len(ps[1])
    <3>1. l >= 1 /\ l \in Nat /\ u[1] = u[0] + l
      BY <2>3, <2>4, <2>5
    <3> HIDE DEF l
    <3>2. N >= 1
      BY <1>6, <2>4, <3>1
    <3> QED
      BY <3>2 DEF N
  <2> QED
    BY <2>6
<1> QED
  BY <1>6, <1>8, <1>15, <1>16, Zenon DEF t

(* Numbers: what number reads, one digit after another.                      *)
LineNumeral == {Line!Digit[k] : k \in 1 .. 10}
LineValues == {Line!Fails} \cup {Line!Is(v) : v \in Nat}

LEMMA LineShifts ==
    ASSUME NEW v \in Nat, NEW k \in 1 .. 10
    PROVE  Line!Shifted(Line!Is(v), Line!Digit[k])
              = IF v * 10 + (k - 1) > UINT_MAX THEN Line!Fails ELSE Line!Is(v * 10 + (k - 1))
<1> DEFINE c == Line!Digit[k]
           d == k - 1
           r == Line!Is(v)
<1>1. Line!IsDigit(c) /\ Line!ValueOf(c) = d
  BY LineDigits, Zenon
<1>2. d \in Nat /\ d <= 9
  OBVIOUS
<1>3. UINT_MAX \in Nat /\ UINT_MAX >= 9
  BY LineAssumption, Zenon DEF Line!NumberAssumption
<1>4. r.ok /\ r.value = v
  BY DEF Line!Is
<1> HIDE DEF c, d, r
<1>5. (v > (UINT_MAX - d) \div 10) <=> (v * 10 + d > UINT_MAX)
  <2> DEFINE q == (UINT_MAX - d) \div 10
  <2>1. q \in Int /\ q * 10 <= UINT_MAX - d /\ UINT_MAX - d < q * 10 + 10
    BY <1>2, <1>3
  <2> HIDE DEF q
  <2>2. (v > q) <=> (v * 10 + d > UINT_MAX)
    BY <1>2, <1>3, <2>1
  <2> QED
    BY <2>2 DEF q
<1>6. Line!Shifted(r, c) = IF v * 10 + d > UINT_MAX THEN Line!Fails ELSE Line!Is(v * 10 + d)
  BY <1>1, <1>4, <1>5, Zenon DEF Line!Shifted
<1> QED
  BY <1>6, Zenon DEF r, c, d

LEMMA LineFailsOn == \A c : Line!Shifted(Line!Fails, c) = Line!Fails
<1>1. ~Line!Fails.ok
  BY DEF Line!Fails
<1> QED
  BY <1>1, Zenon DEF Line!Shifted

LEMMA LineValuesStay ==
    ASSUME NEW r \in LineValues, NEW k \in 1 .. 10
    PROVE  Line!Shifted(r, Line!Digit[k]) \in LineValues
<1>1. CASE r = Line!Fails
  BY <1>1, LineFailsOn, Zenon DEF LineValues
<1>2. ASSUME NEW v \in Nat, r = Line!Is(v) PROVE Line!Shifted(r, Line!Digit[k]) \in LineValues
  <2>1. v * 10 + (k - 1) \in Nat
    OBVIOUS
  <2> QED
    BY <1>2, <2>1, LineShifts, Zenon DEF LineValues
<1> QED
  BY <1>1, <1>2, Zenon DEF LineValues

LineAdds(g, s) ==
    /\ g[0] = Line!Is(0)
    /\ \A n \in 1 .. Len(s) : g[n] = Line!Shifted(g[n - 1], s[n])

LEMMA LineNumberRuns ==
    ASSUME NEW s \in Seq(LineNumeral)
    PROVE  \E g : /\ Line!number(s) = (IF s = << >> THEN Line!Fails ELSE g[Len(s)])
                  /\ LineAdds(g, s)
<1> DEFINE N == Len(s)
           W == LineValues
           z == Line!Is(0)
           step == [n \in 1 .. N |-> [v \in W |-> Line!Shifted(v, s[n])]]
<1>1. N \in Nat /\ z \in W /\ \A n \in 1 .. N : s[n] \in LineNumeral
  BY DEF LineValues
<1>2. \A n \in 1 .. N : \A v \in W : step[n][v] = Line!Shifted(v, s[n])
  BY Zenon
<1>3. ASSUME NEW n \in 1 .. N, NEW v \in W PROVE Line!Shifted(v, s[n]) \in W
  <2>1. PICK k \in 1 .. 10 : s[n] = Line!Digit[k]
    BY <1>1, Zenon DEF LineNumeral
  <2> QED
    BY <2>1, LineValuesStay, Zenon
<1> HIDE DEF step, W, N, z
<1>4. PICK f : Chains(f, N, W, z, step)
  <2>1. \A n \in 1 .. N : \A v \in W : step[n][v] \in W
    BY <1>2, <1>3, Zenon
  <2> QED
    BY <1>1, <2>1, Chain
<1>5. f \in [0 .. N -> W] /\ f[0] = z /\ \A n \in 1 .. N : f[n] = step[n][f[n - 1]]
  BY <1>4, Zenon DEF Chains
<1>6. \A n \in 0 .. N : n # 0 => n \in 1 .. N /\ f[n - 1] \in W
  <2> TAKE n \in 0 .. N
  <2>1. n # 0 => n \in 1 .. N /\ n - 1 \in 0 .. N
    BY <1>1
  <2> QED
    BY <1>5, <2>1
<1>7. f = [n \in 0 .. N |-> IF n = 0 THEN z ELSE Line!Shifted(f[n - 1], s[n])]
  <2>1. \A n \in 0 .. N : f[n] = IF n = 0 THEN z ELSE Line!Shifted(f[n - 1], s[n])
    BY <1>2, <1>5, <1>6, Zenon
  <2>2. f = [n \in 0 .. N |-> f[n]]
    BY <1>5
  <2> QED
    BY <2>1, <2>2, Zenon
<1> DEFINE Runs(h) == h = [n \in 0 .. N |-> IF n = 0 THEN z ELSE Line!Shifted(h[n - 1], s[n])]
           g == CHOOSE h : Runs(h)
<1>8. Line!number(s) = IF s = << >> THEN Line!Fails ELSE g[N]
  BY Zenon DEF Line!number, N, z
<1>9. g = [n \in 0 .. N |-> IF n = 0 THEN z ELSE Line!Shifted(g[n - 1], s[n])]
  BY <1>7, Zenon
<1> HIDE DEF g, Runs
<1>10. 0 \in 0 .. N /\ \A n \in 1 .. N : n \in 0 .. N /\ n # 0
  BY <1>1
<1>11. g[0] = z /\ \A n \in 1 .. N : g[n] = Line!Shifted(g[n - 1], s[n])
  BY <1>9, <1>10, Zenon
<1> QED
  BY <1>8, <1>11, Zenon DEF N, z, LineAdds

(* A digit more.                                                             *)
LEMMA LineNumberGrows ==
    ASSUME NEW s \in Seq(LineNumeral), NEW d \in LineNumeral
    PROVE  Line!number(Append(s, d))
              = Line!Shifted(IF s = << >> THEN Line!Is(0) ELSE Line!number(s), d)
<1> DEFINE t == Append(s, d)
           N == Len(s)
<1>1. Longer(t, s, d, LineNumeral) /\ N \in Nat
  BY AppendHas, LenProperties, Zenon
<1> HIDE DEF t, N
<1>2. /\ t \in Seq(LineNumeral) /\ Len(t) = N + 1 /\ t[N + 1] = d
      /\ \A n \in 1 .. N : t[n] = s[n]
  BY <1>1, Zenon DEF Longer, N
<1>3. PICK g : /\ Line!number(s) = (IF s = << >> THEN Line!Fails ELSE g[Len(s)])
               /\ LineAdds(g, s)
  BY LineNumberRuns, Zenon
<1>4. PICK h : /\ Line!number(t) = (IF t = << >> THEN Line!Fails ELSE h[Len(t)])
               /\ LineAdds(h, t)
  BY <1>2, LineNumberRuns, Zenon
<1>5. g[0] = Line!Is(0) /\ \A n \in 1 .. N : g[n] = Line!Shifted(g[n - 1], s[n])
  BY <1>3, Zenon DEF LineAdds, N
<1>6. h[0] = Line!Is(0) /\ \A n \in 1 .. N + 1 : h[n] = Line!Shifted(h[n - 1], t[n])
  BY <1>2, <1>4, Zenon DEF LineAdds
<1> DEFINE P == {n \in Nat : g[n] = h[n]}
<1>7. \A n \in 0 .. N : n \in P
  <2>1. 0 \in P
    BY <1>5, <1>6
  <2>2. ASSUME NEW n \in 1 .. N, n - 1 \in P PROVE n \in P
    <3>1. g[n - 1] = h[n - 1] /\ n \in Nat /\ n \in 1 .. N + 1
      BY <1>1, <2>2
    <3>2. g[n] = h[n]
      BY <1>2, <1>5, <1>6, <3>1, Zenon
    <3> QED
      BY <3>1, <3>2
  <2> HIDE DEF P
  <2> QED
    BY <1>1, <2>1, <2>2, Induction
<1>8. g[N] = h[N]
  BY <1>1, <1>7
<1>9. t # << >>
  BY <1>1, <1>2
<1>10. N + 1 \in 1 .. N + 1 /\ (N + 1) - 1 = N
  BY <1>1
<1>11. h[N + 1] = Line!Shifted(h[N], d)
  BY <1>2, <1>6, <1>10, Zenon
<1>12. g[N] = IF s = << >> THEN Line!Is(0) ELSE Line!number(s)
  <2>1. CASE s = << >>
    <3>1. N = 0
      BY <2>1 DEF N
    <3> QED
      BY <1>5, <2>1, <3>1
  <2>2. CASE s # << >>
    BY <1>3, <2>2, Zenon DEF N
  <2> QED
    BY <2>1, <2>2
<1>13. Line!number(t) = Line!Shifted(g[N], d)
  BY <1>2, <1>4, <1>8, <1>9, <1>11, Zenon
<1> QED
  BY <1>12, <1>13, Zenon DEF t

(* The number that a numeral is of, at every width of unsigned.              *)
LineNumbered(s, n) ==
    /\ s \in Seq(LineNumeral) /\ s # << >>
    /\ Line!number(s) = IF n > UINT_MAX THEN Line!Fails ELSE Line!Is(n)

LEMMA LineDecimalIs ==
    \A n \in 0 .. MaxNumber :
       Line!Decimal[n] = IF n < 10 THEN <<Line!Digit[n + 1]>>
                         ELSE Append(Line!Decimal[n \div 10], Line!Digit[(n % 10) + 1])
<1> DEFINE M == MaxNumber
           W == Seq(LineNumeral)
           a == <<Line!Digit[1]>>
           prev == [n \in 1 .. M |-> n \div 10]
           step == [n \in 1 .. M |->
                      [v \in W |-> IF n < 10 THEN <<Line!Digit[n + 1]>>
                                   ELSE Append(v, Line!Digit[(n % 10) + 1])]]
<1>1. M \in Nat
  BY LineAssumption, Zenon DEF Line!NumberAssumption
<1>2. \A k \in 1 .. 10 : Line!Digit[k] \in LineNumeral
  BY Zenon DEF LineNumeral
<1>3. a \in W
  BY <1>2
<1>4. \A n \in 1 .. M : prev[n] \in 0 .. n - 1 /\ prev[n] = n \div 10 /\ (n < 10 => prev[n] = 0)
  BY <1>1
<1>5. \A n \in 1 .. M : \A v \in W :
         step[n][v] = IF n < 10 THEN <<Line!Digit[n + 1]>>
                      ELSE Append(v, Line!Digit[(n % 10) + 1])
  BY Zenon
<1>6. ASSUME NEW n \in 1 .. M, NEW v \in W PROVE step[n][v] \in W
  <2>1. (n < 10 => n + 1 \in 1 .. 10) /\ (n % 10) + 1 \in 1 .. 10
    BY <1>1
  <2> HIDE DEF step
  <2>2. CASE n < 10
    <3> DEFINE d == Line!Digit[n + 1]
    <3>1. d \in LineNumeral
      BY <1>2, <2>1, <2>2, Zenon
    <3> HIDE DEF d
    <3>2. <<d>> \in W
      BY <3>1
    <3> QED
      BY <1>5, <2>2, <3>2, Zenon DEF d
  <2>3. CASE ~(n < 10)
    <3>1. Line!Digit[(n % 10) + 1] \in LineNumeral
      BY <1>2, <2>1, Zenon
    <3>2. Append(v, Line!Digit[(n % 10) + 1]) \in W
      BY <3>1, AppendProperties, Zenon
    <3> QED
      BY <1>5, <2>3, <3>2, Zenon
  <2> QED
    BY <2>2, <2>3
<1> HIDE DEF M, W, a, prev, step
<1>7. PICK f : Follows(f, M, W, a, prev, step)
  BY <1>1, <1>3, <1>4, <1>6, Recursion
<1>8. f \in [0 .. M -> W] /\ f[0] = a /\ \A n \in 1 .. M : f[n] = step[n][f[prev[n]]]
  BY <1>7, Zenon DEF Follows
<1> DEFINE Body(h, n) == IF n < 10 THEN <<Line!Digit[n + 1]>>
                         ELSE Append(h[n \div 10], Line!Digit[(n % 10) + 1])
<1>9. \A n \in 0 .. M : f[n] = Body(f, n)
  <2> TAKE n \in 0 .. M
  <2>1. CASE n = 0
    BY <1>8, <2>1 DEF a
  <2>2. CASE n # 0
    <3>1. n \in 1 .. M /\ prev[n] \in 0 .. M /\ prev[n] = n \div 10
      BY <1>1, <1>4, <2>2
    <3>2. f[prev[n]] \in W
      BY <1>8, <3>1
    <3> QED
      BY <1>5, <1>8, <3>1, <3>2, Zenon
  <2> QED
    BY <2>1, <2>2
<1>10. f = [n \in 0 .. M |-> Body(f, n)]
  <2>1. f = [n \in 0 .. M |-> f[n]]
    BY <1>8
  <2> QED
    BY <1>9, <2>1, Zenon
<1> DEFINE g == CHOOSE h : h = [n \in 0 .. M |-> Body(h, n)]
<1>11. Line!Decimal = g
  BY Zenon DEF Line!Decimal, M
<1>12. g = [n \in 0 .. M |-> Body(g, n)]
  BY <1>10, Zenon
<1> HIDE DEF g
<1> QED
  BY <1>11, <1>12, Zenon DEF M

LEMMA LineNumber ==
    \A n \in 0 .. MaxNumber : LineNumbered(Line!Decimal[n], n)
<1> DEFINE P == {n \in Nat : LineNumbered(Line!Decimal[n], n)}
<1>1. MaxNumber \in Nat /\ UINT_MAX \in Nat /\ UINT_MAX >= 9
  BY LineAssumption, Zenon DEF Line!NumberAssumption
<1>2. \A k \in 1 .. 10 : Line!Digit[k] \in LineNumeral
  BY Zenon DEF LineNumeral
<1>3. ASSUME NEW n \in 0 .. MaxNumber, \A m \in 0 .. n - 1 : m \in P PROVE n \in P
  <2>1. n \in Nat
    BY <1>1
  <2>2. CASE n < 10
    <3> DEFINE d == Line!Digit[n + 1]
               e == << >>
    <3>1. n + 1 \in 1 .. 10 /\ (n + 1) - 1 = n /\ 0 * 10 + n = n /\ 0 \in Nat /\ ~(n > UINT_MAX)
      BY <1>1, <2>1, <2>2
    <3>2. Line!Decimal[n] = <<d>>
      BY <2>2, LineDecimalIs, Zenon
    <3>3. d \in LineNumeral
      BY <1>2, <3>1, Zenon
    <3>4. Line!Shifted(Line!Is(0), d) = Line!Is(n)
      <4>1. Line!Shifted(Line!Is(0), d)
              = IF 0 * 10 + ((n + 1) - 1) > UINT_MAX THEN Line!Fails
                ELSE Line!Is(0 * 10 + ((n + 1) - 1))
        BY <3>1, LineShifts, Zenon
      <4> QED
        BY <3>1, <4>1, Zenon
    <3> HIDE DEF d
    <3>5. e \in Seq(LineNumeral) /\ Append(e, d) = <<d>> /\ <<d>> \in Seq(LineNumeral) /\ <<d>> # << >>
      BY <3>3
    <3>6. Line!number(<<d>>) = Line!Is(n)
      BY <3>3, <3>4, <3>5, LineNumberGrows, Zenon
    <3>7. LineNumbered(<<d>>, n)
      BY <3>1, <3>5, <3>6, Zenon DEF LineNumbered
    <3> QED
      BY <2>1, <3>2, <3>7
  <2>3. CASE ~(n < 10)
    <3> DEFINE m == n \div 10
               k == (n % 10) + 1
               s == Line!Decimal[m]
               d == Line!Digit[k]
    <3>1. /\ m \in 0 .. n - 1 /\ k \in 1 .. 10 /\ n = m * 10 + (k - 1)
          /\ m \in Nat /\ (m > UINT_MAX => n > UINT_MAX)
      BY <1>1, <2>1, <2>3
    <3> HIDE DEF m, k
    <3>2. Line!Decimal[n] = Append(s, d)
      BY <2>3, LineDecimalIs, Zenon DEF m, k
    <3>3. LineNumbered(s, m)
      <4>1. m \in P
        BY <1>3, <3>1
      <4> QED
        BY <4>1
    <3>4. s \in Seq(LineNumeral) /\ s # << >>
          /\ Line!number(s) = IF m > UINT_MAX THEN Line!Fails ELSE Line!Is(m)
      BY <3>3, Zenon DEF LineNumbered
    <3>5. d \in LineNumeral
      BY <1>2, <3>1, Zenon
    <3>6. Line!number(Append(s, d)) = Line!Shifted(Line!number(s), d)
      BY <3>4, <3>5, LineNumberGrows, Zenon
    <3>7. Line!Shifted(Line!Is(m), d) = IF n > UINT_MAX THEN Line!Fails ELSE Line!Is(n)
      BY <3>1, LineShifts, Zenon
    <3>8. Line!number(Append(s, d)) = IF n > UINT_MAX THEN Line!Fails ELSE Line!Is(n)
      BY <3>1, <3>4, <3>6, <3>7, LineFailsOn, Zenon
    <3> HIDE DEF s, d
    <3>9. Append(s, d) \in Seq(LineNumeral) /\ Append(s, d) # << >>
      BY <3>4, <3>5, AppendProperties
    <3>10. LineNumbered(Append(s, d), n)
      BY <3>8, <3>9, Zenon DEF LineNumbered
    <3> QED
      BY <2>1, <3>2, <3>10
  <2> QED
    BY <2>2, <2>3
<1> HIDE DEF P
<1>4. \A n \in 0 .. MaxNumber : n \in P
  BY <1>1, <1>3, StrongInduction
<1> QED
  BY <1>4 DEF P

(* "major:minor".                                                            *)
LEMMA LineNarrow ==
    ASSUME NEW S, NEW T, NEW s \in Seq(S), \A k \in 1 .. Len(s) : s[k] \in T
    PROVE  s \in Seq(T)
<1>1. Len(s) \in Nat /\ s = [k \in 1 .. Len(s) |-> s[k]]
  OBVIOUS
<1>2. [k \in 1 .. Len(s) |-> s[k]] \in [1 .. Len(s) -> T]
  OBVIOUS
<1>3. s \in [1 .. Len(s) -> T]
  BY <1>1, <1>2, Zenon
<1> QED
  BY <1>1, <1>3, FunctionIsSeq, Zenon

LEMMA LineNumeralsInk == LineNumeral \subseteq LineInk /\ ":" \notin LineNumeral /\ ":" \in LineInk
<1>1. ":" \in LineInk
  <2>1. ":" \in LineMarks /\ ":" # " "
    BY DEF LineMarks
  <2> QED
    BY <2>1, Zenon DEF LineInk, LineChar
<1>2. ASSUME NEW d \in LineNumeral PROVE d \in LineInk /\ d # ":"
  BY LineDigits, Zenon DEF LineNumeral, LineInk
<1> QED
  BY <1>1, <1>2, Zenon

LEMMA LineLeast ==
    ASSUME NEW set \in SUBSET Nat, NEW d \in set, \A k \in set : d <= k
    PROVE  Line!Least(set) = d
<1> DEFINE Is(n) == n \in set /\ \A k \in set : n <= k
           x == CHOOSE n \in set : \A k \in set : n <= k
<1>1. Is(d)
  OBVIOUS
<1>2. Is(x)
  BY <1>1
<1> HIDE DEF x
<1>3. x \in Nat /\ d \in Nat /\ x <= d /\ d <= x
  BY <1>2
<1>4. x = d
  BY <1>3
<1> QED
  BY <1>4, Zenon DEF Line!Least, x

LEMMA LineDevice ==
    ASSUME NEW a \in 0 .. MaxNumber, NEW b \in 0 .. MaxNumber
    PROVE  LET w == Line!Decimal[a] \o <<":">> \o Line!Decimal[b]
           IN  /\ w \in Seq(LineInk) /\ w # << >>
               /\ Line!device_number(w) =
                     IF a > UINT_MAX \/ b > UINT_MAX THEN Line!Fails ELSE Line!Is(<<a, b>>)
<1> DEFINE s == Line!Decimal[a]
           t == Line!Decimal[b]
           z == <<":">>
           p == s \o z
           w == p \o t
           M == Len(s)
           K == Len(t)
           colons == {n \in DOMAIN w : w[n] = ":"}
<1>1. LineNumbered(s, a) /\ LineNumbered(t, b)
  BY LineNumber, Zenon
<1> HIDE DEF s, t
<1>2. /\ s \in Seq(LineNumeral) /\ t \in Seq(LineNumeral)
      /\ Line!number(s) = (IF a > UINT_MAX THEN Line!Fails ELSE Line!Is(a))
      /\ Line!number(t) = (IF b > UINT_MAX THEN Line!Fails ELSE Line!Is(b))
  BY <1>1, Zenon DEF LineNumbered
<1>3. s \in Seq(LineInk) /\ t \in Seq(LineInk) /\ z \in Seq(LineInk) /\ Len(z) = 1 /\ z[1] = ":"
  <2>1. s \in Seq(LineInk) /\ t \in Seq(LineInk)
    BY <1>2, LineNumeralsInk, SeqSpreads, Zenon
  <2>2. ":" \in LineInk
    BY LineNumeralsInk
  <2> QED
    BY <2>1, <2>2
<1> HIDE DEF z, p, w
<1>4. Joined(p, s, z, LineInk)
  BY <1>3, ConcatIs, Zenon DEF p
<1>5. /\ p \in Seq(LineInk) /\ Len(p) = M + 1 /\ M \in Nat /\ p[M + 1] = ":"
      /\ \A n \in 1 .. M : p[n] = s[n]
  <2>1. /\ p \in Seq(LineInk) /\ Len(p) = M + Len(z) /\ M \in Nat
        /\ \A n \in 1 .. M : p[n] = s[n]
        /\ \A n \in 1 .. Len(z) : p[M + n] = z[n]
    BY <1>4, Zenon DEF Joined
  <2> QED
    BY <1>3, <2>1
<1>6. Joined(w, p, t, LineInk)
  BY <1>3, <1>5, ConcatIs, Zenon DEF w
<1>7. /\ w \in Seq(LineInk) /\ Len(w) = M + 1 + K /\ K \in Nat
      /\ \A n \in 1 .. M + 1 : w[n] = p[n]
      /\ \A n \in 1 .. K : w[M + 1 + n] = t[n]
  BY <1>5, <1>6, Zenon DEF Joined
<1>8. /\ \A n \in 1 .. M : s[n] # ":"
      /\ \A n \in 1 .. K : t[n] # ":"
  <2>1. /\ \A n \in 1 .. M : s[n] \in LineNumeral
        /\ \A n \in 1 .. K : t[n] \in LineNumeral
    BY <1>2
  <2> QED
    BY <2>1, LineNumeralsInk, Zenon
<1> HIDE DEF M, K
<1>9. colons = {M + 1}
  <2>1. DOMAIN w = 1 .. M + 1 + K
    BY <1>7
  <2>2. M + 1 \in DOMAIN w /\ w[M + 1] = ":"
    BY <1>5, <1>7, <2>1
  <2>3. ASSUME NEW n \in DOMAIN w, w[n] = ":" PROVE n = M + 1
    <3>1. CASE n \in 1 .. M
      <4>1. n \in 1 .. M + 1 /\ w[n] = s[n]
        BY <1>5, <1>7, <3>1
      <4> QED
        BY <1>8, <2>3, <3>1, <4>1, Zenon
    <3>2. CASE n > M + 1
      <4> DEFINE k == n - (M + 1)
      <4>1. k \in 1 .. K /\ n = M + 1 + k
        BY <1>5, <1>7, <2>1, <3>2
      <4> HIDE DEF k
      <4> QED
        BY <1>7, <1>8, <2>3, <4>1, Zenon
    <3>3. n \in 1 .. M \/ n > M + 1 \/ n = M + 1
      BY <1>5, <1>7, <2>1
    <3> QED
      BY <3>1, <3>2, <3>3
  <2> QED
    BY <2>2, <2>3, Zenon
<1> HIDE DEF colons
<1>10. Line!Least(colons) = M + 1 /\ colons # {}
  <2>1. M + 1 \in Nat /\ M + 1 <= M + 1 /\ M + 1 \in {M + 1}
    BY <1>5
  <2> DEFINE d == M + 1
             S == {d}
  <2>2. S \in SUBSET Nat /\ d \in S /\ \A k \in S : d <= k
    BY <2>1
  <2> HIDE DEF S
  <2>3. Line!Least(S) = d
    BY <2>2, LineLeast, Zenon
  <2> QED
    BY <1>9, <2>3 DEF S
<1>11. SubSeq(w, 1, M) = s
  <2> DEFINE y == SubSeq(w, 1, M)
  <2>1. 1 \in Nat \ {0} /\ M \in 0 .. Len(w)
    BY <1>5, <1>7
  <2>2. /\ y \in Seq(LineInk)
        /\ Len(y) = IF 1 <= M THEN M - 1 + 1 ELSE 0
        /\ \A k \in 1 .. M - 1 + 1 : y[k] = w[1 + k - 1]
    BY <1>7, <2>1, PartIs, Zenon
  <2> HIDE DEF y
  <2>3. Len(y) = Len(s) /\ \A k \in 1 .. Len(y) : y[k] = s[k]
    <3>1. Len(y) = M /\ \A k \in 1 .. M : y[k] = w[k]
      BY <1>5, <2>2
    <3>2. \A k \in 1 .. M : w[k] = s[k]
      BY <1>5, <1>7
    <3> QED
      BY <3>1, <3>2, Zenon DEF M
  <2>4. y = s
    BY <1>3, <2>2, <2>3, SeqEqual, Zenon
  <2> QED
    BY <2>4 DEF y
<1>12. SubSeq(w, M + 1 + 1, Len(w)) = t
  <2> DEFINE f == M + 1 + 1
             e == Len(w)
             y == SubSeq(w, f, e)
  <2>1. e = M + 1 + K /\ f = M + 2
    BY <1>5, <1>7
  <2>5. f \in Nat \ {0} /\ e \in 0 .. Len(w)
    BY <1>5, <1>7
  <2>6. w \in Seq(LineInk)
    BY <1>7
  <2> HIDE DEF f, e
  <2>2. /\ y \in Seq(LineInk)
        /\ Len(y) = IF f <= e THEN e - f + 1 ELSE 0
        /\ \A k \in 1 .. e - f + 1 : y[k] = w[f + k - 1]
    BY <2>5, <2>6, PartIs, Zenon
  <2> HIDE DEF y
  <2>3. Len(y) = K /\ \A k \in 1 .. K : y[k] = w[M + 1 + k]
    <3>1. Len(y) = K /\ e - f + 1 = K
      BY <1>5, <1>7, <2>1, <2>2
    <3>2. ASSUME NEW k \in 1 .. K PROVE y[k] = w[M + 1 + k]
      <4>1. f + k - 1 = M + 1 + k
        BY <1>5, <1>7, <2>1
      <4> QED
        BY <2>2, <3>1, <4>1
    <3> QED
      BY <3>1, <3>2
  <2>4. y = t
    <3>1. Len(y) = Len(t) /\ \A k \in 1 .. Len(y) : y[k] = t[k]
      BY <1>7, <2>3, Zenon DEF K
    <3> QED
      BY <1>3, <2>2, <3>1, SeqEqual, Zenon
  <2> QED
    BY <2>4 DEF y, f, e
<1>13. (M + 1) - 1 = M
  BY <1>5
<1>14. Line!device_number(w) =
         IF Line!number(s).ok /\ Line!number(t).ok
         THEN Line!Is(<<Line!number(s).value, Line!number(t).value>>) ELSE Line!Fails
  <2>1. SubSeq(w, 1, Line!Least(colons) - 1) = s
    BY <1>10, <1>11, <1>13
  <2>2. SubSeq(w, Line!Least(colons) + 1, Len(w)) = t
    BY <1>10, <1>12, Zenon
  <2> QED
    BY <1>10, <2>1, <2>2, Zenon DEF Line!device_number, colons
<1>15. \A n : Line!Is(n).ok /\ Line!Is(n).value = n
  BY DEF Line!Is
<1>16. ~Line!Fails.ok
  BY DEF Line!Fails
<1>17. Line!device_number(w) =
         IF a > UINT_MAX \/ b > UINT_MAX THEN Line!Fails ELSE Line!Is(<<a, b>>)
  <2>1. CASE a > UINT_MAX \/ b > UINT_MAX
    BY <1>2, <1>14, <1>16, <2>1, Zenon
  <2>2. CASE ~(a > UINT_MAX \/ b > UINT_MAX)
    <3>1. Line!number(s) = Line!Is(a) /\ Line!number(t) = Line!Is(b)
      BY <1>2, <2>2, Zenon
    <3> QED
      BY <1>14, <1>15, <2>2, <3>1, Zenon
  <2> QED
    BY <2>1, <2>2
<1>18. w # << >>
  BY <1>5, <1>7
<1> QED
  BY <1>7, <1>17, <1>18, Zenon DEF w, p, z, s, t

LEMMA LineSmallNumber ==
    ASSUME NEW k \in 1 .. 10 PROVE Line!number(<<Line!Digit[k]>>).ok
<1> DEFINE d == Line!Digit[k]
           e == << >>
<1>1. d \in LineNumeral
  BY Zenon DEF LineNumeral
<1>2. Line!Shifted(Line!Is(0), d).ok
  <2>1. UINT_MAX \in Nat /\ UINT_MAX >= 9
    BY LineAssumption, Zenon DEF Line!NumberAssumption
  <2>2. 0 \in Nat /\ ~(0 * 10 + (k - 1) > UINT_MAX)
    BY <2>1
  <2>3. Line!Shifted(Line!Is(0), d) = Line!Is(0 * 10 + (k - 1))
    BY <2>2, LineShifts, Zenon
  <2> HIDE DEF d
  <2> QED
    BY <2>3 DEF Line!Is
<1> HIDE DEF d
<1>3. e \in Seq(LineNumeral) /\ Append(e, d) = <<d>>
  BY <1>1
<1>4. Line!number(<<d>>) = Line!Shifted(Line!Is(0), d)
  BY <1>1, <1>3, LineNumberGrows, Zenon
<1> QED
  BY <1>2, <1>4, Zenon DEF d

(* What every mount has, whatever the constants.                             *)
LinePath(t) == t \in Seq(LineChar) /\ t # << >> /\ t[1] = "/"
LineOption == LineInk \ {","}
LineOptions(list) ==
    /\ list \in Seq(Seq(LineOption)) /\ list # << >>
    /\ \A n \in 1 .. Len(list) : list[n] # << >>
LineOptional(list) ==
    list \in Seq(Seq(LineInk)) /\ \A n \in 1 .. Len(list) : list[n] \notin {<< >>, <<"-">>}
LineWritten(m) ==
    /\ m.maj \in 0 .. MaxNumber /\ m.min \in 0 .. MaxNumber
    /\ LinePath(m.root) /\ LinePath(m.point) /\ LinePath(m.device)
    /\ LineOptions(m.options) /\ LineOptions(m.super) /\ LineOptional(m.optional)
    /\ m.type \in Seq(LineInk) /\ m.type # << >>

LEMMA LineMounts ==
    ASSUME NEW m \in Line!Mounts PROVE LineWritten(m)
<1>1. /\ \A t \in MountTexts : t \in Seq(STRING) /\ t # << >> /\ t[1] = "/"
      /\ \A list \in OptionLists :
            /\ list \in Seq(Seq(STRING)) /\ list # << >>
            /\ \A n \in DOMAIN list :
                  list[n] # << >> /\ \A k \in DOMAIN list[n] : list[n][k] \notin {",", " "}
      /\ \A list \in OptionalLists :
            /\ list \in Seq(Seq(STRING))
            /\ \A n \in DOMAIN list :
                  list[n] \notin {<< >>, <<"-">>} /\ \A k \in DOMAIN list[n] : list[n][k] # " "
  BY LineAssumption, Zenon DEF Line!TextsAssumption
<1>2. \A t \in MountTexts : LinePath(t)
  <2>1. STRING \subseteq LineChar
    BY Zenon DEF LineChar
  <2> QED
    BY <1>1, <2>1, SeqSpreads, Zenon DEF LinePath
<1>3. ASSUME NEW list \in OptionLists PROVE LineOptions(list)
  <2>1. list \in Seq(Seq(STRING)) /\ list # << >>
    BY <1>1, Zenon
  <2>2. Len(list) \in Nat /\ DOMAIN list = 1 .. Len(list)
    BY <2>1
  <2>3. ASSUME NEW n \in 1 .. Len(list) PROVE list[n] \in Seq(LineOption) /\ list[n] # << >>
    <3> DEFINE t == list[n]
    <3>1. t \in Seq(STRING)
      BY <2>1
    <3>2. t # << >> /\ \A k \in DOMAIN t : t[k] \notin {",", " "}
      BY <1>1, <2>2, Zenon
    <3> HIDE DEF t
    <3>3. DOMAIN t = 1 .. Len(t) /\ \A k \in 1 .. Len(t) : t[k] \in STRING
      BY <3>1
    <3>4. \A k \in 1 .. Len(t) : t[k] \in LineOption
      BY <3>2, <3>3, Zenon DEF LineOption, LineInk, LineChar
    <3>5. t \in Seq(LineOption)
      BY <3>1, <3>4, LineNarrow, Zenon
    <3> QED
      BY <3>2, <3>5 DEF t
  <2>4. list \in Seq(Seq(LineOption))
    BY <2>1, <2>3, LineNarrow, Zenon
  <2> QED
    BY <2>1, <2>3, <2>4, Zenon DEF LineOptions
<1>4. ASSUME NEW list \in OptionalLists PROVE LineOptional(list)
  <2>1. list \in Seq(Seq(STRING))
    BY <1>1, Zenon
  <2>2. Len(list) \in Nat /\ DOMAIN list = 1 .. Len(list)
    BY <2>1
  <2>3. ASSUME NEW n \in 1 .. Len(list)
        PROVE  list[n] \in Seq(LineInk) /\ list[n] \notin {<< >>, <<"-">>}
    <3> DEFINE t == list[n]
    <3>1. t \in Seq(STRING)
      BY <2>1
    <3>2. t \notin {<< >>, <<"-">>} /\ \A k \in DOMAIN t : t[k] # " "
      BY <1>1, <2>2, Zenon
    <3> HIDE DEF t
    <3>3. DOMAIN t = 1 .. Len(t) /\ \A k \in 1 .. Len(t) : t[k] \in STRING
      BY <3>1
    <3>4. \A k \in 1 .. Len(t) : t[k] \in LineInk
      BY <3>2, <3>3, Zenon DEF LineInk, LineChar
    <3>5. t \in Seq(LineInk)
      BY <3>1, <3>4, LineNarrow, Zenon
    <3> QED
      BY <3>2, <3>5, Zenon DEF t
  <2>4. list \in Seq(Seq(LineInk))
    BY <2>1, <2>3, LineNarrow, Zenon
  <2> QED
    BY <2>3, <2>4, Zenon DEF LineOptional
<1> DEFINE P == Line!Plain
           writable == << <<"r", "w">> >>
           none == << >>
           slash == <<"/">>
           a == <<"/", "a">>
           dv == <<"/", "d">>
           v == <<"v">>
           Made(n, k, r, p, o, f, e, s) ==
              [maj |-> n, min |-> k, root |-> r, point |-> p, options |-> o, optional |-> f,
               type |-> v, device |-> e, super |-> s]
<1>5. P = Made(0, 1, slash, a, writable, none, dv, writable)
  BY Zenon DEF Line!Plain
<1>6. LineOptions(writable)
  <2> DEFINE t == <<"r", "w">>
  <2>1. "r" \in LineOption /\ "w" \in LineOption
    <3>1. "r" \in LineMarks /\ "w" \in LineMarks /\ "r" # " " /\ "r" # "," /\ "w" # " " /\ "w" # ","
      BY DEF LineMarks
    <3> QED
      BY <3>1, Zenon DEF LineOption, LineInk, LineChar
  <2>2. t \in Seq(LineOption) /\ t # << >>
    BY <2>1
  <2> HIDE DEF t
  <2>3. <<t>> \in Seq(Seq(LineOption)) /\ <<t>> # << >> /\ \A n \in 1 .. Len(<<t>>) : <<t>>[n] # << >>
    BY <2>2
  <2> QED
    BY <2>3, Zenon DEF LineOptions, t
<1>7. LineOptional(none)
  BY DEF LineOptional
<1>8. LinePath(slash) /\ LinePath(a) /\ LinePath(dv)
  <2>1. "/" \in LineChar /\ "a" \in LineChar /\ "d" \in LineChar
    <3>1. "/" \in LineMarks /\ "a" \in LineMarks /\ "d" \in LineMarks
      BY DEF LineMarks
    <3> QED
      BY <3>1, Zenon DEF LineChar
  <2> QED
    BY <2>1 DEF LinePath
<1>9. v \in Seq(LineInk) /\ v # << >>
  <2>1. "v" \in LineInk
    <3>1. "v" \in LineMarks /\ "v" # " "
      BY DEF LineMarks
    <3> QED
      BY <3>1, Zenon DEF LineInk, LineChar
  <2> QED
    BY <2>1
<1>10. 0 \in 0 .. MaxNumber /\ 1 \in 0 .. MaxNumber /\ MaxNumber \in 0 .. MaxNumber
  BY LineAssumption DEF Line!NumberAssumption
<1> HIDE DEF writable, none, slash, a, dv, v, P
<1>11. ASSUME NEW q,
              q.maj \in 0 .. MaxNumber, q.min \in 0 .. MaxNumber, LinePath(q.root),
              LinePath(q.point), LinePath(q.device), LineOptions(q.options),
              LineOptions(q.super), LineOptional(q.optional), q.type = v
       PROVE  LineWritten(q)
  BY <1>9, <1>11, Zenon DEF LineWritten
<1>19. /\ P.maj = 0 /\ P.min = 1 /\ P.root = slash /\ P.point = a /\ P.options = writable
       /\ P.optional = none /\ P.type = v /\ P.device = dv /\ P.super = writable
       /\ DOMAIN P = {"maj", "min", "root", "point", "options", "optional", "type", "device",
                      "super"}
  BY <1>5
<1>12. ASSUME NEW n, NEW k
       PROVE  LET q == Line!Numbered(n, k)
              IN  /\ q.maj = n /\ q.min = k /\ q.root = slash /\ q.point = a /\ q.options = writable
                  /\ q.optional = none /\ q.type = v /\ q.device = dv /\ q.super = writable
  BY <1>19 DEF Line!Numbered, P
<1>13. ASSUME NEW r, NEW p, NEW e
       PROVE  LET q == Line!Named(r, p, e)
              IN  /\ q.maj = 0 /\ q.min = 1 /\ q.root = r /\ q.point = p /\ q.options = writable
                  /\ q.optional = none /\ q.type = v /\ q.device = e /\ q.super = writable
  BY <1>19 DEF Line!Named, P
<1>14. ASSUME NEW o, NEW s, NEW f
       PROVE  LET q == Line!Listed(o, s, f)
              IN  /\ q.maj = 0 /\ q.min = 1 /\ q.root = slash /\ q.point = a /\ q.options = o
                  /\ q.optional = f /\ q.type = v /\ q.device = dv /\ q.super = s
  BY <1>19 DEF Line!Listed, P
<1> HIDE DEF Made
<1>20. \/ \E n \in {0, MaxNumber}, k \in 0 .. MaxNumber : m = Line!Numbered(n, k)
       \/ \E r, p, e \in MountTexts : m = Line!Named(r, p, e)
       \/ \E o, s \in OptionLists, f \in OptionalLists : m = Line!Listed(o, s, f)
  BY SMT DEF Line!Mounts
<1>16. ASSUME NEW n \in {0, MaxNumber}, NEW k \in 0 .. MaxNumber
       PROVE  LineWritten(Line!Numbered(n, k))
  <2> DEFINE q == Line!Numbered(n, k)
  <2>1. n \in 0 .. MaxNumber
    BY <1>10
  <2>2. /\ q.maj = n /\ q.min = k /\ q.root = slash /\ q.point = a /\ q.options = writable
        /\ q.optional = none /\ q.type = v /\ q.device = dv /\ q.super = writable
    BY <1>12, Zenon
  <2> HIDE DEF q
  <2>3. LineWritten(q)
    BY <1>6, <1>7, <1>8, <1>11, <2>1, <2>2, Zenon
  <2> QED
    BY <2>3, Zenon DEF q
<1>17. ASSUME NEW r \in MountTexts, NEW p \in MountTexts, NEW e \in MountTexts
       PROVE  LineWritten(Line!Named(r, p, e))
  <2> DEFINE q == Line!Named(r, p, e)
  <2>2. /\ q.maj = 0 /\ q.min = 1 /\ q.root = r /\ q.point = p /\ q.options = writable
        /\ q.optional = none /\ q.type = v /\ q.device = e /\ q.super = writable
    BY <1>13
  <2> HIDE DEF q
  <2>3. LineWritten(q)
    BY <1>2, <1>6, <1>7, <1>10, <1>11, <2>2, Zenon
  <2> QED
    BY <2>3, Zenon DEF q
<1>18. ASSUME NEW o \in OptionLists, NEW s \in OptionLists, NEW f \in OptionalLists
       PROVE  LineWritten(Line!Listed(o, s, f))
  <2> DEFINE q == Line!Listed(o, s, f)
  <2>2. /\ q.maj = 0 /\ q.min = 1 /\ q.root = slash /\ q.point = a /\ q.options = o
        /\ q.optional = f /\ q.type = v /\ q.device = dv /\ q.super = s
    BY <1>14
  <2> HIDE DEF q
  <2>3. LineWritten(q)
    BY <1>3, <1>4, <1>8, <1>10, <1>11, <2>2, Zenon
  <2> QED
    BY <2>3, Zenon DEF q
<1> QED
  BY <1>16, <1>17, <1>18, <1>20, Zenon

(* Options between commas.                                                   *)
LEMMA LineCommas ==
    ASSUME NEW list, LineOptions(list)
    PROVE  /\ Line!Joined(list, ",") \in Seq(LineInk) /\ Line!Joined(list, ",") # << >>
           /\ Line!Split(Line!Joined(list, ","), ",") = list
<1> DEFINE t == Line!Joined(list, ",")
<1>1. "," \in LineInk /\ LineOption \subseteq LineInk
  <2>1. "," \in LineMarks /\ "," # " "
    BY DEF LineMarks
  <2> QED
    BY <2>1, Zenon DEF LineInk, LineChar, LineOption
<1>2. list \in Seq(Seq(LineOption)) /\ list # << >>
      /\ \A n \in 1 .. Len(list) : list[n] # << >>
  BY Zenon DEF LineOptions
<1>3. list \in Seq(Seq(LineInk))
  <2>1. Seq(LineOption) \subseteq Seq(LineInk)
    BY <1>1, SeqSpreads, Zenon
  <2> QED
    BY <1>2, <2>1, SeqSpreads, Zenon
<1>4. \A n \in 1 .. Len(list) : \A k \in 1 .. Len(list[n]) : list[n][k] # ","
  <2> TAKE n \in 1 .. Len(list)
  <2> DEFINE x == list[n]
  <2>1. x \in Seq(LineOption)
    BY <1>2
  <2> HIDE DEF x
  <2>2. \A k \in 1 .. Len(x) : x[k] \in LineOption
    BY <2>1
  <2>3. \A k \in 1 .. Len(x) : x[k] # ","
    BY <2>2, Zenon DEF LineOption
  <2> QED
    BY <2>3 DEF x
<1>5. PICK b, e : LineJoin(t, list, ",", b, e, LineInk)
  BY <1>1, <1>2, <1>3, LineJoinIs, Zenon
<1> HIDE DEF t
<1> DEFINE L == Len(list)
           l == Len(list[1])
<1>6. /\ t \in Seq(LineInk) /\ b[1] = 0 /\ e[L] = Len(t)
      /\ \A n \in 1 .. L : e[n] = b[n] + Len(list[n])
      /\ \A n \in 1 .. L - 1 : e[n] < Len(t)
  BY <1>5, Zenon DEF LineJoin
<1>7. L \in Nat /\ 1 \in 1 .. L /\ l \in Nat /\ l # 0
  <2>1. L \in Nat /\ L # 0
    BY <1>2
  <2>2. 1 \in 1 .. L
    BY <2>1
  <2>3. list[1] \in Seq(LineOption) /\ list[1] # << >>
    BY <1>2, <2>2
  <2> QED
    BY <2>1, <2>2, <2>3
<1>8. e[1] = b[1] + l
  BY <1>6, <1>7, Zenon
<1> HIDE DEF L, l
<1>9. Len(t) # 0
  <2>1. CASE L = 1
    BY <1>6, <1>7, <1>8, <2>1
  <2>2. CASE L # 1
    <3>1. 1 \in 1 .. L - 1
      BY <1>7, <2>2
    <3>2. e[1] < Len(t) /\ Len(t) \in Nat
      BY <1>6, <3>1
    <3> QED
      BY <1>6, <1>7, <1>8, <3>2
  <2> QED
    BY <2>1, <2>2
<1>10. t # << >>
  BY <1>9
<1>11. Line!Split(t, ",") = list
  <2>1. Line!Begins(t, t)
    BY <1>6 DEF Line!Begins
  <2> QED
    BY <1>1, <1>2, <1>3, <1>4, <1>6, <2>1, LineSplit, Zenon DEF t
<1> QED
  BY <1>6, <1>10, <1>11, Zenon DEF t

(* The fields of a line, each in its place.                                  *)
LineLaid(fs, m, L) ==
    /\ fs \in Seq(Seq(LineInk)) /\ L \in Nat /\ Len(fs) = L + 10
    /\ \A n \in 1 .. L + 10 : fs[n] # << >>
    /\ \A n \in 7 .. L + 6 : fs[n] # <<"-">>
    /\ fs[1] = <<"7">> /\ fs[2] = <<"1">>
    /\ fs[3] = Line!Decimal[m.maj] \o <<":">> \o Line!Decimal[m.min]
    /\ fs[4] = Line!Mangle(m.root) /\ fs[5] = Line!Mangle(m.point)
    /\ fs[6] = Line!Joined(m.options, ",") /\ fs[L + 7] = <<"-">> /\ fs[L + 8] = m.type
    /\ fs[L + 9] = Line!Mangle(m.device) /\ fs[L + 10] = Line!Joined(m.super, ",")

LineText(x) == x \in Seq(LineInk) /\ x # << >>

LEMMA LineOfOne ==
    ASSUME NEW x \in LineInk PROVE LineText(<<x>>)
BY DEF LineText

LEMMA LineFields ==
    ASSUME NEW m, LineWritten(m)
    PROVE  LineLaid(Line!Fields(m), m, Len(m.optional))
<1> DEFINE f1 == <<"7">>
           f2 == <<"1">>
           f3 == Line!Decimal[m.maj] \o <<":">> \o Line!Decimal[m.min]
           f4 == Line!Mangle(m.root)
           f5 == Line!Mangle(m.point)
           f6 == Line!Joined(m.options, ",")
           g1 == <<"-">>
           g2 == m.type
           g3 == Line!Mangle(m.device)
           g4 == Line!Joined(m.super, ",")
           opt == m.optional
           A == <<f1, f2, f3, f4, f5, f6>>
           B == <<g1, g2, g3, g4>>
           p == A \o opt
           fs == p \o B
           L == Len(opt)
           T == Seq(LineInk)
<1>1. Line!Fields(m) = fs
  BY Zenon DEF Line!Fields
<1>2. LineText(f1) /\ LineText(f2) /\ LineText(g1)
  <2>1. "7" \in LineInk /\ "1" \in LineInk /\ "-" \in LineInk
    <3>1. /\ "7" \in LineMarks /\ "1" \in LineMarks /\ "-" \in LineMarks
          /\ "7" # " " /\ "1" # " " /\ "-" # " "
      BY DEF LineMarks
    <3> QED
      BY <3>1, Zenon DEF LineInk, LineChar
  <2> QED
    BY <2>1, LineOfOne, Zenon
<1>3. LineText(f3)
  BY LineDevice, Zenon DEF LineWritten, LineText
<1>4. LineText(f4) /\ LineText(f5) /\ LineText(g3)
  BY LineMangled, Zenon DEF LineWritten, LinePath, LineText
<1>5. LineText(f6) /\ LineText(g4)
  BY LineCommas, Zenon DEF LineWritten, LineText
<1>6. LineText(g2)
  BY Zenon DEF LineWritten, LineText
<1>7. opt \in Seq(T) /\ \A n \in 1 .. Len(opt) : opt[n] # << >> /\ opt[n] # g1
  BY Zenon DEF LineWritten, LineOptional
<1> HIDE DEF f1, f2, f3, f4, f5, f6, g1, g2, g3, g4, opt, T
<1>8. /\ f1 \in T /\ f2 \in T /\ f3 \in T /\ f4 \in T /\ f5 \in T /\ f6 \in T
      /\ g1 \in T /\ g2 \in T /\ g3 \in T /\ g4 \in T
  BY <1>2, <1>3, <1>4, <1>5, <1>6, Zenon DEF LineText, T
<1>9. /\ A \in Seq(T) /\ Len(A) = 6 /\ A[1] = f1 /\ A[2] = f2 /\ A[3] = f3 /\ A[4] = f4
      /\ A[5] = f5 /\ A[6] = f6
  BY <1>8
<1>10. B \in Seq(T) /\ Len(B) = 4 /\ B[1] = g1 /\ B[2] = g2 /\ B[3] = g3 /\ B[4] = g4
  BY <1>8
<1> HIDE DEF A, B
<1>11. Joined(p, A, opt, T)
  BY <1>7, <1>9, ConcatIs, Zenon
<1> HIDE DEF p
<1>12. /\ p \in Seq(T) /\ Len(p) = 6 + L /\ L \in Nat
       /\ \A n \in 1 .. 6 : p[n] = A[n]
       /\ \A n \in 1 .. L : p[6 + n] = opt[n]
  BY <1>9, <1>11, Zenon DEF Joined
<1>13. Joined(fs, p, B, T)
  BY <1>10, <1>12, ConcatIs, Zenon
<1> HIDE DEF fs, L
<1>14. /\ fs \in Seq(T) /\ Len(fs) = 6 + L + 4
       /\ \A n \in 1 .. 6 + L : fs[n] = p[n]
       /\ \A n \in 1 .. 4 : fs[6 + L + n] = B[n]
  BY <1>10, <1>12, <1>13, Zenon DEF Joined
<1>15. /\ fs[1] = f1 /\ fs[2] = f2 /\ fs[3] = f3 /\ fs[4] = f4 /\ fs[5] = f5 /\ fs[6] = f6
  <2>1. \A n \in 1 .. 6 : n \in 1 .. 6 + L
    BY <1>12
  <2>2. \A n \in 1 .. 6 : fs[n] = A[n]
    BY <1>12, <1>14, <2>1, Zenon
  <2> QED
    BY <1>9, <2>2
<1>16. fs[L + 7] = g1 /\ fs[L + 8] = g2 /\ fs[L + 9] = g3 /\ fs[L + 10] = g4
  <2>1. 6 + L + 1 = L + 7 /\ 6 + L + 2 = L + 8 /\ 6 + L + 3 = L + 9 /\ 6 + L + 4 = L + 10
    BY <1>12
  <2>2. 1 \in 1 .. 4 /\ 2 \in 1 .. 4 /\ 3 \in 1 .. 4 /\ 4 \in 1 .. 4
    OBVIOUS
  <2>3. /\ fs[6 + L + 1] = B[1] /\ fs[6 + L + 2] = B[2] /\ fs[6 + L + 3] = B[3]
        /\ fs[6 + L + 4] = B[4]
    BY <1>14, <2>2, Zenon
  <2> QED
    BY <1>10, <2>1, <2>3
<1>17. ASSUME NEW n \in 7 .. L + 6 PROVE fs[n] # g1 /\ fs[n] # << >>
  <2> DEFINE k == n - 6
  <2>1. k \in 1 .. L /\ n = 6 + k /\ n \in 1 .. 6 + L
    BY <1>12
  <2> HIDE DEF k
  <2>2. fs[n] = opt[k]
    BY <1>12, <1>14, <2>1, Zenon
  <2> QED
    BY <1>7, <2>1, <2>2, Zenon DEF L
<1>18. ASSUME NEW n \in 1 .. L + 10 PROVE fs[n] # << >>
  <2>1. \/ n = 1 \/ n = 2 \/ n = 3 \/ n = 4 \/ n = 5 \/ n = 6 \/ n \in 7 .. L + 6
        \/ n = L + 7 \/ n = L + 8 \/ n = L + 9 \/ n = L + 10
    BY <1>12
  <2>2. /\ f1 # << >> /\ f2 # << >> /\ f3 # << >> /\ f4 # << >> /\ f5 # << >> /\ f6 # << >>
        /\ g1 # << >> /\ g2 # << >> /\ g3 # << >> /\ g4 # << >>
    BY <1>2, <1>3, <1>4, <1>5, <1>6, Zenon DEF LineText
  <2> QED
    BY <1>15, <1>16, <1>17, <2>1, <2>2, Zenon
<1>19. Len(fs) = L + 10
  BY <1>12, <1>14
<1>20. LineLaid(fs, m, L)
  BY <1>12, <1>14, <1>15, <1>16, <1>17, <1>18, <1>19, Zenon
     DEF LineLaid, T, f1, f2, f3, f4, f5, f6, g1, g2, g3, g4
<1> QED
  BY <1>1, <1>20, Zenon DEF L, opt

(* What parse_mount takes from the fields of a line.                         *)
LineEnds(v) == {n \in DOMAIN v : n > 6 /\ v[n] = <<"-">>}
LineSound(v, d) ==
    /\ \A n \in DOMAIN v : v[n] # << >>
    /\ Len(v) = d + 3 /\ Line!number(v[1]).ok /\ Line!number(v[2]).ok
    /\ Line!device_number(v[3]).ok
    /\ Line!unescape(v[4]).ok /\ Line!unescape(v[4]).value[1] = "/"
    /\ Line!unescape(v[5]).ok /\ Line!unescape(v[5]).value[1] = "/"
    /\ Line!unescape(v[d + 2]).ok
LineRecord(a, b, c, o, t, e, s) ==
    [numbers |-> a, root |-> b, point |-> c, options |-> o, type |-> t, device |-> e, super |-> s]
LineEntry(v, d) ==
    LineRecord(Line!device_number(v[3]).value, Line!unescape(v[4]).value,
               Line!unescape(v[5]).value, v[6], v[d + 1], Line!unescape(v[d + 2]).value, v[d + 3])

LEMMA LineTakenIs ==
    ASSUME NEW v, NEW d, Line!Least(LineEnds(v)) = d
    PROVE  Line!Taken(v) = IF LineEnds(v) # {} /\ LineSound(v, d) THEN Line!Is(LineEntry(v, d))
                           ELSE Line!Fails
<1>1. Line!Taken(v) =
        IF LineEnds(v) # {} /\ LineSound(v, Line!Least(LineEnds(v)))
        THEN Line!Is(LineEntry(v, Line!Least(LineEnds(v)))) ELSE Line!Fails
  BY Zenon DEF Line!Taken, LineEnds, LineSound, LineEntry, LineRecord
<1> QED
  BY <1>1, Zenon

LEMMA LineEndsAt ==
    ASSUME NEW m, NEW fs, NEW L, LineLaid(fs, m, L)
    PROVE  LineEnds(fs) # {} /\ Line!Least(LineEnds(fs)) = L + 7
<1>1. /\ fs \in Seq(Seq(LineInk)) /\ L \in Nat /\ Len(fs) = L + 10
      /\ \A n \in 7 .. L + 6 : fs[n] # <<"-">>
      /\ fs[L + 7] = <<"-">>
  BY Zenon DEF LineLaid
<1> DEFINE d == L + 7
<1>2. DOMAIN fs = 1 .. L + 10
  BY <1>1
<1>3. d \in 1 .. L + 10 /\ d > 6 /\ fs[d] = <<"-">> /\ d \in Nat
  BY <1>1
<1>4. d \in LineEnds(fs)
  BY <1>2, <1>3, Zenon DEF LineEnds
<1>5. ASSUME NEW k \in LineEnds(fs) PROVE k \in Nat /\ d <= k
  <2>1. k \in 1 .. L + 10 /\ k > 6 /\ fs[k] = <<"-">>
    BY <1>2, Zenon DEF LineEnds
  <2>2. k \notin 7 .. L + 6
    BY <1>1, <2>1, Zenon
  <2> QED
    BY <1>1, <2>1, <2>2
<1> HIDE DEF d
<1>6. LineEnds(fs) \in SUBSET Nat
  BY <1>5
<1>7. Line!Least(LineEnds(fs)) = d
  BY <1>4, <1>5, <1>6, LineLeast, Zenon
<1> QED
  BY <1>4, <1>7, Zenon DEF d

LEMMA LineTakesAll ==
    ASSUME NEW m, LineWritten(m), NEW fs, NEW L, LineLaid(fs, m, L)
    PROVE  Line!Taken(fs) =
             IF m.maj > UINT_MAX \/ m.min > UINT_MAX THEN Line!Fails
             ELSE Line!Is(LineRecord(<<m.maj, m.min>>, m.root, m.point,
                                     Line!Joined(m.options, ","), m.type, m.device,
                                     Line!Joined(m.super, ",")))
<1> DEFINE d == L + 7
           Big == m.maj > UINT_MAX \/ m.min > UINT_MAX
           dev == Line!Decimal[m.maj] \o <<":">> \o Line!Decimal[m.min]
<1>1. /\ fs \in Seq(Seq(LineInk)) /\ L \in Nat /\ Len(fs) = L + 10
      /\ \A n \in 1 .. L + 10 : fs[n] # << >>
      /\ fs[1] = <<"7">> /\ fs[2] = <<"1">> /\ fs[3] = dev
      /\ fs[4] = Line!Mangle(m.root) /\ fs[5] = Line!Mangle(m.point)
      /\ fs[6] = Line!Joined(m.options, ",") /\ fs[L + 8] = m.type
      /\ fs[L + 9] = Line!Mangle(m.device) /\ fs[L + 10] = Line!Joined(m.super, ",")
  BY Zenon DEF LineLaid
<1>2. DOMAIN fs = 1 .. L + 10 /\ d + 1 = L + 8 /\ d + 2 = L + 9 /\ d + 3 = L + 10
  <2>1. L \in Nat /\ fs \in Seq(Seq(LineInk)) /\ Len(fs) = L + 10
    BY <1>1, Zenon
  <2>2. d + 1 = L + 8 /\ d + 2 = L + 9 /\ d + 3 = L + 10
    BY <2>1
  <2>3. DOMAIN fs = 1 .. L + 10
    BY <2>1
  <2> QED
    BY <2>2, <2>3, Zenon
<1>3. LineEnds(fs) # {} /\ Line!Least(LineEnds(fs)) = d
  BY LineEndsAt, Zenon
<1>4. Line!device_number(dev) = IF Big THEN Line!Fails ELSE Line!Is(<<m.maj, m.min>>)
  BY LineDevice, Zenon DEF LineWritten
<1>5. /\ Line!unescape(fs[4]) = Line!Is(m.root) /\ m.root[1] = "/"
      /\ Line!unescape(fs[5]) = Line!Is(m.point) /\ m.point[1] = "/"
      /\ Line!unescape(fs[d + 2]) = Line!Is(m.device)
  <2>1. /\ Line!unescape(Line!Mangle(m.root)) = Line!Is(m.root) /\ m.root[1] = "/"
        /\ Line!unescape(Line!Mangle(m.point)) = Line!Is(m.point) /\ m.point[1] = "/"
        /\ Line!unescape(Line!Mangle(m.device)) = Line!Is(m.device)
    BY LineMangled, Zenon DEF LineWritten, LinePath
  <2> QED
    BY <1>1, <1>2, <2>1, Zenon
<1>6. Line!number(fs[1]).ok /\ Line!number(fs[2]).ok
  <2>1. Line!Digit[8] = "7" /\ Line!Digit[2] = "1" /\ 8 \in 1 .. 10 /\ 2 \in 1 .. 10
    BY DEF Line!Digit
  <2>2. Line!number(<<Line!Digit[8]>>).ok /\ Line!number(<<Line!Digit[2]>>).ok
    BY <2>1, LineSmallNumber, Zenon
  <2>3. fs[1] = <<Line!Digit[8]>> /\ fs[2] = <<Line!Digit[2]>>
    BY <1>1, <2>1
  <2> QED
    BY <2>2, <2>3, Zenon
<1>7. \A x : Line!Is(x).ok /\ Line!Is(x).value = x
  BY DEF Line!Is
<1>8. ~Line!Fails.ok
  BY DEF Line!Fails
<1> HIDE DEF d, Big, dev
<1>9. Line!Taken(fs) = IF LineEnds(fs) # {} /\ LineSound(fs, d) THEN Line!Is(LineEntry(fs, d))
                       ELSE Line!Fails
  BY <1>3, LineTakenIs, Zenon
<1>10. CASE Big
  <2>1. ~LineSound(fs, d)
    BY <1>1, <1>4, <1>8, <1>10, Zenon DEF LineSound
  <2> QED
    BY <1>9, <1>10, <2>1, Zenon DEF Big
<1>11. CASE ~Big
  <2>1. Line!device_number(fs[3]) = Line!Is(<<m.maj, m.min>>)
    BY <1>1, <1>4, <1>11, Zenon
  <2>2. /\ Line!device_number(fs[3]).ok /\ Line!device_number(fs[3]).value = <<m.maj, m.min>>
        /\ Line!unescape(fs[4]).ok /\ Line!unescape(fs[4]).value = m.root
        /\ Line!unescape(fs[5]).ok /\ Line!unescape(fs[5]).value = m.point
        /\ Line!unescape(fs[d + 2]).ok /\ Line!unescape(fs[d + 2]).value = m.device
    BY <1>5, <1>7, <2>1, Zenon
  <2>3. LineSound(fs, d)
    BY <1>1, <1>2, <1>5, <1>6, <2>2, Zenon DEF LineSound
  <2>4. LineEntry(fs, d) = LineRecord(<<m.maj, m.min>>, m.root, m.point,
                                     Line!Joined(m.options, ","), m.type, m.device,
                                     Line!Joined(m.super, ","))
    <3>1. LineEntry(fs, d) = LineRecord(<<m.maj, m.min>>, m.root, m.point, fs[6], fs[d + 1],
                                        m.device, fs[d + 3])
      BY <2>2, Zenon DEF LineEntry
    <3>2. fs[6] = Line!Joined(m.options, ",") /\ fs[d + 1] = m.type
          /\ fs[d + 3] = Line!Joined(m.super, ",")
      BY <1>1, <1>2, Zenon
    <3> QED
      BY <3>1, <3>2, Zenon
  <2> QED
    BY <1>3, <1>9, <1>11, <2>3, <2>4, Zenon DEF Big
<1> QED
  BY <1>10, <1>11

(* The line of a mount, and what is read of one that was cut off.            *)
LEMMA LineSpaced ==
    ASSUME NEW m, LineWritten(m)
    PROVE  LET fs == Line!Fields(m)
           IN  /\ fs \in Seq(Seq(LineChar)) /\ fs # << >> /\ " " \in LineChar
               /\ \A n \in 1 .. Len(fs) : \A k \in 1 .. Len(fs[n]) : fs[n][k] # " "
<1> DEFINE fs == Line!Fields(m)
           L == Len(m.optional)
<1>1. LineLaid(fs, m, L)
  BY LineFields, Zenon
<1> HIDE DEF fs, L
<1>3. fs \in Seq(Seq(LineInk)) /\ L \in Nat /\ Len(fs) = L + 10
  BY <1>1, Zenon DEF LineLaid
<1>4. LineInk \subseteq LineChar /\ " " \in LineChar
  <2>1. " " \in LineMarks
    BY DEF LineMarks
  <2> QED
    BY <2>1, Zenon DEF LineInk, LineChar
<1>5. fs \in Seq(Seq(LineChar))
  <2>1. Seq(LineInk) \subseteq Seq(LineChar)
    BY <1>4, SeqSpreads, Zenon
  <2> QED
    BY <1>3, <2>1, SeqSpreads, Zenon
<1>6. \A n \in 1 .. Len(fs) : \A k \in 1 .. Len(fs[n]) : fs[n][k] # " "
  <2> TAKE n \in 1 .. Len(fs)
  <2> DEFINE x == fs[n]
  <2>1. x \in Seq(LineInk)
    BY <1>3
  <2> HIDE DEF x
  <2>2. \A k \in 1 .. Len(x) : x[k] \in LineInk
    BY <2>1
  <2>3. \A k \in 1 .. Len(x) : x[k] # " "
    BY <2>2, Zenon DEF LineInk
  <2> QED
    BY <2>3 DEF x
<1>7. fs # << >>
  BY <1>3
<1> QED
  BY <1>4, <1>5, <1>6, <1>7, Zenon DEF fs

LEMMA LineIsText ==
    ASSUME NEW m, LineWritten(m) PROVE Line!Line(m) \in Seq(LineChar)
<1>1. PICK b, e : LineJoin(Line!Joined(Line!Fields(m), " "), Line!Fields(m), " ", b, e, LineChar)
  BY LineSpaced, LineJoinIs, Zenon
<1> QED
  BY <1>1, Zenon DEF LineJoin, Line!Line

LEMMA LineRuns ==
    ASSUME NEW m, LineWritten(m), NEW s \in Seq(LineChar), Line!Begins(s, Line!Line(m))
    PROVE  /\ LineCut(Line!Split(s, " "), Line!Fields(m), LineChar)
           /\ Len(s) = Len(Line!Line(m)) => Line!Split(s, " ") = Line!Fields(m)
<1> DEFINE fs == Line!Fields(m)
<1>1. Line!Line(m) = Line!Joined(fs, " ")
  BY Zenon DEF Line!Line
<1>2. /\ fs \in Seq(Seq(LineChar)) /\ fs # << >> /\ " " \in LineChar
      /\ \A n \in 1 .. Len(fs) : \A k \in 1 .. Len(fs[n]) : fs[n][k] # " "
  BY LineSpaced, Zenon
<1> HIDE DEF fs
<1>3. Line!Begins(s, Line!Joined(fs, " "))
  BY <1>1, Zenon
<1>4. /\ LineCut(Line!Split(s, " "), fs, LineChar)
      /\ Len(s) = Len(Line!Joined(fs, " ")) => Line!Split(s, " ") = fs
  BY <1>2, <1>3, LineSplit, Zenon
<1> QED
  BY <1>1, <1>4, Zenon DEF fs

LEMMA LineParsed ==
    ASSUME NEW m, LineWritten(m)
    PROVE  Line!parse_mount(Line!Line(m)) = Line!Taken(Line!Fields(m))
<1> DEFINE s == Line!Line(m)
<1>1. s \in Seq(LineChar)
  BY LineIsText, Zenon
<1> HIDE DEF s
<1>2. Line!Begins(s, s)
  BY <1>1 DEF Line!Begins
<1>3. Line!Split(s, " ") = Line!Fields(m)
  BY <1>1, <1>2, LineRuns, Zenon DEF s
<1> QED
  BY <1>3, Zenon DEF Line!parse_mount, s

(* The three properties of a line, of every line.                            *)
LEMMA LineTheMount ==
    ASSUME mount \in Line!Mounts PROVE Line!LineIsTheMount
<1>1. LineWritten(mount)
  BY LineMounts, Zenon
<1>2. LineLaid(Line!Fields(mount), mount, Len(mount.optional))
  BY <1>1, LineFields, Zenon
<1>3. Line!parse_mount(Line!Line(mount)) = Line!Taken(Line!Fields(mount))
  BY <1>1, LineParsed, Zenon
<1>4. Line!Taken(Line!Fields(mount)) =
        IF mount.maj > UINT_MAX \/ mount.min > UINT_MAX THEN Line!Fails
        ELSE Line!Is(LineRecord(<<mount.maj, mount.min>>, mount.root, mount.point,
                                Line!Joined(mount.options, ","), mount.type, mount.device,
                                Line!Joined(mount.super, ",")))
  BY <1>1, <1>2, LineTakesAll, Zenon
<1> QED
  BY <1>3, <1>4, Zenon DEF Line!LineIsTheMount, LineRecord

LEMMA LineMayBeWritten ==
    ASSUME mount \in Line!Mounts PROVE Line!WritableIsRw
<1> DEFINE o == mount.options
           s == mount.super
           e == Line!parse_mount(line).value
           readWrite == <<"r", "w">>
           readOnly == <<"r", "o">>
<1>1. LineWritten(mount)
  BY LineMounts, Zenon
<1>2. SUFFICES ASSUME line = Line!Line(mount), Line!parse_mount(line).ok
               PROVE  Line!Writable(e) = \A list \in {o, s} :
                                            Line!Has(list, readWrite) /\ ~Line!Has(list, readOnly)
  BY Zenon DEF Line!WritableIsRw
<1>3. e.options = Line!Joined(o, ",") /\ e.super = Line!Joined(s, ",")
  <2> DEFINE r == LineRecord(<<mount.maj, mount.min>>, mount.root, mount.point,
                             Line!Joined(o, ","), mount.type, mount.device,
                             Line!Joined(s, ","))
  <2>1. ~Line!Fails.ok
    BY DEF Line!Fails
  <2>2. \A x : Line!Is(x).value = x
    BY DEF Line!Is
  <2>3. Line!parse_mount(line) =
          IF mount.maj > UINT_MAX \/ mount.min > UINT_MAX THEN Line!Fails ELSE Line!Is(r)
    BY <1>2, LineTheMount, Zenon DEF Line!LineIsTheMount, LineRecord
  <2> HIDE DEF r
  <2>4. e = r
    BY <1>2, <2>1, <2>2, <2>3, Zenon
  <2> HIDE DEF e
  <2>5. r.options = Line!Joined(o, ",") /\ r.super = Line!Joined(s, ",")
    BY DEF r, LineRecord
  <2> QED
    BY <2>4, <2>5, Zenon
<1> HIDE DEF e, readWrite, readOnly
<1>4. /\ Line!Split(e.options, ",") = o /\ Line!Split(e.super, ",") = s
  <2>1. LineOptions(o) /\ LineOptions(s)
    BY <1>1, Zenon DEF LineWritten
  <2> QED
    BY <1>3, <2>1, LineCommas, Zenon
<1>5. \A x : /\ Line!option_present(e.options, x) = Line!Has(o, x)
             /\ Line!option_present(e.super, x) = Line!Has(s, x)
  BY <1>4, Zenon DEF Line!option_present
<1>6. Line!Writable(e) = (/\ Line!Has(o, readWrite) /\ Line!Has(s, readWrite)
                          /\ ~Line!Has(o, readOnly) /\ ~Line!Has(s, readOnly))
  BY <1>5, Zenon DEF Line!Writable, readWrite, readOnly
<1>7. Line!Writable(e) <=> \A list \in {o, s} : Line!Has(list, readWrite) /\ ~Line!Has(list, readOnly)
  BY <1>6, Zenon
<1>8. Line!Writable(e) \in BOOLEAN
  BY Zenon DEF Line!Writable
<1> QED
  BY <1>7, <1>8, Zenon

(* A cut list of fields that is taken ends where the whole one ends.         *)
LEMMA LineCutTaken ==
    ASSUME NEW m, NEW fs, NEW L, LineLaid(fs, m, L), NEW v, LineCut(v, fs, LineChar),
           Line!Taken(v).ok
    PROVE  LET d == L + 7
           IN  /\ Line!Taken(v) = Line!Is(LineEntry(v, d)) /\ LineSound(v, d)
               /\ Line!Taken(fs) = Line!Is(LineEntry(fs, d))
               /\ \A n \in 1 .. d + 2 : v[n] = fs[n]
               /\ v[d + 3] # << >> /\ Line!Begins(v[d + 3], fs[d + 3])
<1> DEFINE d == Line!Least(LineEnds(v))
           D == L + 7
<1>1. LineEnds(v) # {} /\ LineSound(v, d)
  <2>1. Line!Taken(v) = IF LineEnds(v) # {} /\ LineSound(v, d) THEN Line!Is(LineEntry(v, d))
                        ELSE Line!Fails
    BY LineTakenIs, Zenon
  <2>2. ~Line!Fails.ok
    BY DEF Line!Fails
  <2> QED
    BY <2>1, <2>2, Zenon
<1>2. Line!Taken(v) = Line!Is(LineEntry(v, d))
  BY <1>1, LineTakenIs, Zenon
<1>3. /\ v \in Seq(Seq(LineChar)) /\ Len(v) \in 1 .. Len(fs)
      /\ \A n \in 1 .. Len(v) - 1 : v[n] = fs[n]
      /\ Line!Begins(v[Len(v)], fs[Len(v)])
  BY Zenon DEF LineCut
<1>4. /\ fs \in Seq(Seq(LineInk)) /\ L \in Nat /\ Len(fs) = L + 10
      /\ \A n \in 1 .. L + 10 : fs[n] # << >>
      /\ \A n \in 7 .. L + 6 : fs[n] # <<"-">>
  BY Zenon DEF LineLaid
<1>5. DOMAIN v = 1 .. Len(v) /\ Len(v) \in Nat /\ DOMAIN fs = 1 .. L + 10
  BY <1>3, <1>4
<1>6. d \in LineEnds(v) /\ d \in Nat
  <2>1. LineEnds(v) \in SUBSET Nat
    BY <1>5 DEF LineEnds
  <2>2. PICK n \in LineEnds(v) : \A k \in LineEnds(v) : n <= k
    BY <1>1, <2>1, Least, Zenon
  <2>3. d = n
    BY <2>1, <2>2, LineLeast, Zenon
  <2> QED
    BY <2>1, <2>2, <2>3
<1>7. d \in 1 .. Len(v) /\ d > 6 /\ v[d] = <<"-">>
  BY <1>5, <1>6, Zenon DEF LineEnds
<1>8. Len(v) = d + 3
  BY <1>1, Zenon DEF LineSound
<1> HIDE DEF d
<1>9. d = D
  <2>1. d \in 1 .. Len(v) - 1
    BY <1>6, <1>7, <1>8
  <2>2. fs[d] = <<"-">>
    BY <1>3, <1>7, <2>1, Zenon
  <2>3. d \notin 7 .. L + 6
    BY <1>4, <2>2, Zenon
  <2>4. d + 3 <= L + 10
    BY <1>3, <1>4, <1>8
  <2>5. d \in Nat /\ d > 6 /\ L \in Nat
    BY <1>4, <1>6, <1>7, Zenon
  <2> QED
    BY <2>3, <2>4, <2>5
<1>10. /\ Len(v) = D + 3 /\ D \in Nat /\ D + 3 = L + 10 /\ D + 3 \in 1 .. D + 3
       /\ Len(v) - 1 = D + 2
  BY <1>4, <1>8, <1>9
<1> HIDE DEF D
<1>11. \A n \in 1 .. D + 2 : v[n] = fs[n]
  BY <1>3, <1>10, Zenon
<1>12. v[D + 3] # << >> /\ Line!Begins(v[D + 3], fs[D + 3])
  <2>1. \A n \in 1 .. D + 3 : v[n] # << >>
    BY <1>1, <1>5, <1>10, Zenon DEF LineSound
  <2> QED
    BY <1>3, <1>10, <2>1, Zenon
<1>13. LineEnds(fs) # {} /\ Line!Least(LineEnds(fs)) = D
  BY LineEndsAt, Zenon DEF D
<1>14. LineSound(fs, D)
  <2>1. /\ fs[1] = v[1] /\ fs[2] = v[2] /\ fs[3] = v[3] /\ fs[4] = v[4] /\ fs[5] = v[5]
        /\ fs[D + 2] = v[D + 2]
    <3>1. /\ 1 \in 1 .. D + 2 /\ 2 \in 1 .. D + 2 /\ 3 \in 1 .. D + 2 /\ 4 \in 1 .. D + 2
          /\ 5 \in 1 .. D + 2 /\ D + 2 \in 1 .. D + 2
      BY <1>6, <1>7, <1>9
    <3> QED
      BY <1>11, <3>1, Zenon
  <2>2. Len(fs) = D + 3 /\ \A n \in DOMAIN fs : fs[n] # << >>
    BY <1>4, <1>5, <1>10, Zenon
  <2> QED
    BY <1>1, <1>9, <2>1, <2>2, Zenon DEF LineSound
<1>15. Line!Taken(fs) = Line!Is(LineEntry(fs, D))
  BY <1>13, <1>14, LineTakenIs, Zenon
<1> QED
  BY <1>1, <1>2, <1>9, <1>11, <1>12, <1>15, Zenon DEF D

LEMMA LineCutSeen ==
    ASSUME mount \in Line!Mounts, line \in Seq(LineChar) PROVE Line!CutOffIsSeen
<1> DEFINE fs == Line!Fields(mount)
           L == Len(mount.optional)
           d == L + 7
           v == Line!Split(line, " ")
           cut == Line!parse_mount(line).value
           whole == Line!parse_mount(Line!Line(mount)).value
<1>1. SUFFICES ASSUME Line!Begins(line, Line!Line(mount)), Line!parse_mount(line).ok
               PROVE  /\ Line!parse_mount(Line!Line(mount)).ok
                      /\ cut.super # << >> /\ Line!Begins(cut.super, whole.super)
                      /\ [cut EXCEPT !.super = whole.super] = whole
  BY Zenon DEF Line!CutOffIsSeen
<1>2. LineWritten(mount)
  BY LineMounts, Zenon
<1>3. LineLaid(fs, mount, L)
  BY <1>2, LineFields, Zenon
<1>4. LineCut(v, fs, LineChar)
  BY <1>1, <1>2, LineRuns, Zenon
<1>5. Line!parse_mount(line) = Line!Taken(v)
  BY Zenon DEF Line!parse_mount
<1>6. Line!parse_mount(Line!Line(mount)) = Line!Taken(fs)
  BY <1>2, LineParsed, Zenon
<1>7. L \in Nat
  BY <1>3, Zenon DEF LineLaid
<1> HIDE DEF fs, L, v
<1>8. /\ Line!Taken(v) = Line!Is(LineEntry(v, d)) /\ LineSound(v, d)
      /\ Line!Taken(fs) = Line!Is(LineEntry(fs, d))
      /\ \A n \in 1 .. d + 2 : v[n] = fs[n]
      /\ v[d + 3] # << >> /\ Line!Begins(v[d + 3], fs[d + 3])
  BY <1>1, <1>3, <1>4, <1>5, LineCutTaken, Zenon
<1>9. \A x : Line!Is(x).ok /\ Line!Is(x).value = x
  BY DEF Line!Is
<1>10. cut = LineEntry(v, d) /\ whole = LineEntry(fs, d) /\ Line!parse_mount(Line!Line(mount)).ok
  BY <1>5, <1>6, <1>8, <1>9, Zenon
<1> HIDE DEF cut, whole
<1>11. /\ fs[3] = v[3] /\ fs[4] = v[4] /\ fs[5] = v[5] /\ fs[6] = v[6]
       /\ fs[d + 1] = v[d + 1] /\ fs[d + 2] = v[d + 2]
  <2>1. /\ 3 \in 1 .. d + 2 /\ 4 \in 1 .. d + 2 /\ 5 \in 1 .. d + 2 /\ 6 \in 1 .. d + 2
        /\ d + 1 \in 1 .. d + 2 /\ d + 2 \in 1 .. d + 2
    BY <1>7
  <2> HIDE DEF d
  <2> QED
    BY <1>8, <2>1, Zenon
<1> HIDE DEF d
<1> DEFINE a == Line!device_number(v[3]).value
           b == Line!unescape(v[4]).value
           c == Line!unescape(v[5]).value
           e == Line!unescape(v[d + 2]).value
           f == v[6]
           t == v[d + 1]
           R(x) == LineRecord(a, b, c, f, t, e, x)
<1>12. cut = R(v[d + 3]) /\ whole = R(fs[d + 3])
  BY <1>10, <1>11, Zenon DEF LineEntry
<1> HIDE DEF a, b, c, e, f, t
<1>13. ASSUME NEW x, NEW y PROVE R(x).super = x /\ [R(x) EXCEPT !.super = y] = R(y)
  BY DEF LineRecord
<1> HIDE DEF R
<1>14. cut.super = v[d + 3] /\ whole.super = fs[d + 3]
  BY <1>12, <1>13, Zenon
<1>15. [cut EXCEPT !.super = whole.super] = whole
  BY <1>12, <1>13, <1>14
<1> QED
  BY <1>8, <1>10, <1>14, <1>15, Zenon

LineInv == mount \in Line!Mounts /\ line \in Seq(LineChar)

LEMMA LineInitially == ASSUME Line!Init PROVE LineInv
<1>1. mount \in Line!Mounts /\ line = Line!Line(mount)
  BY Zenon DEF Line!Init
<1>2. line \in Seq(LineChar)
  BY <1>1, LineMounts, LineIsText, Zenon
<1> QED
  BY <1>1, <1>2, Zenon DEF LineInv

LEMMA LineStep == ASSUME LineInv, Line!Next PROVE LineInv'
<1>1. mount' = mount /\ mount \in Line!Mounts /\ line \in Seq(LineChar)
  BY Zenon DEF LineInv, Line!Next, Line!Damage
<1>2. \/ \E n \in 0 .. Len(line) - 1 : line' = SubSeq(line, 1, n)
      \/ \E n \in DOMAIN line, c \in {" ", "-", "9"} : line' = [line EXCEPT ![n] = c]
  BY Zenon DEF Line!Next, Line!Damage
<1>3. ASSUME NEW n \in 0 .. Len(line) - 1, line' = SubSeq(line, 1, n)
      PROVE  line' \in Seq(LineChar)
  <2>1. n \in 0 .. Len(line) /\ 1 \in Nat \ {0}
    BY <1>1
  <2> QED
    BY <1>1, <1>3, <2>1, PartIs, Zenon
<1>4. ASSUME NEW n \in DOMAIN line, NEW c \in {" ", "-", "9"}, line' = [line EXCEPT ![n] = c]
      PROVE  line' \in Seq(LineChar)
  <2>1. c \in LineChar
    <3>1. c \in LineMarks
      BY DEF LineMarks
    <3> QED
      BY <3>1, Zenon DEF LineChar
  <2>2. [line EXCEPT ![n] = c] \in Seq(LineChar)
    <3>1. line \in Seq(LineChar)
      BY <1>1, Zenon
    <3>2. DOMAIN line = 1 .. Len(line)
      BY <3>1, LenProperties, Zenon
    <3>3. n \in 1 .. Len(line)
      BY <3>2, Zenon
    <3> QED
      BY <2>1, <3>1, <3>3, ExceptSeq, Zenon
  <2> QED
    BY <1>4, <2>2, Zenon
<1>5. line' \in Seq(LineChar)
  BY <1>2, <1>3, <1>4, Zenon
<1> QED
  BY <1>1, <1>5, Zenon DEF LineInv

LEMMA LineStutters == ASSUME LineInv, UNCHANGED lineVars PROVE LineInv'
BY Zenon DEF LineInv, lineVars

LEMMA LineIsGood ==
    ASSUME LineInv
    PROVE  Line!LineIsTheMount /\ Line!WritableIsRw /\ Line!CutOffIsSeen
BY LineTheMount, LineMayBeWritten, LineCutSeen, Zenon DEF LineInv

-----------------------------------------------------------------------------
(* One part at a time.                                                       *)

RulesInv ==
    /\ part \in Parts
    /\ part = "text" => TextInv
    /\ part = "url" => UrlInv
    /\ part = "name" => NameInv
    /\ part = "line" => LineInv
    /\ part = "path" => PathInv

LEMMA RulesInitially == ASSUME Init PROVE RulesInv
<1>1. /\ part \in Parts
      /\ part = "text" => Text!Init
      /\ part = "url" => Url!Init
      /\ part = "name" => Name!Init
      /\ part = "line" => Line!Init
      /\ part = "path" => Path!Init
  BY Zenon DEF Init
<1> QED
  BY <1>1, TextInitially, UrlInitially, NameInitially, LineInitially, PathInitially,
     Zenon DEF RulesInv

LEMMA RulesStep ==
    ASSUME RulesInv, [Next]_vars
    PROVE  RulesInv'
<1>1. CASE Next
  <2>1. part' = part
    BY <1>1, Zenon DEF Next, Only
  <2>2. /\ part = "text" => Text!Next
        /\ part = "url" => Url!Next
        /\ part = "name" => Name!Next
        /\ part = "line" => Line!Next
        /\ part = "path" => Path!Next
    BY <1>1, Zenon DEF Next
  <2>3. part = "text" => TextInv'
    BY <2>2, TextStep, Zenon DEF RulesInv
  <2>4. part = "url" => UrlInv'
    BY <2>2, UrlStep, Zenon DEF RulesInv
  <2>5. part = "name" => NameInv'
    BY <2>2, NameStep, Zenon DEF RulesInv
  <2>6. part = "line" => LineInv'
    BY <2>2, LineStep, Zenon DEF RulesInv
  <2>7. part = "path" => PathInv'
    BY <2>2, PathStep, Zenon DEF RulesInv
  <2> QED
    BY <2>1, <2>3, <2>4, <2>5, <2>6, <2>7, Zenon DEF RulesInv, Parts
<1>2. CASE UNCHANGED vars
  <2>1. part' = part /\ UNCHANGED textVars /\ UNCHANGED urlVars /\ UNCHANGED nameVars
        /\ UNCHANGED lineVars /\ UNCHANGED pathVars
    BY <1>2, Zenon DEF vars
  <2> QED
    BY <2>1, TextStutters, UrlStutters, NameStutters, LineStutters, PathStutters,
       Zenon DEF RulesInv, Parts
<1> QED
  BY <1>1, <1>2, Zenon

LEMMA RulesInvariant == Spec => []RulesInv
<1>1. Init => RulesInv
  BY RulesInitially, Zenon
<1>2. RulesInv /\ [Next]_vars => RulesInv'
  BY RulesStep, Zenon
<1> QED
  BY <1>1, <1>2, PTL DEF Spec

(* Rules that several places apply to the same text agree, and read it right *)
(* up to its last byte: UTF-8 of positions and device names, addresses and    *)
(* the requests built from them, names in DNS packets, lines of the mount     *)
(* table, the configured root.                                               *)
THEOREM RulesAlwaysAgree == Spec => []RulesAgree
<1>1. ASSUME RulesInv PROVE RulesAgree
  <2>1. part = "text" =>
            /\ Text!PositionRulesAgree /\ Text!DeviceNameIsSendable
            /\ Text!DeviceIdRulesAgree /\ Text!DecoderLosesNothing
    BY <1>1, TextIsGood, Zenon DEF RulesInv
  <2>2. part = "url" =>
            /\ Url!SavedUrlIsUsable /\ Url!RequestsFit
            /\ Url!PartsFit /\ Url!OneSlashBeforeEndpoint
    BY <1>1, UrlIsGood, Zenon DEF RulesInv
  <2>3. part = "name" => Name!TypeOK /\ Name!ReadsInside /\ Name!NextFollowsName
    BY <1>1, NameIsGood, Zenon DEF RulesInv
  <2>4. part = "line" => Line!LineIsTheMount /\ Line!WritableIsRw /\ Line!CutOffIsSeen
    BY <1>1, LineIsGood, Zenon DEF RulesInv
  <2>5. part = "path" =>
            /\ Path!TypeOK /\ Path!AcceptsNormalPaths
            /\ Path!ReadersAgree /\ Path!LocationsFit
    BY <1>1, PathIsGood, Zenon DEF RulesInv
  <2> QED
    BY <2>1, <2>2, <2>3, <2>4, <2>5, Zenon DEF RulesAgree
<1> QED
  BY <1>1, RulesInvariant, PTL

=============================================================================
