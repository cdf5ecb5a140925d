---------------------------- MODULE ConfigProofs ----------------------------
(***************************************************************************)
(* Theorems about Config, for every set of identifiers, addresses and      *)
(* texts and for files of any lines and any length: the maps that load()   *)
(* fills line by line are what the file, read as a whole, says.            *)
(***************************************************************************)
EXTENDS Config, SequenceTheorems, WellFoundedInduction, TLAPS

AllAttributes == DeviceAttributes \cup PointAttributes

(***************************************************************************)
(* A line of its kind is the one that counts for the attribute, until the  *)
(* next such line.                                                         *)
(***************************************************************************)
Decides(line, attribute) ==
    line.attribute = attribute /\ Accepted(attribute, line.text)

-----------------------------------------------------------------------------
(* A file with one more line. *)

(***************************************************************************)
(* What the lines of a kind are then.                                      *)
(***************************************************************************)
LEMMA Grown ==
  ASSUME NEW file \in Seq(Lines), NEW line \in Lines
  PROVE  LET g == Append(file, line)
             m == Len(file) + 1
         IN  /\ Len(file) \in Nat
             /\ g \in Seq(Lines)
             /\ Len(g) = m
             /\ DOMAIN file = 1..Len(file)
             /\ DOMAIN g = 1..Len(file) \cup {m}
             /\ \A k \in 1..Len(file) : g[k] = file[k]
             /\ g[m] = line
             /\ m \notin 1..Len(file)
             /\ \A k \in 1..Len(file) : k < m
<1>1. /\ Len(file) \in Nat
      /\ DOMAIN file = 1..Len(file)
      /\ Append(file, line) \in Seq(Lines)
      /\ Len(Append(file, line)) = Len(file) + 1
      /\ \A k \in 1..Len(file) : Append(file, line)[k] = file[k]
      /\ Append(file, line)[Len(file) + 1] = line
  BY AppendProperties, LenProperties
<1>2. DOMAIN Append(file, line) = 1..(Len(file) + 1)
  BY <1>1, LenProperties
<1>3. 1..(Len(file) + 1) = 1..Len(file) \cup {Len(file) + 1}
  BY <1>1
<1> QED BY <1>1, <1>2, <1>3

(***************************************************************************)
(* The new line is one more of its kind, and of its device.                *)
(***************************************************************************)
LEMMA GrownPositions ==
  ASSUME NEW file \in Seq(Lines), NEW line \in Lines, NEW kinds
  PROVE  /\ Positions(file, kinds) \subseteq 1..Len(file)
         /\ Positions(Append(file, line), kinds) =
              Positions(file, kinds) \cup (IF line.kind \in kinds THEN {Len(file) + 1} ELSE {})
<1> DEFINE g == Append(file, line)
           m == Len(file) + 1
<1>1. /\ DOMAIN file = 1..Len(file)
      /\ DOMAIN g = 1..Len(file) \cup {m}
      /\ \A k \in 1..Len(file) : g[k] = file[k]
      /\ g[m] = line
  BY Grown
<1> HIDE DEF g, m
<1>2. Positions(g, kinds) = Positions(file, kinds) \cup (IF line.kind \in kinds THEN {m} ELSE {})
  BY <1>1 DEF Positions
<1>3. Positions(file, kinds) \subseteq 1..Len(file)
  BY <1>1 DEF Positions
<1> QED BY <1>2, <1>3 DEF g, m

(***************************************************************************)
(* Likewise the lines of one device.                                       *)
(***************************************************************************)
LEMMA GrownLines ==
  ASSUME NEW file \in Seq(Lines), NEW line \in Lines, NEW kinds, NEW id
  PROVE  /\ LinesOf(file, kinds, id) \subseteq 1..Len(file)
         /\ LinesOf(Append(file, line), kinds, id) =
              LinesOf(file, kinds, id)
                \cup (IF line.kind \in kinds /\ line.id = id THEN {Len(file) + 1} ELSE {})
<1> DEFINE g == Append(file, line)
           m == Len(file) + 1
<1>1. /\ \A k \in 1..Len(file) : g[k] = file[k]
      /\ g[m] = line
      /\ m \notin 1..Len(file)
  BY Grown
<1>2. /\ Positions(file, kinds) \subseteq 1..Len(file)
      /\ Positions(g, kinds) = Positions(file, kinds) \cup (IF line.kind \in kinds THEN {m} ELSE {})
  BY GrownPositions
<1> HIDE DEF g, m
<1>3. LinesOf(g, kinds, id) =
        LinesOf(file, kinds, id) \cup (IF line.kind \in kinds /\ line.id = id THEN {m} ELSE {})
  BY <1>1, <1>2 DEF LinesOf
<1>4. LinesOf(file, kinds, id) \subseteq 1..Len(file)
  BY <1>2 DEF LinesOf
<1> QED BY <1>3, <1>4 DEF g, m

(***************************************************************************)
(* Lines have numbers: of some of them there is a first one.               *)
(***************************************************************************)
LEMMA FirstExists ==
  ASSUME NEW S \in SUBSET Nat, S # {}
  PROVE  \E x \in S : \A y \in S : x <= y
<1>1. PICK x \in S : \A y \in S : <<y, x>> \notin OpToRel(<, Nat)
  <2>1. IsWellFoundedOn(OpToRel(<, Nat), Nat)
    BY NatLessThanWellFounded
  <2> DEFINE R == OpToRel(<, Nat)
  <2> HIDE DEF R
  <2> QED BY <2>1, WFMin DEF R
<1>2. \A y \in S : ~(y < x)
  BY <1>1 DEF OpToRel
<1> QED BY <1>2

(***************************************************************************)
(* Lines end somewhere: of some of them there is a last one.               *)
(***************************************************************************)
LEMMA LastExists ==
  ASSUME NEW n \in Nat, NEW S \in SUBSET (1..n), S # {}
  PROVE  \E x \in S : \A y \in S : y <= x
<1> DEFINE T == {n - k : k \in S}
<1>1. T \in SUBSET Nat /\ T # {}
  <2>1. \A k \in S : n - k \in Nat
    OBVIOUS
  <2>2. PICK k \in S : TRUE
    OBVIOUS
  <2>3. n - k \in T
    OBVIOUS
  <2> QED BY <2>1, <2>3
<1> HIDE DEF T
<1>2. PICK t \in T : \A u \in T : t <= u
  BY <1>1, FirstExists
<1>3. PICK x \in S : t = n - x
  BY DEF T
<1>4. \A y \in S : n - y \in T
  BY DEF T
<1>5. \A y \in S : y <= x
  BY <1>2, <1>3, <1>4
<1> QED BY <1>5

(***************************************************************************)
(* The largest and the smallest of a set are what their names say.         *)
(***************************************************************************)
LEMMA MaxIs ==
  ASSUME NEW S \in SUBSET Int, NEW x \in S, \A y \in S : y <= x
  PROVE  Max(S) = x
<1>1. Max(S) \in S /\ \A y \in S : Max(S) >= y
  <2>1. \E z \in S : \A y \in S : z >= y
    BY SMT
  <2> QED BY <2>1, Zenon DEF Max
<1>2. Max(S) \in Int /\ Max(S) >= x /\ Max(S) <= x
  BY <1>1
<1> QED BY <1>2

(***************************************************************************)
(* Likewise the smallest.                                                  *)
(***************************************************************************)
LEMMA MinIs ==
  ASSUME NEW S \in SUBSET Int, NEW x \in S, \A y \in S : x <= y
  PROVE  Min(S) = x
<1>1. Min(S) \in S /\ \A y \in S : Min(S) <= y
  <2>1. \E z \in S : \A y \in S : z <= y
    BY SMT
  <2> QED BY <2>1, Zenon DEF Min
<1>2. Min(S) \in Int /\ Min(S) >= x /\ Min(S) <= x
  BY <1>1
<1> QED BY <1>2

(***************************************************************************)
(* The last of some lines is one of them.                                  *)
(***************************************************************************)
LEMMA MaxOfLines ==
  ASSUME NEW n \in Nat, NEW S \in SUBSET (1..n), S # {}
  PROVE  Max(S) \in S
<1>1. PICK x \in S : \A y \in S : y <= x
  BY LastExists
<1>2. S \in SUBSET Int
  OBVIOUS
<1> QED BY <1>1, <1>2, MaxIs

(***************************************************************************)
(* Older lines mean what they meant: all of them with an accepted text are *)
(* the same, and so is the last of them.                                   *)
(***************************************************************************)
LEMMA LastOfOld ==
  ASSUME NEW file \in Seq(Lines), NEW line \in Lines, NEW S \in SUBSET (1..Len(file)),
         NEW a, NEW default
  PROVE  LastOf(Append(file, line), S, a, default) = LastOf(file, S, a, default)
<1> DEFINE g == Append(file, line)
           good(f) == {k \in S : f[k].attribute = a /\ Accepted(a, f[k].text)}
<1>1. (\A k \in S : g[k] = file[k]) /\ Len(file) \in Nat
  <2>1. (\A k \in 1..Len(file) : g[k] = file[k]) /\ Len(file) \in Nat
    BY Grown
  <2> HIDE DEF g
  <2> QED BY <2>1
<1> HIDE DEF g
<1>2. good(g) = good(file)
  BY <1>1
<1>3. good(file) # {} => g[Max(good(file))] = file[Max(good(file))]
  <2> SUFFICES ASSUME good(file) # {} PROVE Max(good(file)) \in S
    BY <1>1
  <2>1. good(file) \in SUBSET S /\ good(file) \in SUBSET (1..Len(file))
    OBVIOUS
  <2> HIDE DEF good
  <2> QED BY <1>1, <2>1, MaxOfLines
<1> HIDE DEF good
<1>4. LastOf(g, S, a, default) =
        IF good(g) = {} THEN default ELSE Value(a, g[Max(good(g))].text)
  BY DEF LastOf, good
<1>5. LastOf(file, S, a, default) =
        IF good(file) = {} THEN default ELSE Value(a, file[Max(good(file))].text)
  BY DEF LastOf, good
<1>6. CASE good(file) = {}
  BY <1>2, <1>4, <1>5, <1>6, Zenon DEF g
<1>7. CASE good(file) # {}
  <2>1. LastOf(g, S, a, default) = Value(a, g[Max(good(file))].text)
    BY <1>2, <1>4, <1>7, Zenon
  <2>2. LastOf(file, S, a, default) = Value(a, file[Max(good(file))].text)
    BY <1>5, <1>7, Zenon
  <2> QED BY <2>1, <2>2, <1>3, <1>7, Zenon DEF g
<1> QED BY <1>6, <1>7

(***************************************************************************)
(* The new line decides if it is about the attribute and its text is       *)
(* accepted, and else changes nothing.                                     *)
(***************************************************************************)
LEMMA LastOfNew ==
  ASSUME NEW file \in Seq(Lines), NEW line \in Lines, NEW S \in SUBSET (1..Len(file)),
         NEW T, T = S \cup {Len(file) + 1}, NEW a, NEW default
  PROVE  LastOf(Append(file, line), T, a, default) =
           IF Decides(line, a) THEN Value(a, line.text) ELSE LastOf(file, S, a, default)
<1> DEFINE g == Append(file, line)
           m == Len(file) + 1
           good == {k \in T : g[k].attribute = a /\ Accepted(a, g[k].text)}
<1>1. /\ Len(file) \in Nat
      /\ g[m] = line
      /\ \A k \in S : k < m
  <2>1. g[m] = line /\ Len(file) \in Nat
    BY Grown
  <2>2. \A k \in 1..Len(file) : k < m
    BY <2>1
  <2> HIDE DEF g
  <2> QED BY <2>1, <2>2
<1>2. LastOf(g, T, a, default) = IF good = {} THEN default ELSE Value(a, g[Max(good)].text)
  BY DEF LastOf
<1>3. CASE Decides(line, a)
  <2> HIDE DEF g
  <2>1. m \in good
    BY <1>1, <1>3 DEF Decides
  <2>2. good \in SUBSET Int /\ \A k \in good : k <= m
    <3>1. \A k \in T : k \in Int /\ k <= m
      BY <1>1
    <3> QED BY <3>1
  <2> HIDE DEF good, m
  <2>3. Max(good) = m
    BY <2>1, <2>2, MaxIs
  <2>4. LastOf(g, T, a, default) = Value(a, line.text)
    BY <2>1, <2>3, <1>1, <1>2
  <2> QED BY <2>4, <1>3 DEF g, m
<1>4. CASE ~Decides(line, a)
  <2> DEFINE old == {k \in S : g[k].attribute = a /\ Accepted(a, g[k].text)}
  <2> HIDE DEF g
  <2>1. good = old
    BY <1>1, <1>4 DEF Decides
  <2>2. LastOf(g, S, a, default) = IF old = {} THEN default ELSE Value(a, g[Max(old)].text)
    BY DEF LastOf
  <2>3. LastOf(g, S, a, default) = LastOf(file, S, a, default)
    BY LastOfOld DEF g
  <2> HIDE DEF good, old, m
  <2>4. LastOf(g, T, a, default) = LastOf(file, S, a, default)
    BY <2>1, <2>2, <2>3, <1>2
  <2> QED BY <2>4, <1>4 DEF g, m
<1> QED BY <1>3, <1>4

-----------------------------------------------------------------------------
(* Values. *)

(***************************************************************************)
(* The parts of a line, by its kind.                                       *)
(***************************************************************************)
LEMMA LineFields ==
  ASSUME NEW line \in Lines
  PROVE  /\ line.kind \in {"global", "device", "devicePoint", "legacyPoint", "badDevicePoint",
                           "badDevice", "badLegacyPoint"}
         /\ line.kind = "global" => line.attribute \in ClientAttributes
         /\ line.kind = "device" => line.attribute \in DeviceAttributes
         /\ line.kind \in {"devicePoint", "legacyPoint"} => line.attribute \in PointAttributes
         /\ line.kind \in {"global", "device", "devicePoint", "legacyPoint"} => line.text \in Texts
         /\ line.kind \in OfDevice => line.id \in Ids
<1>1. line \in Line
  BY ConfigAssumption
<1> QED BY <1>1 DEF Line, OfDevice

(***************************************************************************)
(* An assignment takes the text that its reader accepts.                   *)
(***************************************************************************)
LEMMA ConvertIs ==
  ASSUME NEW a \in AllAttributes, NEW text \in Texts, NEW old
  PROVE  Convert(a, text, old) = IF Accepted(a, text) THEN Value(a, text) ELSE old
BY DEF Convert, ToInt, ToDouble, UInt16Of, Accepted, Value, AllAttributes, DeviceAttributes, ClientAttributes,
       PointAttributes

(***************************************************************************)
(* So an assignment changes the attribute that its line decides.           *)
(***************************************************************************)
LEMMA ApplyIs ==
  ASSUME NEW A \in SUBSET AllAttributes, NEW r, r = [a \in A |-> r[a]],
         NEW line, line.attribute \in A, line.text \in Texts
  PROVE  Apply(r, line) =
           [a \in A |-> IF Decides(line, a) THEN Value(a, line.text) ELSE r[a]]
<1>1. Apply(r, line) =
        [a \in A |-> IF line.attribute = a THEN Convert(a, line.text, r[a]) ELSE r[a]]
  BY DEF Apply
<1>2. \A a \in A : (IF line.attribute = a THEN Convert(a, line.text, r[a]) ELSE r[a]) =
                   (IF Decides(line, a) THEN Value(a, line.text) ELSE r[a])
  BY ConvertIs DEF Decides
<1> QED BY <1>1, <1>2

(***************************************************************************)
(* The built-in options and points are functions of their attributes.      *)
(***************************************************************************)
LEMMA DefaultsAre ==
  /\ DefaultClient = [a \in ClientAttributes |-> DefaultClient[a]]
  /\ DefaultPoint = [a \in PointAttributes |-> DefaultPoint[a]]
<1>1. DefaultClient = [a \in ClientAttributes |-> DefaultClient[a]]
  BY DEF DefaultClient, ClientAttributes
<1>2. DefaultPoint = [a \in PointAttributes |-> DefaultPoint[a]]
  BY DEF DefaultPoint, PointAttributes
<1> QED BY <1>1, <1>2

(***************************************************************************)
(* So is a new device.                                                     *)
(***************************************************************************)
LEMMA MakeDeviceIs ==
  ASSUME NEW d
  PROVE  MakeDevice(d) =
           [a \in DeviceAttributes |->
              CASE a = "enabled" -> TRUE [] a = "commonAddress" -> 1 [] OTHER -> d[a]]
<1>1. MakeDevice(d) = [a \in DeviceAttributes |-> MakeDevice(d)[a]]
  BY DEF MakeDevice, DeviceAttributes, ClientAttributes
<1>2. /\ MakeDevice(d)["enabled"] = TRUE
      /\ MakeDevice(d)["commonAddress"] = 1
      /\ \A a \in ClientAttributes : MakeDevice(d)[a] = d[a]
  BY DEF MakeDevice, ClientAttributes
<1> QED BY <1>1, <1>2 DEF DeviceAttributes, ClientAttributes

-----------------------------------------------------------------------------
(* What a new line makes of the options for all. *)

(***************************************************************************)
(* An option for all changes by a line that decides it, for those who look *)
(* below that line.                                                        *)
(***************************************************************************)
LEMMA GlobalGrown ==
  ASSUME NEW file \in Seq(Lines), NEW line \in Lines, NEW a
  PROVE  /\ Global(Append(file, line), a, Len(file) + 2) =
              IF line.kind = "global" /\ Decides(line, a)
              THEN Value(a, line.text) ELSE Global(file, a, Len(file) + 1)
         /\ \A first \in 1..(Len(file) + 1) :
              Global(Append(file, line), a, first) = Global(file, a, first)
<1> DEFINE g == Append(file, line)
           m == Len(file) + 1
           S == Positions(file, {"global"})
           above(first) == {k \in S : k < first}
<1>1. /\ S \in SUBSET (1..Len(file))
      /\ Positions(g, {"global"}) = S \cup (IF line.kind = "global" THEN {m} ELSE {})
      /\ Len(file) \in Nat
  BY GrownPositions, Grown
<1>2. ASSUME NEW first \in 1..m
      PROVE  Global(g, a, first) = Global(file, a, first)
  <2>1. {k \in Positions(g, {"global"}) : k < first} = above(first)
    BY <1>1
  <2>2. above(first) \in SUBSET (1..Len(file))
    BY <1>1
  <2> HIDE DEF above
  <2>3. LastOf(g, above(first), a, DefaultClient[a]) =
        LastOf(file, above(first), a, DefaultClient[a])
    BY <2>2, LastOfOld
  <2>4. Global(file, a, first) = LastOf(file, above(first), a, DefaultClient[a])
    BY DEF Global, above
  <2>5. Global(g, a, first) = LastOf(g, above(first), a, DefaultClient[a])
    BY <2>1 DEF Global
  <2> QED BY <2>3, <2>4, <2>5
<1>3. Global(file, a, m) = LastOf(file, S, a, DefaultClient[a])
  <2>1. above(m) = S
    BY <1>1
  <2> QED BY <2>1 DEF Global
<1>4. Global(g, a, m + 1) = LastOf(g, Positions(g, {"global"}), a, DefaultClient[a])
  <2>1. {k \in Positions(g, {"global"}) : k < m + 1} = Positions(g, {"global"})
    BY <1>1
  <2> QED BY <2>1 DEF Global
<1>5. Global(g, a, m + 1) =
        IF line.kind = "global" /\ Decides(line, a)
        THEN Value(a, line.text) ELSE Global(file, a, m)
  <2>1. CASE line.kind = "global"
    <3>1. LastOf(g, S \cup {m}, a, DefaultClient[a]) =
            IF Decides(line, a) THEN Value(a, line.text)
            ELSE LastOf(file, S, a, DefaultClient[a])
      <4>1. S \in SUBSET (1..Len(file))
        BY <1>1
      <4> DEFINE T == S \cup {m}
                 default == DefaultClient[a]
      <4>2. T = S \cup {Len(file) + 1}
        OBVIOUS
      <4> HIDE DEF S, T, default
      <4>3. LastOf(g, T, a, default) =
              IF Decides(line, a) THEN Value(a, line.text)
              ELSE LastOf(file, S, a, default)
        BY <4>1, <4>2, LastOfNew
      <4> QED BY <4>3 DEF T, default
    <3>2. Positions(g, {"global"}) = S \cup {m}
      BY <1>1, <2>1
    <3> HIDE DEF g, m, S
    <3> QED BY <3>1, <3>2, <1>3, <1>4, <2>1
  <2>2. CASE line.kind # "global"
    <3>1. LastOf(g, S, a, DefaultClient[a]) = LastOf(file, S, a, DefaultClient[a])
      BY <1>1, LastOfOld
    <3>2. Positions(g, {"global"}) = S
      BY <1>1, <2>2
    <3> HIDE DEF g, m, S
    <3> QED BY <3>1, <3>2, <1>3, <1>4, <2>2
  <2> QED BY <2>1, <2>2
<1>6. m + 1 = Len(file) + 2
  BY <1>1
<1> QED BY <1>2, <1>5, <1>6

-----------------------------------------------------------------------------
(* What a new line makes of a device. *)

(***************************************************************************)
(* The last line of a kind and of a device, with the new line.             *)
(***************************************************************************)
LEMMA LastLineGrown ==
  ASSUME NEW file \in Seq(Lines), NEW line \in Lines, NEW kinds, NEW id, NEW a, NEW default
  PROVE  LastOf(Append(file, line), LinesOf(Append(file, line), kinds, id), a, default) =
           IF line.kind \in kinds /\ line.id = id /\ Decides(line, a)
           THEN Value(a, line.text) ELSE LastOf(file, LinesOf(file, kinds, id), a, default)
<1> DEFINE g == Append(file, line)
           S == LinesOf(file, kinds, id)
           T == LinesOf(g, kinds, id)
<1>1. /\ S \in SUBSET (1..Len(file))
      /\ T = S \cup (IF line.kind \in kinds /\ line.id = id THEN {Len(file) + 1} ELSE {})
  BY GrownLines
<1> HIDE DEF S, T
<1>2. CASE line.kind \in kinds /\ line.id = id
  <2>1. T = S \cup {Len(file) + 1}
    BY <1>1, <1>2
  <2>2. LastOf(g, T, a, default) =
          IF Decides(line, a) THEN Value(a, line.text) ELSE LastOf(file, S, a, default)
    BY <1>1, <2>1, LastOfNew
  <2> HIDE DEF g
  <2> QED BY <2>2, <1>2 DEF g, S, T
<1>3. CASE ~(line.kind \in kinds /\ line.id = id)
  <2>1. T = S
    BY <1>1, <1>3
  <2>2. LastOf(g, S, a, default) = LastOf(file, S, a, default)
    BY <1>1, LastOfOld
  <2> HIDE DEF g
  <2> QED BY <2>1, <2>2, <1>3 DEF g, S, T
<1> QED BY <1>2, <1>3

(***************************************************************************)
(* An option of a device changes only by a line of its own.                *)
(***************************************************************************)
LEMMA DeviceGrown ==
  ASSUME NEW file \in Seq(Lines), NEW line \in Lines, NEW id, NEW first \in 1..(Len(file) + 1)
  PROVE  DeviceAsWritten(Append(file, line), id, first) =
           [a \in DeviceAttributes |->
              IF line.kind = "device" /\ line.id = id /\ Decides(line, a)
              THEN Value(a, line.text) ELSE DeviceAsWritten(file, id, first)[a]]
<1> DEFINE g == Append(file, line)
           default(f, a) == CASE a = "enabled" -> TRUE
                              [] a = "commonAddress" -> 1
                              [] OTHER -> Global(f, a, first)
<1> SUFFICES ASSUME NEW a \in DeviceAttributes
             PROVE  LastOf(g, LinesOf(g, {"device"}, id), a, default(g, a)) =
                      IF line.kind = "device" /\ line.id = id /\ Decides(line, a)
                      THEN Value(a, line.text)
                      ELSE LastOf(file, LinesOf(file, {"device"}, id), a, default(file, a))
  BY DEF DeviceAsWritten
<1>1. default(g, a) = default(file, a)
  BY GlobalGrown
<1> DEFINE d == default(file, a)
<1> HIDE DEF d
<1>2. LastOf(g, LinesOf(g, {"device"}, id), a, d) =
        IF line.kind \in {"device"} /\ line.id = id /\ Decides(line, a)
        THEN Value(a, line.text) ELSE LastOf(file, LinesOf(file, {"device"}, id), a, d)
  BY LastLineGrown
<1> HIDE DEF default, g
<1> QED BY <1>1, <1>2 DEF d

(***************************************************************************)
(* The first line of a device stays the first; without one, the new line   *)
(* may be it.                                                              *)
(***************************************************************************)
LEMMA FirstLineGrown ==
  ASSUME NEW file \in Seq(Lines), NEW line \in Lines, NEW id
  PROVE  LET old == LinesOf(file, OfDevice, id)
             new == LinesOf(Append(file, line), OfDevice, id)
         IN  /\ old # {} => /\ new # {}
                            /\ Min(new) = Min(old)
                            /\ Min(old) \in 1..(Len(file) + 1)
             /\ old = {} => IF line.kind \in OfDevice /\ line.id = id
                            THEN new # {} /\ Min(new) = Len(file) + 1
                            ELSE new = {}
<1> DEFINE old == LinesOf(file, OfDevice, id)
           new == LinesOf(Append(file, line), OfDevice, id)
           m == Len(file) + 1
<1>1. /\ old \in SUBSET (1..Len(file))
      /\ new = old \cup (IF line.kind \in OfDevice /\ line.id = id THEN {m} ELSE {})
      /\ Len(file) \in Nat
  BY GrownLines, Grown
<1> HIDE DEF old, new
<1>2. ASSUME old # {}
      PROVE  new # {} /\ Min(new) = Min(old) /\ Min(old) \in 1..m
  <2>1. old \in SUBSET Nat /\ old \in SUBSET Int /\ new \in SUBSET Int
    <3>1. (\A k \in 1..Len(file) : k \in Nat /\ k \in Int) /\ m \in Int
      BY <1>1
    <3>2. \A k \in old : k \in Nat /\ k \in Int
      BY <1>1, <3>1
    <3>3. \A k \in new : k \in old \/ k = m
      BY <1>1
    <3> QED BY <3>1, <3>2, <3>3
  <2>2. PICK x \in old : \A y \in old : x <= y
    BY <1>2, <2>1, FirstExists
  <2>3. x \in new /\ \A y \in new : x <= y
    BY <1>1, <2>1, <2>2
  <2>4. Min(old) = x /\ Min(new) = x
    BY <2>1, <2>2, <2>3, MinIs
  <2>5. x \in 1..m
    BY <1>1
  <2> QED BY <2>3, <2>4, <2>5
<1>3. ASSUME old = {}, line.kind \in OfDevice /\ line.id = id
      PROVE  new # {} /\ Min(new) = m
  <2>1. new = {m} /\ m \in Int
    BY <1>1, <1>3
  <2> QED BY <2>1, MinIs
<1>4. ASSUME old = {}, ~(line.kind \in OfDevice /\ line.id = id)
      PROVE  new = {}
  BY <1>1, <1>4
<1> QED BY <1>2, <1>3, <1>4 DEF old, new

(***************************************************************************)
(* A device gets its options when its first line is read.                  *)
(***************************************************************************)
LEMMA DeviceMade ==
  ASSUME NEW file \in Seq(Lines), NEW id, LinesOf(file, OfDevice, id) = {},
         NEW c, c = [a \in ClientAttributes |-> Global(file, a, Len(file) + 1)]
  PROVE  MakeDevice(c) = DeviceAsWritten(file, id, Len(file) + 1)
<1>1. LinesOf(file, {"device"}, id) = {}
  BY DEF LinesOf, Positions, OfDevice
<1>2. ASSUME NEW a, NEW default
      PROVE  LastOf(file, {}, a, default) = default
  BY DEF LastOf
<1> DEFINE made(a) == CASE a = "enabled" -> TRUE [] a = "commonAddress" -> 1 [] OTHER -> c[a]
           written(a) == CASE a = "enabled" -> TRUE
                           [] a = "commonAddress" -> 1
                           [] OTHER -> Global(file, a, Len(file) + 1)
<1>3. DeviceAsWritten(file, id, Len(file) + 1) = [a \in DeviceAttributes |-> written(a)]
  BY <1>1, <1>2 DEF DeviceAsWritten
<1>4. MakeDevice(c) = [a \in DeviceAttributes |-> made(a)]
  BY MakeDeviceIs
<1>5. \A a \in DeviceAttributes \ {"enabled", "commonAddress"} :
        c[a] = Global(file, a, Len(file) + 1)
  BY DEF DeviceAttributes
<1>6. ASSUME NEW a \in DeviceAttributes
      PROVE  made(a) = written(a)
  <2>1. CASE a \in {"enabled", "commonAddress"}
    BY <2>1
  <2>2. CASE a \notin {"enabled", "commonAddress"}
    BY <2>2, <1>5
  <2> QED BY <2>1, <2>2
<1> HIDE DEF made, written
<1> QED BY <1>3, <1>4, <1>6

-----------------------------------------------------------------------------
(* What a new line makes of points. *)

(***************************************************************************)
(* Put changes one key.                                                    *)
(***************************************************************************)
LEMMA PutIs ==
  ASSUME NEW map, NEW key, NEW value
  PROVE  \A k, default :
           Get(Put(map, key, value), k, default) =
             IF k = key THEN value ELSE Get(map, k, default)
BY DEF Get, Put

(***************************************************************************)
(* The points of older lines are as they were.                             *)
(***************************************************************************)
LEMMA PointsOld ==
  ASSUME NEW file \in Seq(Lines), NEW line \in Lines, NEW S \in SUBSET (1..Len(file))
  PROVE  PointsOf(Append(file, line), S) = PointsOf(file, S)
<1> DEFINE g == Append(file, line)
           own(f, address) == {k \in S : f[k].address = address}
<1>1. \A k \in S : g[k] = file[k]
  <2>1. \A k \in 1..Len(file) : g[k] = file[k]
    BY Grown
  <2> HIDE DEF g
  <2> QED BY <2>1
<1>2. \A address : own(g, address) = own(file, address)
  BY <1>1
<1> DEFINE A(f) == {f[k].address : k \in S}
<1>3. A(g) = A(file)
  BY <1>1
<1>4. \A address, a, default :
        LastOf(g, own(file, address), a, default) = LastOf(file, own(file, address), a, default)
  <2> TAKE address, a, default
  <2>1. own(file, address) \in SUBSET (1..Len(file))
    OBVIOUS
  <2> HIDE DEF own
  <2> QED BY <2>1, LastOfOld
<1> DEFINE point(f, address) ==
             [a \in PointAttributes |-> LastOf(f, own(f, address), a, DefaultPoint[a])]
<1> HIDE DEF own, g
<1>5. \A address : point(g, address) = point(file, address)
  BY <1>2, <1>4
<1>6. PointsOf(g, S) = [address \in A(g) |-> point(g, address)]
  BY DEF PointsOf, own
<1>7. PointsOf(file, S) = [address \in A(file) |-> point(file, address)]
  BY DEF PointsOf, own
<1> HIDE DEF A, point
<1>8. PointsOf(g, S) = PointsOf(file, S)
  BY <1>3, <1>5, <1>6, <1>7
<1> QED BY <1>8 DEF g

(***************************************************************************)
(* A new line makes its point, and sets the attribute if it decides it.    *)
(***************************************************************************)
LEMMA PointsGrown ==
  ASSUME NEW file \in Seq(Lines), NEW line \in Lines, NEW S \in SUBSET (1..Len(file)),
         NEW T, T = S \cup {Len(file) + 1},
         line.attribute \in PointAttributes, line.text \in Texts
  PROVE  PointsOf(Append(file, line), T) =
           Put(PointsOf(file, S), line.address,
               Apply(Get(PointsOf(file, S), line.address, DefaultPoint), line))
<1> DEFINE g == Append(file, line)
           m == Len(file) + 1
           own(address) == {k \in S : file[k].address = address}
           all(address) == {k \in T : g[k].address = address}
           old == PointsOf(file, S)
           was == Get(old, line.address, DefaultPoint)
           point(f, positions) ==
             [a \in PointAttributes |-> LastOf(f, positions, a, DefaultPoint[a])]
<1>1. /\ g[m] = line
      /\ \A k \in S : g[k] = file[k]
      /\ m \notin S
  <2>1. /\ g[m] = line
        /\ \A k \in 1..Len(file) : g[k] = file[k]
        /\ m \notin 1..Len(file)
    BY Grown
  <2> QED BY <2>1
<1>2. /\ all(line.address) = own(line.address) \cup {m}
      /\ \A address : address # line.address => all(address) = own(address)
  BY <1>1
<1>3. \A address : own(address) \in SUBSET (1..Len(file))
  OBVIOUS
<1>4. \A k \in T : g[k].address = IF k = m THEN line.address ELSE file[k].address
  BY <1>1
<1> HIDE DEF g, m, own, all
<1>5. \A address : address # line.address => point(g, all(address)) = point(file, own(address))
  <2> SUFFICES ASSUME NEW address, address # line.address, NEW a \in PointAttributes
               PROVE  LastOf(g, own(address), a, DefaultPoint[a]) =
                        LastOf(file, own(address), a, DefaultPoint[a])
    BY <1>2
  <2> QED BY <1>3, LastOfOld DEF g
<1>6. was = point(file, own(line.address))
  <2>1. CASE line.address \in {file[k].address : k \in S}
    <3>1. was = old[line.address]
      BY <2>1 DEF Get, PointsOf
    <3> QED BY <2>1, <3>1 DEF PointsOf, own
  <2>2. CASE line.address \notin {file[k].address : k \in S}
    <3>1. was = DefaultPoint
      BY <2>2 DEF Get, PointsOf
    <3>2. own(line.address) = {}
      BY <2>2 DEF own
    <3>3. \A a : LastOf(file, {}, a, DefaultPoint[a]) = DefaultPoint[a]
      BY DEF LastOf
    <3> QED BY <3>1, <3>2, <3>3, DefaultsAre
  <2> QED BY <2>1, <2>2
<1>7. point(g, all(line.address)) = Apply(was, line)
  <2>1. \A a \in PointAttributes :
          LastOf(g, all(line.address), a, DefaultPoint[a]) =
            IF Decides(line, a) THEN Value(a, line.text)
            ELSE LastOf(file, own(line.address), a, DefaultPoint[a])
    <3> TAKE a \in PointAttributes
    <3> DEFINE own1 == own(line.address)
               all1 == all(line.address)
               default == DefaultPoint[a]
    <3>1. own1 \in SUBSET (1..Len(file)) /\ all1 = own1 \cup {Len(file) + 1}
      BY <1>2, <1>3 DEF m
    <3> HIDE DEF own1, all1, default
    <3>2. LastOf(g, all1, a, default) =
            IF Decides(line, a) THEN Value(a, line.text) ELSE LastOf(file, own1, a, default)
      BY <3>1, LastOfNew DEF g
    <3> QED BY <3>2 DEF own1, all1, default
  <2> DEFINE r == point(file, own(line.address))
  <2>2. r = [a \in PointAttributes |-> r[a]]
    OBVIOUS
  <2>3. \A a \in PointAttributes : r[a] = LastOf(file, own(line.address), a, DefaultPoint[a])
    OBVIOUS
  <2>4. PointAttributes \in SUBSET AllAttributes
    BY DEF AllAttributes
  <2> HIDE DEF r
  <2>5. Apply(r, line) =
          [a \in PointAttributes |-> IF Decides(line, a) THEN Value(a, line.text) ELSE r[a]]
    BY <2>2, <2>4, ApplyIs
  <2>6. point(g, all(line.address)) = Apply(r, line)
    BY <2>1, <2>3, <2>5
  <2> HIDE DEF was, point
  <2> QED BY <2>6, <1>6 DEF r
<1>8. {g[k].address : k \in T} = {file[k].address : k \in S} \cup {line.address}
  BY <1>1, <1>4 DEF m
<1> HIDE DEF was, point
<1>9. PointsOf(g, T) = [address \in {g[k].address : k \in T} |-> point(g, all(address))]
  BY DEF PointsOf, point, all
<1>10. old = [address \in {file[k].address : k \in S} |-> point(file, own(address))]
  BY DEF PointsOf, point, own
<1> HIDE DEF old
<1>11. PointsOf(g, T) = Put(old, line.address, Apply(was, line))
  BY <1>5, <1>7, <1>8, <1>9, <1>10 DEF Put
<1> QED BY <1>11 DEF g, old, was

-----------------------------------------------------------------------------
(* While the file is read. *)

(***************************************************************************)
(* What load() has gathered is what the lines so far say.                  *)
(***************************************************************************)
DevicesAsRead ==
    devices = [id \in NamedDevices(lines) |->
                 DeviceAsWritten(lines, id, Min(LinesOf(lines, OfDevice, id)))]

DevicePointsAsRead ==
    \A id \in Ids : Get(devicePoints, id, NoMap) =
                      PointsOf(lines, LinesOf(lines, {"devicePoint"}, id))

ReadInv ==
    /\ lines \in Seq(Lines)
    /\ client = [a \in ClientAttributes |-> Global(lines, a, Len(lines) + 1)]
    /\ DevicesAsRead
    /\ DevicePointsAsRead
    /\ legacyPoints = PointsOf(lines, Positions(lines, {"legacyPoint"}))
    /\ sawLegacyPoint = (Positions(lines, OfPoint) # {})
    /\ sawDevice = ~NoDeviceLine(lines)

(***************************************************************************)
(* A line that is not of a device leaves the devices alone: also the       *)
(* options for all reach only the devices that begin below.                *)
(***************************************************************************)
LEMMA DevicesKept ==
  ASSUME NEW file \in Seq(Lines), NEW line \in Lines, line.kind \notin OfDevice
  PROVE  /\ NamedDevices(Append(file, line)) = NamedDevices(file)
         /\ \A id \in NamedDevices(file) :
              DeviceAsWritten(Append(file, line), id,
                              Min(LinesOf(Append(file, line), OfDevice, id))) =
              DeviceAsWritten(file, id, Min(LinesOf(file, OfDevice, id)))
         /\ \A id : PointsOf(Append(file, line),
                             LinesOf(Append(file, line), {"devicePoint"}, id)) =
                    PointsOf(file, LinesOf(file, {"devicePoint"}, id))
<1> DEFINE g == Append(file, line)
<1>1. NamedDevices(g) = NamedDevices(file)
  BY FirstLineGrown DEF NamedDevices
<1>2. ASSUME NEW id \in NamedDevices(file)
      PROVE  DeviceAsWritten(g, id, Min(LinesOf(g, OfDevice, id))) =
             DeviceAsWritten(file, id, Min(LinesOf(file, OfDevice, id)))
  <2> DEFINE first == Min(LinesOf(file, OfDevice, id))
  <2>1. Min(LinesOf(g, OfDevice, id)) = first /\ first \in 1..(Len(file) + 1)
    BY FirstLineGrown DEF NamedDevices
  <2> HIDE DEF first
  <2>2. line.kind # "device"
    BY DEF OfDevice
  <2>3. DeviceAsWritten(g, id, first) =
          [a \in DeviceAttributes |-> DeviceAsWritten(file, id, first)[a]]
    BY <2>1, <2>2, DeviceGrown
  <2>4. DeviceAsWritten(file, id, first) =
          [a \in DeviceAttributes |-> DeviceAsWritten(file, id, first)[a]]
    BY DEF DeviceAsWritten
  <2> HIDE DEF g
  <2> QED BY <2>1, <2>3, <2>4 DEF first
<1>3. ASSUME NEW id
      PROVE  PointsOf(g, LinesOf(g, {"devicePoint"}, id)) =
             PointsOf(file, LinesOf(file, {"devicePoint"}, id))
  <2> DEFINE S == LinesOf(file, {"devicePoint"}, id)
  <2>1. line.kind \notin {"devicePoint"}
    BY DEF OfDevice
  <2>2. S \in SUBSET (1..Len(file)) /\ LinesOf(g, {"devicePoint"}, id) = S
    <3> DEFINE kinds == {"devicePoint"}
    <3>1. line.kind \notin kinds
      BY <2>1
    <3> HIDE DEF kinds
    <3>2. /\ LinesOf(file, kinds, id) \in SUBSET (1..Len(file))
          /\ LinesOf(g, kinds, id) = LinesOf(file, kinds, id)
      <4>1. /\ LinesOf(file, kinds, id) \subseteq 1..Len(file)
            /\ LinesOf(g, kinds, id) =
                 LinesOf(file, kinds, id)
                   \cup (IF line.kind \in kinds /\ line.id = id THEN {Len(file) + 1} ELSE {})
        BY GrownLines
      <4> QED BY <3>1, <4>1
    <3> QED BY <3>2 DEF kinds
  <2> HIDE DEF S
  <2> QED BY <2>2, PointsOld DEF S
<1> HIDE DEF g
<1>4. /\ \A id \in NamedDevices(file) :
           DeviceAsWritten(g, id, Min(LinesOf(g, OfDevice, id))) =
           DeviceAsWritten(file, id, Min(LinesOf(file, OfDevice, id)))
      /\ \A id : PointsOf(g, LinesOf(g, {"devicePoint"}, id)) =
                 PointsOf(file, LinesOf(file, {"devicePoint"}, id))
  BY <1>2, <1>3
<1> QED BY <1>1, <1>4 DEF g

(***************************************************************************)
(* A line that is not of a point outside leaves those points alone.        *)
(***************************************************************************)
LEMMA LegacyPointsKept ==
  ASSUME NEW file \in Seq(Lines), NEW line \in Lines, line.kind # "legacyPoint"
  PROVE  PointsOf(Append(file, line), Positions(Append(file, line), {"legacyPoint"})) =
         PointsOf(file, Positions(file, {"legacyPoint"}))
<1> DEFINE S == Positions(file, {"legacyPoint"})
<1>1. S \in SUBSET (1..Len(file)) /\ Positions(Append(file, line), {"legacyPoint"}) = S
  <2> DEFINE kinds == {"legacyPoint"}
  <2>1. line.kind \notin kinds
    OBVIOUS
  <2> HIDE DEF kinds
  <2>2. /\ Positions(file, kinds) \in SUBSET (1..Len(file))
        /\ Positions(Append(file, line), kinds) = Positions(file, kinds)
    <3>1. /\ Positions(file, kinds) \subseteq 1..Len(file)
          /\ Positions(Append(file, line), kinds) =
               Positions(file, kinds)
                 \cup (IF line.kind \in kinds THEN {Len(file) + 1} ELSE {})
      BY GrownPositions
    <3> QED BY <2>1, <3>1
  <2> QED BY <2>2 DEF kinds
<1> HIDE DEF S
<1> QED BY <1>1, PointsOld DEF S

(***************************************************************************)
(* A line that is not for all leaves the options for all alone.            *)
(***************************************************************************)
LEMMA GlobalsKept ==
  ASSUME NEW file \in Seq(Lines), NEW line \in Lines, line.kind # "global"
  PROVE  \A a : Global(Append(file, line), a, Len(Append(file, line)) + 1) =
                Global(file, a, Len(file) + 1)
<1> TAKE a
<1>1. Len(Append(file, line)) + 1 = Len(file) + 2
  BY Grown
<1>2. Global(Append(file, line), a, Len(file) + 2) = Global(file, a, Len(file) + 1)
  BY GlobalGrown
<1> QED BY <1>1, <1>2

(***************************************************************************)
(* What has been seen, with the new line.                                  *)
(***************************************************************************)
LEMMA SeenGrown ==
  ASSUME NEW file \in Seq(Lines), NEW line \in Lines
  PROVE  /\ NoDeviceLine(Append(file, line)) <=>
              NoDeviceLine(file) /\ line.kind \notin OfDevice \cup {"badDevice"}
         /\ Positions(Append(file, line), OfPoint) = {} <=>
              Positions(file, OfPoint) = {} /\ line.kind \notin OfPoint
<1>1. ASSUME NEW kinds
      PROVE  Positions(Append(file, line), kinds) = {} <=>
               Positions(file, kinds) = {} /\ line.kind \notin kinds
  <2> DEFINE old == Positions(file, kinds)
             new == Positions(Append(file, line), kinds)
  <2>1. new = old \cup (IF line.kind \in kinds THEN {Len(file) + 1} ELSE {})
    BY GrownPositions
  <2> HIDE DEF old, new
  <2>2. new = {} <=> old = {} /\ line.kind \notin kinds
    BY <2>1
  <2> QED BY <2>2 DEF old, new
<1> QED BY <1>1 DEF NoDeviceLine

(***************************************************************************)
(* The maps before the first line.                                         *)
(***************************************************************************)
LEMMA InitRead ==
  ASSUME Init
  PROVE  ReadInv
<1>1. lines = << >> /\ lines \in Seq(Lines) /\ Len(lines) = 0
  BY DEF Init
<1>2. \A kinds : Positions(lines, kinds) = {}
  BY <1>1 DEF Positions
<1>3. \A kinds, id : LinesOf(lines, kinds, id) = {}
  BY <1>2 DEF LinesOf
<1>4. ASSUME NEW a, NEW default
      PROVE  LastOf(lines, {}, a, default) = default
  BY DEF LastOf
<1>5. client = [a \in ClientAttributes |-> Global(lines, a, Len(lines) + 1)]
  <2>1. \A a : Global(lines, a, Len(lines) + 1) = DefaultClient[a]
    BY <1>2, <1>4 DEF Global
  <2>2. client = DefaultClient
    BY DEF Init
  <2> QED BY <2>1, <2>2, DefaultsAre
<1>6. DevicesAsRead
  <2>1. NamedDevices(lines) = {}
    BY <1>3 DEF NamedDevices
  <2>2. devices = << >>
    BY DEF Init, NoMap
  <2> QED BY <2>1, <2>2 DEF DevicesAsRead
<1>7. PointsOf(lines, {}) = << >>
  BY DEF PointsOf
<1>8. DevicePointsAsRead
  BY <1>3, <1>7 DEF Init, DevicePointsAsRead, Get, NoMap
<1>9. legacyPoints = PointsOf(lines, Positions(lines, {"legacyPoint"}))
  BY <1>2, <1>7 DEF Init, NoMap
<1>10. sawLegacyPoint = (Positions(lines, OfPoint) # {}) /\ sawDevice = ~NoDeviceLine(lines)
  BY <1>2 DEF Init, NoDeviceLine
<1> QED BY <1>1, <1>5, <1>6, <1>8, <1>9, <1>10 DEF ReadInv

(***************************************************************************)
(* An option for all, applied to the client, is its last accepted line.    *)
(***************************************************************************)
LEMMA ReadGlobalKeeps ==
  ASSUME ReadInv, NEW line \in Lines, ReadGlobal(line)
  PROVE  ReadInv'
<1>1. /\ lines' = Append(lines, line) /\ lines \in Seq(Lines)
      /\ line.kind = "global"
      /\ lines' \in Seq(Lines)
      /\ Len(lines') + 1 = Len(lines) + 2
  <2>1. lines' = Append(lines, line) /\ lines \in Seq(Lines) /\ line.kind = "global"
    BY DEF ReadGlobal, Read, ReadInv
  <2> QED BY <2>1, Grown
<1>2. client' = [a \in ClientAttributes |-> Global(lines', a, Len(lines') + 1)]
  <2>1. client = [a \in ClientAttributes |-> Global(lines, a, Len(lines) + 1)]
    BY DEF ReadInv
  <2>2. client = [a \in ClientAttributes |-> client[a]]
    BY <2>1
  <2>3. /\ ClientAttributes \in SUBSET AllAttributes
        /\ line.attribute \in ClientAttributes
        /\ line.text \in Texts
    BY <1>1, LineFields DEF AllAttributes, DeviceAttributes
  <2>4. Apply(client, line) =
          [a \in ClientAttributes |->
             IF Decides(line, a) THEN Value(a, line.text) ELSE client[a]]
    BY <2>2, <2>3, ApplyIs
  <2>5. \A a \in ClientAttributes :
          Global(lines', a, Len(lines') + 1) =
            IF Decides(line, a) THEN Value(a, line.text) ELSE client[a]
    BY <1>1, <2>1, GlobalGrown
  <2>6. client' = Apply(client, line)
    BY DEF ReadGlobal
  <2> QED BY <2>4, <2>5, <2>6
<1>3. line.kind \notin OfDevice /\ line.kind \notin OfPoint
      /\ line.kind # "badDevice" /\ line.kind # "legacyPoint"
  BY <1>1 DEF OfDevice, OfPoint
<1>4. DevicesAsRead' /\ DevicePointsAsRead'
  BY <1>1, <1>3, DevicesKept DEF ReadGlobal, ReadInv, DevicesAsRead, DevicePointsAsRead
<1>5. legacyPoints' = PointsOf(lines', Positions(lines', {"legacyPoint"}))
  BY <1>1, <1>3, LegacyPointsKept DEF ReadGlobal, ReadInv
<1>6. /\ sawLegacyPoint' = (Positions(lines', OfPoint) # {})
      /\ sawDevice' = ~NoDeviceLine(lines')
  BY <1>1, <1>3, SeenGrown DEF ReadGlobal, ReadInv
<1> QED BY <1>1, <1>2, <1>4, <1>5, <1>6 DEF ReadInv

(***************************************************************************)
(* A refused line of no device counts only as seen.                        *)
(***************************************************************************)
LEMMA ReadBadDeviceKeeps ==
  ASSUME ReadInv, NEW line \in Lines, ReadBadDevice(line)
  PROVE  ReadInv'
<1>1. /\ lines' = Append(lines, line) /\ lines \in Seq(Lines)
      /\ line.kind = "badDevice"
      /\ lines' \in Seq(Lines)
  <2>1. lines' = Append(lines, line) /\ lines \in Seq(Lines) /\ line.kind = "badDevice"
    BY DEF ReadBadDevice, Read, ReadInv
  <2> QED BY <2>1, Grown
<1>2. line.kind \notin OfDevice /\ line.kind \notin OfPoint
      /\ line.kind # "global" /\ line.kind # "legacyPoint"
  BY <1>1 DEF OfDevice, OfPoint
<1>3. client' = [a \in ClientAttributes |-> Global(lines', a, Len(lines') + 1)]
  BY <1>1, <1>2, GlobalsKept DEF ReadBadDevice, ReadInv
<1>4. DevicesAsRead' /\ DevicePointsAsRead'
  BY <1>1, <1>2, DevicesKept DEF ReadBadDevice, ReadInv, DevicesAsRead, DevicePointsAsRead
<1>5. legacyPoints' = PointsOf(lines', Positions(lines', {"legacyPoint"}))
  BY <1>1, <1>2, LegacyPointsKept DEF ReadBadDevice, ReadInv
<1>6. /\ sawLegacyPoint' = (Positions(lines', OfPoint) # {})
      /\ sawDevice' = ~NoDeviceLine(lines')
  BY <1>1, <1>2, SeenGrown DEF ReadBadDevice, ReadInv
<1> QED BY <1>1, <1>3, <1>4, <1>5, <1>6 DEF ReadInv

(***************************************************************************)
(* A line of a point outside sets its attribute, or counts only as seen.   *)
(***************************************************************************)
LEMMA ReadLegacyPointKeeps ==
  ASSUME ReadInv, NEW line \in Lines, ReadLegacyPoint(line)
  PROVE  ReadInv'
<1>1. /\ lines' = Append(lines, line) /\ lines \in Seq(Lines)
      /\ line.kind \in OfPoint
      /\ lines' \in Seq(Lines)
  <2>1. lines' = Append(lines, line) /\ lines \in Seq(Lines) /\ line.kind \in OfPoint
    BY DEF ReadLegacyPoint, Read, ReadInv, OfPoint
  <2> QED BY <2>1, Grown
<1>2. line.kind \notin OfDevice /\ line.kind # "badDevice" /\ line.kind # "global"
  BY <1>1 DEF OfDevice, OfPoint
<1>3. client' = [a \in ClientAttributes |-> Global(lines', a, Len(lines') + 1)]
  BY <1>1, <1>2, GlobalsKept DEF ReadLegacyPoint, ReadInv
<1>4. DevicesAsRead' /\ DevicePointsAsRead'
  BY <1>1, <1>2, DevicesKept DEF ReadLegacyPoint, ReadInv, DevicesAsRead, DevicePointsAsRead
<1>5. legacyPoints' = PointsOf(lines', Positions(lines', {"legacyPoint"}))
  <2>1. CASE line.kind = "legacyPoint"
    <3> DEFINE S == Positions(lines, {"legacyPoint"})
               T == Positions(lines', {"legacyPoint"})
    <3>1. S \in SUBSET (1..Len(lines)) /\ T = S \cup {Len(lines) + 1}
      <4> DEFINE kinds == {"legacyPoint"}
      <4>1. line.kind \in kinds
        BY <2>1
      <4> HIDE DEF kinds
      <4>2. /\ Positions(lines, kinds) \in SUBSET (1..Len(lines))
            /\ Positions(lines', kinds) = Positions(lines, kinds) \cup {Len(lines) + 1}
        BY <1>1, <4>1, GrownPositions
      <4> QED BY <4>2 DEF kinds
    <3>2. line.attribute \in PointAttributes /\ line.text \in Texts
      BY <2>1, LineFields
    <3>3. /\ legacyPoints = PointsOf(lines, S)
          /\ legacyPoints' = Put(legacyPoints, line.address,
                                 Apply(Get(legacyPoints, line.address, DefaultPoint), line))
      BY <2>1 DEF ReadInv, ReadLegacyPoint
    <3> HIDE DEF S, T
    <3>4. PointsOf(lines', T) =
            Put(PointsOf(lines, S), line.address,
                Apply(Get(PointsOf(lines, S), line.address, DefaultPoint), line))
      BY <1>1, <3>1, <3>2, PointsGrown
    <3> QED BY <3>3, <3>4 DEF S, T
  <2>2. CASE line.kind # "legacyPoint"
    BY <1>1, <2>2, LegacyPointsKept DEF ReadLegacyPoint, ReadInv
  <2> QED BY <2>1, <2>2
<1>6. /\ sawLegacyPoint' = (Positions(lines', OfPoint) # {})
      /\ sawDevice' = ~NoDeviceLine(lines')
  BY <1>1, <1>2, SeenGrown DEF ReadLegacyPoint, ReadInv
<1> QED BY <1>1, <1>3, <1>4, <1>5, <1>6 DEF ReadInv

(***************************************************************************)
(* The line of a device: its options are those it would have had, with the *)
(* one that the line decides.                                              *)
(***************************************************************************)
LEMMA ReadDeviceDevices ==
  ASSUME ReadInv, NEW line \in Lines, ReadDevice(line), lines' = Append(lines, line)
  PROVE  DevicesAsRead'
<1> DEFINE first(id) == Min(LinesOf(lines, OfDevice, id))
           next(id) == Min(LinesOf(lines', OfDevice, id))
           was == Get(devices, line.id, MakeDevice(client))
           new == IF line.kind = "device" THEN Apply(was, line) ELSE was
           m == Len(lines) + 1
<1>1. lines \in Seq(Lines) /\ m \in 1..m /\ lines' = Append(lines, line)
  <2>1. lines \in Seq(Lines)
    BY DEF ReadInv
  <2> QED BY <2>1, Grown
<1>2. line.kind \in OfDevice /\ line.id \in Ids
  BY LineFields DEF ReadDevice, OfDevice
<1>3. devices' = Put(devices, line.id, new)
  BY DEF ReadDevice
<1>4. devices = [id \in NamedDevices(lines) |-> DeviceAsWritten(lines, id, first(id))]
  BY DEF ReadInv, DevicesAsRead
<1>5. NamedDevices(lines') = NamedDevices(lines) \cup {line.id}
  BY <1>1, <1>2, FirstLineGrown DEF NamedDevices
<1>6. \A id \in NamedDevices(lines) : next(id) = first(id) /\ first(id) \in 1..m
  BY <1>1, FirstLineGrown DEF NamedDevices
<1>7. next(line.id) \in 1..m /\ was = DeviceAsWritten(lines, line.id, next(line.id))
  <2>1. CASE line.id \in NamedDevices(lines)
    <3>1. was = devices[line.id]
      BY <1>4, <2>1 DEF Get
    <3> QED BY <1>4, <1>6, <2>1, <3>1
  <2>2. CASE line.id \notin NamedDevices(lines)
    <3>1. LinesOf(lines, OfDevice, line.id) = {}
      BY <1>2, <2>2 DEF NamedDevices
    <3>2. next(line.id) = m
      BY <1>1, <1>2, <3>1, FirstLineGrown
    <3>3. was = MakeDevice(client)
      BY <1>4, <2>2 DEF Get
    <3>4. MakeDevice(client) = DeviceAsWritten(lines, line.id, m)
      BY <1>1, <3>1, DeviceMade DEF ReadInv
    <3> QED BY <1>1, <3>2, <3>3, <3>4
  <2> QED BY <2>1, <2>2
<1> HIDE DEF first, next, was, m
<1>8. new = DeviceAsWritten(lines', line.id, next(line.id))
  <2>1. was = [a \in DeviceAttributes |-> was[a]]
    BY <1>7 DEF DeviceAsWritten
  <2>2. DeviceAsWritten(lines', line.id, next(line.id)) =
          [a \in DeviceAttributes |->
             IF line.kind = "device" /\ line.id = line.id /\ Decides(line, a)
             THEN Value(a, line.text) ELSE was[a]]
    BY <1>1, <1>7, DeviceGrown DEF m
  <2>3. CASE line.kind = "device"
    <3>1. /\ DeviceAttributes \in SUBSET AllAttributes
          /\ line.attribute \in DeviceAttributes
          /\ line.text \in Texts
      BY <2>3, LineFields DEF AllAttributes
    <3>2. Apply(was, line) =
            [a \in DeviceAttributes |->
               IF Decides(line, a) THEN Value(a, line.text) ELSE was[a]]
      BY <2>1, <3>1, ApplyIs
    <3> QED BY <2>2, <2>3, <3>2
  <2>4. CASE line.kind # "device"
    BY <2>1, <2>2, <2>4
  <2> QED BY <2>3, <2>4
<1>9. \A id \in NamedDevices(lines) \ {line.id} :
        DeviceAsWritten(lines', id, next(id)) = devices[id]
  <2> TAKE id \in NamedDevices(lines) \ {line.id}
  <2>1. DeviceAsWritten(lines', id, next(id)) =
          [a \in DeviceAttributes |->
             IF line.kind = "device" /\ line.id = id /\ Decides(line, a)
             THEN Value(a, line.text) ELSE DeviceAsWritten(lines, id, next(id))[a]]
    BY <1>1, <1>6, DeviceGrown DEF m
  <2>2. DeviceAsWritten(lines, id, next(id)) =
          [a \in DeviceAttributes |-> DeviceAsWritten(lines, id, next(id))[a]]
    BY DEF DeviceAsWritten
  <2>3. devices[id] = DeviceAsWritten(lines, id, next(id))
    BY <1>4, <1>6
  <2> QED BY <2>1, <2>2, <2>3
<1> HIDE DEF new
<1>10. devices' = [id \in NamedDevices(lines') |-> DeviceAsWritten(lines', id, next(id))]
  BY <1>3, <1>4, <1>5, <1>8, <1>9 DEF Put
<1> QED BY <1>10 DEF DevicesAsRead, next

(***************************************************************************)
(* Its points: those of other devices stay, also with the same address.    *)
(***************************************************************************)
LEMMA ReadDevicePoints ==
  ASSUME ReadInv, NEW line \in Lines, ReadDevice(line), lines' = Append(lines, line)
  PROVE  DevicePointsAsRead'
<1> DEFINE kinds == {"devicePoint"}
           S(id) == LinesOf(lines, kinds, id)
           T(id) == LinesOf(lines', kinds, id)
           points == Get(devicePoints, line.id, NoMap)
           new == Put(points, line.address,
                      Apply(Get(points, line.address, DefaultPoint), line))
<1>1. lines \in Seq(Lines) /\ lines' = Append(lines, line)
  BY DEF ReadInv
<1>2. line.id \in Ids
  BY LineFields DEF ReadDevice, OfDevice
<1>3. devicePoints' = IF line.kind \in kinds THEN Put(devicePoints, line.id, new)
                      ELSE devicePoints
  BY DEF ReadDevice
<1>4. \A id \in Ids : Get(devicePoints, id, NoMap) = PointsOf(lines, S(id))
  BY DEF ReadInv, DevicePointsAsRead
<1>5. line.kind \in kinds => line.attribute \in PointAttributes /\ line.text \in Texts
  BY LineFields
<1> HIDE DEF kinds
<1>6. \A id : /\ S(id) \in SUBSET (1..Len(lines))
              /\ T(id) = S(id) \cup (IF line.kind \in kinds /\ line.id = id
                                     THEN {Len(lines) + 1} ELSE {})
  BY <1>1, GrownLines
<1> HIDE DEF S, T, points, new
<1>7. ASSUME NEW id, ~(line.kind \in kinds /\ line.id = id)
      PROVE  PointsOf(lines', T(id)) = PointsOf(lines, S(id))
  <2>1. T(id) = S(id) /\ S(id) \in SUBSET (1..Len(lines))
    BY <1>6, <1>7
  <2> QED BY <1>1, <2>1, PointsOld
<1>8. ASSUME line.kind \in kinds
      PROVE  PointsOf(lines', T(line.id)) = new
  <2>1. T(line.id) = S(line.id) \cup {Len(lines) + 1} /\ S(line.id) \in SUBSET (1..Len(lines))
    BY <1>6, <1>8
  <2>2. points = PointsOf(lines, S(line.id))
    BY <1>2, <1>4 DEF points
  <2>3. PointsOf(lines', T(line.id)) =
          Put(PointsOf(lines, S(line.id)), line.address,
              Apply(Get(PointsOf(lines, S(line.id)), line.address, DefaultPoint), line))
    BY <1>1, <1>5, <1>8, <2>1, PointsGrown
  <2> QED BY <2>2, <2>3 DEF new
<1>9. ASSUME NEW id \in Ids
      PROVE  Get(devicePoints', id, NoMap) = PointsOf(lines', T(id))
  <2>1. CASE line.kind \in kinds /\ line.id = id
    BY <1>3, <1>8, <2>1, PutIs
  <2>2. CASE line.kind \in kinds /\ line.id # id
    BY <1>3, <1>4, <1>7, <2>2, PutIs
  <2>3. CASE line.kind \notin kinds
    BY <1>3, <1>4, <1>7, <2>3
  <2> QED BY <2>1, <2>2, <2>3
<1> QED BY <1>9 DEF DevicePointsAsRead, T, kinds

(***************************************************************************)
(* A line of a device changes what its device is made of, and nothing      *)
(* else.                                                                   *)
(***************************************************************************)
LEMMA ReadDeviceKeeps ==
  ASSUME ReadInv, NEW line \in Lines, ReadDevice(line)
  PROVE  ReadInv'
<1>1. /\ lines' = Append(lines, line) /\ lines \in Seq(Lines)
      /\ line.kind \in OfDevice
      /\ lines' \in Seq(Lines)
  <2>1. lines' = Append(lines, line) /\ lines \in Seq(Lines) /\ line.kind \in OfDevice
    BY DEF ReadDevice, Read, ReadInv, OfDevice
  <2> QED BY <2>1, Grown
<1>2. line.kind \notin OfPoint /\ line.kind # "global" /\ line.kind # "legacyPoint"
  BY <1>1 DEF OfDevice, OfPoint
<1>3. client' = [a \in ClientAttributes |-> Global(lines', a, Len(lines') + 1)]
  BY <1>1, <1>2, GlobalsKept DEF ReadDevice, ReadInv
<1>4. DevicesAsRead' /\ DevicePointsAsRead'
  BY <1>1, ReadDeviceDevices, ReadDevicePoints
<1>5. legacyPoints' = PointsOf(lines', Positions(lines', {"legacyPoint"}))
  BY <1>1, <1>2, LegacyPointsKept DEF ReadDevice, ReadInv
<1>6. /\ sawLegacyPoint' = (Positions(lines', OfPoint) # {})
      /\ sawDevice' = ~NoDeviceLine(lines')
  BY <1>1, <1>2, SeenGrown DEF ReadDevice, ReadInv
<1> QED BY <1>1, <1>3, <1>4, <1>5, <1>6 DEF ReadInv

-----------------------------------------------------------------------------
(* What load() returns. *)

(***************************************************************************)
(* Without a line of a device there is nothing that its options or points  *)
(* could have been told by.                                                *)
(***************************************************************************)
LEMMA FinishGivesOptions ==
  ASSUME ReadInv, Finish
  PROVE  OptionsAsWritten'
<1>1. lines' = lines /\ lines \in Seq(Lines) /\ sawDevice = ~NoDeviceLine(lines)
  BY DEF Finish, ReadInv
<1>2. CASE sawDevice
  <2>1. config' = [id \in DOMAIN devices |->
                     [device |-> devices[id], points |-> Get(devicePoints, id, NoMap)]]
    BY <1>2 DEF Finish
  <2>2. devices = [id \in NamedDevices(lines) |->
                     DeviceAsWritten(lines, id, Min(LinesOf(lines, OfDevice, id)))]
    BY DEF ReadInv, DevicesAsRead
  <2> QED BY <1>1, <1>2, <2>1, <2>2 DEF OptionsAsWritten
<1>3. CASE ~sawDevice
  <2>1. LinesOf(lines, OfDevice, RtuMain) = {}
    BY <1>1, <1>3 DEF LinesOf, Positions, NoDeviceLine
  <2>2. MakeDevice(client) = DeviceAsWritten(lines, RtuMain, Len(lines) + 1)
    BY <1>1, <2>1, DeviceMade DEF ReadInv
  <2>3. /\ DOMAIN config' = {RtuMain}
        /\ config'[RtuMain].device = MakeDevice(client)
    BY <1>3 DEF Finish
  <2> QED BY <1>1, <1>3, <2>2, <2>3 DEF OptionsAsWritten
<1> QED BY <1>2, <1>3

(***************************************************************************)
(* Nor is there a point of its own: those outside count, else the built-in *)
(* ones.                                                                   *)
(***************************************************************************)
LEMMA FinishGivesPoints ==
  ASSUME ReadInv, Finish
  PROVE  PointsAsWritten'
<1>1. lines' = lines /\ sawDevice = ~NoDeviceLine(lines)
  BY DEF Finish, ReadInv
<1>2. CASE sawDevice
  <2>1. config' = [id \in DOMAIN devices |->
                     [device |-> devices[id], points |-> Get(devicePoints, id, NoMap)]]
    BY <1>2 DEF Finish
  <2>2. DOMAIN devices \subseteq Ids
    BY DEF ReadInv, DevicesAsRead, NamedDevices
  <2>3. \A id \in DOMAIN config' :
          config'[id].points = PointsOf(lines, LinesOf(lines, {"devicePoint"}, id))
    BY <2>1, <2>2 DEF ReadInv, DevicePointsAsRead
  <2> QED BY <1>1, <1>2, <2>3 DEF PointsAsWritten
<1>3. CASE ~sawDevice
  <2>1. /\ DOMAIN config' = {RtuMain}
        /\ config'[RtuMain].points = IF sawLegacyPoint THEN legacyPoints ELSE DefaultPoints
    BY <1>3 DEF Finish
  <2>2. /\ sawLegacyPoint = (Positions(lines, OfPoint) # {})
        /\ legacyPoints = PointsOf(lines, Positions(lines, {"legacyPoint"}))
    BY DEF ReadInv
  <2> QED BY <1>1, <1>3, <2>1, <2>2 DEF PointsAsWritten
<1> QED BY <1>2, <1>3

(***************************************************************************)
(* The inductive invariant.                                                *)
(***************************************************************************)
ConfigInv == ReadInv /\ OptionsAsWritten /\ PointsAsWritten

(***************************************************************************)
(* What is gathered while reading is true of the lines read, and what is   *)
(* returned is true of the file.                                           *)
(***************************************************************************)
THEOREM ConfigInvariant == Spec => []ConfigInv
<1>1. Init => ConfigInv
  BY InitRead DEF Init, ConfigInv, OptionsAsWritten, PointsAsWritten
<1>2. ConfigInv /\ [Next]_vars => ConfigInv'
  <2> SUFFICES ASSUME ConfigInv, [Next]_vars PROVE ConfigInv'
    OBVIOUS
  <2> USE DEF ConfigInv
  <2>1. ASSUME NEW line \in Lines, Read(line)
        PROVE  OptionsAsWritten' /\ PointsAsWritten'
    BY <2>1 DEF Read, OptionsAsWritten, PointsAsWritten
  <2>2. ASSUME NEW line \in Lines, ReadGlobal(line) PROVE ConfigInv'
    BY <2>1, <2>2, ReadGlobalKeeps DEF ReadGlobal
  <2>3. ASSUME NEW line \in Lines, ReadDevice(line) PROVE ConfigInv'
    BY <2>1, <2>3, ReadDeviceKeeps DEF ReadDevice
  <2>4. ASSUME NEW line \in Lines, ReadBadDevice(line) PROVE ConfigInv'
    BY <2>1, <2>4, ReadBadDeviceKeeps DEF ReadBadDevice
  <2>5. ASSUME NEW line \in Lines, ReadLegacyPoint(line) PROVE ConfigInv'
    BY <2>1, <2>5, ReadLegacyPointKeeps DEF ReadLegacyPoint
  <2>6. CASE Finish
    <3>1. ReadInv'
      BY <2>6 DEF Finish, ReadInv, DevicesAsRead, DevicePointsAsRead
    <3> QED BY <2>6, <3>1, FinishGivesOptions, FinishGivesPoints
  <2>7. CASE UNCHANGED vars
    BY <2>7 DEF vars, ReadInv, DevicesAsRead, DevicePointsAsRead, OptionsAsWritten,
                PointsAsWritten
  <2> QED BY <2>2, <2>3, <2>4, <2>5, <2>6, <2>7 DEF Next
<1> QED BY <1>1, <1>2, PTL DEF Spec

(***************************************************************************)
(* Whatever the file and the order of its lines: every device that it      *)
(* names, and no other, has the options that it gives the device, or gives *)
(* all above the device's first line (load(), applyDeviceAttribute()).     *)
(***************************************************************************)
THEOREM OptionsAreAsWritten == Spec => []OptionsAsWritten
<1> QED BY ConfigInvariant, PTL DEF ConfigInv

(***************************************************************************)
(* Likewise its points: those of its own lines, of no other device, each   *)
(* with the last accepted value of every attribute (applyPointAttribute(), *)
(* load()).                                                                *)
(***************************************************************************)
THEOREM PointsAreAsWritten == Spec => []PointsAsWritten
<1> QED BY ConfigInvariant, PTL DEF ConfigInv

-----------------------------------------------------------------------------
(* Types. *)

(***************************************************************************)
(* TypeOK with its maps written out, and with the lines that were read.    *)
(***************************************************************************)
DevicesType ==
    DOMAIN devices \subseteq Ids /\ \A id \in DOMAIN devices : devices[id] \in Device

PointsType(points) ==
    DOMAIN points \subseteq Addresses /\ \A a \in DOMAIN points : points[a] \in Point

DevicePointsType ==
    /\ DOMAIN devicePoints \subseteq DOMAIN devices
    /\ \A id \in DOMAIN devicePoints : PointsType(devicePoints[id])

Types ==
    /\ lines \in Seq(Lines) /\ Len(lines) <= MaxLines
    /\ client \in ClientOptions
    /\ DevicesType
    /\ DevicePointsType
    /\ PointsType(legacyPoints)
    /\ sawLegacyPoint \in BOOLEAN /\ sawDevice \in BOOLEAN
    /\ config # Unset => DOMAIN config \subseteq Ids

(***************************************************************************)
(* What a text is converted to fits its attribute: 16 bits of a port, 0 or *)
(* a number for a limit.                                                   *)
(***************************************************************************)
LEMMA ConvertTypes ==
  ASSUME NEW text \in Texts, NEW old
  PROVE  /\ old \in UInt16 => Convert("port", text, old) \in UInt16
         /\ old \in UInt16 => Convert("commonAddress", text, old) \in UInt16
         /\ old \in Int => Convert("reconnect", text, old) \in Int
         /\ old \in Int => Convert("staleSeconds", text, old) \in Int
         /\ Convert("host", text, old) \in Texts
         /\ old \in BOOLEAN => Convert("enabled", text, old) \in BOOLEAN
         /\ Convert("high", text, old) \in Int \cup {TooWide}
         /\ Convert("normalState", text, old) \in Int
<1>1. text \in {TooWide, Junk} \/ text \in Int
  BY ConfigAssumption DEF Int32
<1>2. \A n \in Int : n % 65536 \in UInt16
  BY DEF UInt16
<1>3. Convert("host", text, old) = text
  BY DEF Convert
<1>4. Convert("enabled", text, old) = IF text \in {0, 1} THEN text = 1 ELSE old
  BY DEF Convert
<1>5. /\ Convert("port", text, old) = UInt16Of(text, old)
      /\ Convert("commonAddress", text, old) = UInt16Of(text, old)
  BY DEF Convert
<1>6. /\ Convert("reconnect", text, old) = ToInt(text, old)
      /\ Convert("staleSeconds", text, old) = ToInt(text, old)
  BY DEF Convert
<1>7. /\ Convert("high", text, old) = ToDouble(text, 0)
      /\ Convert("normalState", text, old) = ToInt(text, 0)
  BY DEF Convert
<1>8. /\ old \in UInt16 => Convert("port", text, old) \in UInt16
      /\ old \in UInt16 => Convert("commonAddress", text, old) \in UInt16
  BY <1>1, <1>2, <1>5 DEF UInt16Of
<1>9. /\ old \in Int => Convert("reconnect", text, old) \in Int
      /\ old \in Int => Convert("staleSeconds", text, old) \in Int
      /\ Convert("high", text, old) \in Int \cup {TooWide}
      /\ Convert("normalState", text, old) \in Int
  BY <1>1, <1>6, <1>7 DEF ToInt, ToDouble
<1>10. old \in BOOLEAN => Convert("enabled", text, old) \in BOOLEAN
  <2>1. (text = 1) \in BOOLEAN
    OBVIOUS
  <2> QED BY <1>4, <2>1
<1> QED BY <1>3, <1>8, <1>9, <1>10

LEMMA ClientTypes ==
  ASSUME NEW r \in ClientOptions, NEW line, line.attribute \in ClientAttributes,
         line.text \in Texts
  PROVE  Apply(r, line) \in ClientOptions
<1> DEFINE a == line.attribute
           new == Convert(a, line.text, r[a])
<1>1. Apply(r, line) = [r EXCEPT ![a] = new]
  BY DEF Apply
<1>2. r.port \in UInt16 /\ r.reconnect \in Int
  BY DEF ClientOptions
<1>3. CASE a = "port"
  <2>1. new \in UInt16
    BY <1>2, <1>3, ConvertTypes
  <2> HIDE DEF new
  <2> QED BY <1>1, <1>3, <2>1 DEF ClientOptions
<1>4. CASE a = "reconnect"
  <2>1. new \in Int
    BY <1>2, <1>4, ConvertTypes
  <2> HIDE DEF new
  <2> QED BY <1>1, <1>4, <2>1 DEF ClientOptions
<1>5. CASE a = "host"
  <2>1. new \in Texts
    BY <1>5, ConvertTypes
  <2> HIDE DEF new
  <2> QED BY <1>1, <1>5, <2>1 DEF ClientOptions
<1> QED BY <1>3, <1>4, <1>5 DEF ClientAttributes

LEMMA DeviceTypes ==
  ASSUME NEW r \in Device, NEW line, line.attribute \in DeviceAttributes,
         line.text \in Texts
  PROVE  Apply(r, line) \in Device
<1> DEFINE a == line.attribute
           new == Convert(a, line.text, r[a])
<1>1. Apply(r, line) = [r EXCEPT ![a] = new]
  BY DEF Apply
<1>2. /\ r.port \in UInt16 /\ r.reconnect \in Int
      /\ r.commonAddress \in UInt16 /\ r.enabled \in BOOLEAN
  BY DEF Device
<1>3. CASE a \in {"port", "commonAddress"}
  <2>1. new \in UInt16
    BY <1>2, <1>3, ConvertTypes
  <2> HIDE DEF new
  <2> QED BY <1>1, <1>3, <2>1 DEF Device
<1>4. CASE a = "reconnect"
  <2>1. new \in Int
    BY <1>2, <1>4, ConvertTypes
  <2> HIDE DEF new
  <2> QED BY <1>1, <1>4, <2>1 DEF Device
<1>5. CASE a = "host"
  <2>1. new \in Texts
    BY <1>5, ConvertTypes
  <2> HIDE DEF new
  <2> QED BY <1>1, <1>5, <2>1 DEF Device
<1>6. CASE a = "enabled"
  <2>1. new \in BOOLEAN
    BY <1>2, <1>6, ConvertTypes
  <2> HIDE DEF new
  <2> QED BY <1>1, <1>6, <2>1 DEF Device
<1> QED BY <1>3, <1>4, <1>5, <1>6 DEF DeviceAttributes, ClientAttributes

LEMMA PointTypes ==
  ASSUME NEW r \in Point, NEW line, line.attribute \in PointAttributes,
         line.text \in Texts
  PROVE  Apply(r, line) \in Point
<1> DEFINE a == line.attribute
           new == Convert(a, line.text, r[a])
<1>1. Apply(r, line) = [r EXCEPT ![a] = new]
  BY DEF Apply
<1>2. r.staleSeconds \in Int
  BY DEF Point
<1>3. CASE a = "high"
  <2>1. new \in Limit
    BY <1>3, ConvertTypes DEF Limit, Optional
  <2> HIDE DEF new
  <2> QED BY <1>1, <1>3, <2>1 DEF Point
<1>5. CASE a = "normalState"
  <2>1. new \in Optional
    BY <1>5, ConvertTypes DEF Optional
  <2> HIDE DEF new
  <2> QED BY <1>1, <1>5, <2>1 DEF Point
<1>4. CASE a = "staleSeconds"
  <2>1. new \in Int
    BY <1>2, <1>4, ConvertTypes
  <2> HIDE DEF new
  <2> QED BY <1>1, <1>4, <2>1 DEF Point
<1> QED BY <1>3, <1>4, <1>5 DEF PointAttributes

(***************************************************************************)
(* A map of points takes one more.                                         *)
(***************************************************************************)
LEMMA PointsTypes ==
  ASSUME NEW points, PointsType(points), NEW line, line.attribute \in PointAttributes,
         line.text \in Texts, line.address \in Addresses
  PROVE  PointsType(Put(points, line.address,
                        Apply(Get(points, line.address, DefaultPoint), line)))
<1> DEFINE address == line.address
           old == Get(points, address, DefaultPoint)
           new == Apply(old, line)
<1>1. DefaultPoint \in Point
  BY DEF DefaultPoint, Point, Limit, Optional
<1>2. old \in Point
  BY <1>1 DEF Get, PointsType
<1> HIDE DEF old
<1>3. new \in Point
  BY <1>2, PointTypes
<1> HIDE DEF new
<1>4. PointsType(Put(points, address, new))
  BY <1>3 DEF Put, PointsType
<1> QED BY <1>4 DEF new, old

LEMMA LineAddress ==
  ASSUME NEW line \in Lines, line.kind \in {"devicePoint", "legacyPoint"}
  PROVE  line.address \in Addresses
<1>1. line \in Line
  BY ConfigAssumption
<1> QED BY <1>1 DEF Line

LEMMA TypesStart == Init => Types
<1> SUFFICES ASSUME Init PROVE Types
  OBVIOUS
<1>1. DefaultClient \in ClientOptions
  BY DEF DefaultClient, ClientOptions, UInt16
<1>2. NoMap = << >> /\ DOMAIN NoMap = {}
  BY DEF NoMap
<1>3. PointsType(NoMap)
  BY <1>2 DEF PointsType
<1>4. DevicesType /\ DevicePointsType
  BY <1>2 DEF Init, DevicesType, DevicePointsType
<1>5. lines \in Seq(Lines) /\ Len(lines) <= MaxLines
  BY ConfigAssumption, EmptySeq DEF Init
<1> QED BY <1>1, <1>3, <1>4, <1>5 DEF Init, Types

LEMMA LinesRead ==
  ASSUME Types, NEW line \in Lines, Read(line)
  PROVE  /\ lines' \in Seq(Lines) /\ Len(lines') <= MaxLines
         /\ config' = Unset
<1>1. /\ lines' \in Seq(Lines) /\ Len(lines') = Len(lines) + 1
      /\ config = Unset /\ config' = config /\ Len(lines) < MaxLines
  BY AppendProperties DEF Read, Types
<1>2. Len(lines) \in Nat /\ MaxLines \in Nat
  BY LenProperties, ConfigAssumption DEF Types
<1> QED BY <1>1, <1>2

LEMMA TypesReadDevice ==
  ASSUME Types, NEW line \in Lines, ReadDevice(line)
  PROVE  DevicesType' /\ DevicePointsType'
<1> DEFINE id == line.id
           device == Get(devices, id, MakeDevice(client))
           new == IF line.kind = "device" THEN Apply(device, line) ELSE device
           points == Get(devicePoints, id, NoMap)
           more == Put(points, line.address, Apply(Get(points, line.address, DefaultPoint), line))
<1>1. id \in Ids /\ DevicesType /\ DevicePointsType /\ client \in ClientOptions
  BY LineFields DEF ReadDevice, OfDevice, Types
<1>2. MakeDevice(client) \in Device
  <2>1. 1 \in UInt16 /\ TRUE \in BOOLEAN
    BY DEF UInt16
  <2>2. /\ client.port \in UInt16 /\ client.reconnect \in Int
        /\ client.host \in Texts \cup {DefaultHost}
    BY <1>1 DEF ClientOptions
  <2> QED BY <2>1, <2>2 DEF MakeDevice, Device
<1>3. device \in Device
  BY <1>1, <1>2 DEF Get, DevicesType
<1>4. new \in Device
  <2>1. line.kind = "device" => line.attribute \in DeviceAttributes /\ line.text \in Texts
    BY LineFields
  <2> HIDE DEF device
  <2> QED BY <1>3, <2>1, DeviceTypes
<1>5. devices' = Put(devices, id, new)
  BY DEF ReadDevice
<1> HIDE DEF new, device
<1>6. DevicesType' /\ DOMAIN devices' = DOMAIN devices \cup {id}
  BY <1>1, <1>4, <1>5 DEF Put, DevicesType
<1>7. CASE line.kind = "devicePoint"
  <2>1. devicePoints' = Put(devicePoints, id, more)
    BY <1>7 DEF ReadDevice
  <2>2. PointsType(points)
    BY <1>1 DEF Get, NoMap, PointsType, DevicePointsType
  <2>3. line.attribute \in PointAttributes /\ line.text \in Texts /\ line.address \in Addresses
    BY <1>7, LineFields, LineAddress
  <2> HIDE DEF points
  <2>4. PointsType(more)
    BY <2>2, <2>3, PointsTypes
  <2> HIDE DEF more
  <2>5. DOMAIN devicePoints' = DOMAIN devicePoints \cup {id}
    BY <2>1 DEF Put
  <2>6. \A i \in DOMAIN devicePoints' : PointsType(devicePoints'[i])
    BY <1>1, <2>1, <2>4 DEF Put, DevicePointsType
  <2> QED BY <1>1, <1>6, <2>5, <2>6 DEF DevicePointsType
<1>8. CASE line.kind # "devicePoint"
  <2>1. devicePoints' = devicePoints
    BY <1>8 DEF ReadDevice
  <2> QED BY <1>1, <1>6, <2>1 DEF DevicePointsType
<1> QED BY <1>6, <1>7, <1>8

LEMMA TypesStep ==
  ASSUME Types, [Next]_vars
  PROVE  Types'
<1>1. ASSUME NEW line \in Lines, ReadGlobal(line) PROVE Types'
  <2>1. client' \in ClientOptions
    BY <1>1, LineFields, ClientTypes DEF ReadGlobal, Types
  <2> QED BY <1>1, <2>1, LinesRead DEF ReadGlobal, Types, DevicesType, DevicePointsType
<1>2. ASSUME NEW line \in Lines, ReadDevice(line) PROVE Types'
  BY <1>2, LinesRead, TypesReadDevice DEF ReadDevice, Types
<1>3. ASSUME NEW line \in Lines, ReadBadDevice(line) PROVE Types'
  BY <1>3, LinesRead DEF ReadBadDevice, Types, DevicesType, DevicePointsType
<1>4. ASSUME NEW line \in Lines, ReadLegacyPoint(line) PROVE Types'
  <2>1. PointsType(legacyPoints')
    <3>1. CASE line.kind = "legacyPoint"
      <4>1. line.attribute \in PointAttributes /\ line.text \in Texts /\ line.address \in Addresses
        BY <3>1, LineFields, LineAddress
      <4> QED BY <1>4, <3>1, <4>1, PointsTypes DEF ReadLegacyPoint, Types
    <3>2. CASE line.kind # "legacyPoint"
      BY <1>4, <3>2 DEF ReadLegacyPoint, Types
    <3> QED BY <3>1, <3>2
  <2> QED BY <1>4, <2>1, LinesRead DEF ReadLegacyPoint, Types, DevicesType, DevicePointsType
<1>5. CASE Finish
  <2>1. DOMAIN config' \subseteq Ids
    <3>1. CASE sawDevice
      BY <1>5, <3>1 DEF Finish, Types, DevicesType
    <3>2. CASE ~sawDevice
      BY <1>5, <3>2, ConfigAssumption DEF Finish
    <3> QED BY <3>1, <3>2
  <2> QED BY <1>5, <2>1 DEF Finish, Types, DevicesType, DevicePointsType
<1>6. CASE UNCHANGED vars
  BY <1>6 DEF vars, Types, DevicesType, DevicePointsType
<1> QED BY <1>1, <1>2, <1>3, <1>4, <1>5, <1>6 DEF Next

(***************************************************************************)
(* The options, devices and points keep their types, whatever the texts: a *)
(* port always fits into its 16 bits, and a limit is a number where it is  *)
(* set (toInt(), toDouble(), applyClientOption()).                         *)
(***************************************************************************)
THEOREM ConfigTypes == Spec => []TypeOK
<1>1. Types => TypeOK
  BY DEF Types, TypeOK, IsMap, DevicesType, DevicePointsType, PointsType
<1>2. Types /\ [Next]_vars => Types'
  BY TypesStep
<1> QED BY <1>1, <1>2, TypesStart, PTL DEF Spec

=============================================================================
