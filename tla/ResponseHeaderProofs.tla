------------------------- MODULE ResponseHeaderProofs -------------------------
(***************************************************************************)
(* The array of body fields never overflows and never holds a key twice,   *)
(* the text fills its allocation, and the header implements HeaderMap, for *)
(* every set of keys and lengths and every limit that is a power of two.   *)
(***************************************************************************)
EXTENDS ResponseHeader, FiniteSetTheorems, TLAPS

-----------------------------------------------------------------------------
(* The invariant.                                                           *)

\* The capacity is a power of two or 0, and the limit is never passed.
CountInv ==
    /\ number_of_body_fields \in 0 .. HTTP_BODY_FIELD_LIMIT
    /\ number_of_body_fields = 0 <=> capacity = 0

KeysInv ==
    \A i, j \in DOMAIN body : body[i].key = body[j].key => i = j

Inv ==
    /\ TypeOK
    /\ FieldsFitArray
    /\ CountInv
    /\ KeysInv

LEMMA InitInv == Init => Inv
  <1> SUFFICES ASSUME Init PROVE Inv
    OBVIOUS
  <1>1. body = <<>> /\ Len(body) = 0 /\ DOMAIN body = {}
    BY DEF Init
  <1>2. TypeOK
    BY <1>1 DEF Init, TypeOK
  <1> QED
    BY <1>1, <1>2, ResponseAssumption
       DEF Init, Inv, FieldsFitArray, CountInv, KeysInv, number_of_body_fields, PowersOfTwo

(***************************************************************************)
(* A header below its limit has, once it has grown, a slot for one more    *)
(* property: a count that is no power of two is not the capacity.          *)
(***************************************************************************)
LEMMA RoomForOneMore ==
    ASSUME Inv, number_of_body_fields # HTTP_BODY_FIELD_LIMIT
    PROVE  /\ number_of_body_fields \in Nat
           /\ number_of_body_fields + 1 <= CapacityFor
           /\ number_of_body_fields + 1 <= HTTP_BODY_FIELD_LIMIT
           /\ CapacityFor \in PowersOfTwo \cup {2 * HTTP_BODY_FIELD_LIMIT}
  <1> DEFINE n == number_of_body_fields
  <1>1. /\ n \in 0 .. HTTP_BODY_FIELD_LIMIT /\ n <= capacity
        /\ capacity \in PowersOfTwo \cup {0, 2 * HTTP_BODY_FIELD_LIMIT}
        /\ n = 0 <=> capacity = 0
    BY DEF Inv, TypeOK, FieldsFitArray, CountInv
  <1>2. HTTP_BODY_FIELD_LIMIT \in {2, 4, 8, 16, 32, 64, 128}
    BY ResponseAssumption DEF PowersOfTwo
  <1>3. n \in Nat /\ n + 1 <= HTTP_BODY_FIELD_LIMIT /\ capacity \in Nat
    BY <1>1, <1>2 DEF PowersOfTwo
  <1>4. CASE n = 0
    BY <1>3, <1>4 DEF CapacityFor, PowersOfTwo
  <1>5. CASE n # 0 /\ n \in PowersOfTwo
    <2>1. CapacityFor = 2 * n
      BY <1>5 DEF CapacityFor
    <2>2. n \in {1, 2, 4, 8, 16, 32, 64}
      BY <1>2, <1>3, <1>5 DEF PowersOfTwo
    <2> QED
      BY <1>3, <2>1, <2>2 DEF PowersOfTwo
  <1>6. CASE n # 0 /\ n \notin PowersOfTwo
    <2>1. CapacityFor = capacity
      BY <1>6 DEF CapacityFor
    <2>2. n # capacity
      BY <1>1, <1>2, <1>3, <1>6 DEF PowersOfTwo
    <2> QED
      BY <1>1, <1>3, <1>6, <2>1, <2>2
  <1> QED
    BY <1>4, <1>5, <1>6

LEMMA LimitIsNatural == HTTP_BODY_FIELD_LIMIT \in Nat
  BY ResponseAssumption DEF PowersOfTwo

LEMMA AppendInv ==
    ASSUME Inv, number_of_body_fields # HTTP_BODY_FIELD_LIMIT, capacity' = CapacityFor,
           UNCHANGED status,
           NEW property \in Properties, AppendProperty(property), called' = property
    PROVE  Inv'
  <1>1. /\ body \in Seq(Properties) /\ body' = Append(body, property)
        /\ \A i \in DOMAIN body : body[i].key # property.key
        /\ total_byte_length \in Int /\ property.length \in Nat
        /\ total_byte_length' = total_byte_length + property.length
    BY ResponseAssumption DEF Inv, TypeOK, AppendProperty, IsNewKey, Properties
  <1>2. /\ Len(body') = Len(body) + 1 /\ body' \in Seq(Properties)
        /\ DOMAIN body = 1 .. Len(body) /\ Len(body) \in Nat
        /\ \A i \in 1 .. Len(body) : body'[i] = body[i]
        /\ body'[Len(body) + 1] = property
    BY <1>1
  <1>3. number_of_body_fields' = number_of_body_fields + 1
    BY <1>2 DEF number_of_body_fields
  <1>4. TypeOK'
    BY <1>1, <1>2, RoomForOneMore DEF Inv, TypeOK
  <1>5. CountInv' /\ FieldsFitArray'
    BY <1>3, RoomForOneMore DEF CountInv, FieldsFitArray
  <1>6. KeysInv'
    <2> SUFFICES ASSUME NEW i \in DOMAIN body', NEW j \in DOMAIN body',
                        body'[i].key = body'[j].key
                 PROVE  i = j
      BY DEF KeysInv
    <2>1. DOMAIN body' = 1 .. Len(body) + 1
      BY <1>2
    <2>2. CASE i \in 1 .. Len(body) /\ j \in 1 .. Len(body)
      BY <1>2, <2>2 DEF Inv, KeysInv
    <2>3. CASE i = Len(body) + 1 \/ j = Len(body) + 1
      BY <1>1, <1>2, <2>1, <2>3
    <2> QED
      BY <1>2, <2>1, <2>2, <2>3
  <1> QED
    BY <1>4, <1>5, <1>6 DEF Inv

LEMMA ReplaceInv ==
    ASSUME Inv, number_of_body_fields # HTTP_BODY_FIELD_LIMIT, capacity' = CapacityFor,
           UNCHANGED status,
           NEW property \in Properties, NEW i \in DOMAIN body, ReplaceProperty(i, property),
           called' = property
    PROVE  Inv'
  <1>0. body \in Seq(Properties) /\ body[i] \in Properties /\ i \in 1 .. Len(body)
    BY DEF Inv, TypeOK
  <1>1. /\ body' = [body EXCEPT ![i] = property]
        /\ body[i].key = property.key
        /\ total_byte_length \in Int /\ property.length \in Nat /\ body[i].length \in Nat
        /\ total_byte_length' = total_byte_length + (property.length - body[i].length)
    BY <1>0, ResponseAssumption DEF Inv, TypeOK, ReplaceProperty, Properties
  <1>2. /\ Len(body') = Len(body) /\ body' \in Seq(Properties)
        /\ DOMAIN body' = DOMAIN body
        /\ \A j \in DOMAIN body : body'[j].key = body[j].key
    BY <1>0, <1>1
  <1>3. number_of_body_fields' = number_of_body_fields /\ number_of_body_fields > 0
    BY <1>0, <1>2 DEF number_of_body_fields
  <1>4. TypeOK'
    BY <1>1, <1>2, RoomForOneMore DEF Inv, TypeOK
  <1>5. capacity' > 0 /\ number_of_body_fields <= capacity'
    BY <1>3, RoomForOneMore, ResponseAssumption DEF PowersOfTwo
  <1>6. CountInv' /\ FieldsFitArray'
    BY <1>3, <1>5 DEF Inv, CountInv, FieldsFitArray
  <1>7. KeysInv'
    BY <1>2 DEF Inv, KeysInv
  <1> QED
    BY <1>4, <1>6, <1>7 DEF Inv

LEMMA SetResponseStatusLineInv ==
    ASSUME Inv, SetResponseStatusLine
    PROVE  Inv'
  <1>1. PICK length \in StatusLengths :
             /\ status' = length
             /\ total_byte_length' = total_byte_length + length + SIZEOF_HEADER_DELIMINATIONS
    BY DEF SetResponseStatusLine
  <1>2. total_byte_length' \in Int
    BY <1>1, ResponseAssumption DEF Inv, TypeOK, SIZEOF_HEADER_DELIMINATIONS
  <1>3. UNCHANGED <<body, capacity, called>>
    BY DEF SetResponseStatusLine
  <1> QED
    BY <1>1, <1>2, <1>3
       DEF Inv, TypeOK, FieldsFitArray, CountInv, KeysInv, number_of_body_fields

-----------------------------------------------------------------------------
(* The theorems.                                                            *)

\* Inv is an inductive invariant of the header.
THEOREM Invariant == Spec => []Inv
  <1>1. Init => Inv
    BY InitInv
  <1>2. Inv /\ [Next]_vars => Inv'
    <2> SUFFICES ASSUME Inv, [Next]_vars PROVE Inv'
      OBVIOUS
    <2>1. CASE SetResponseStatusLine
      BY <2>1, SetResponseStatusLineInv
    <2>2. CASE SetResponseProperty
      <3>1. PICK property \in Properties :
                /\ called' = property /\ UNCHANGED status
                /\ RefuseProperty \/ StoreProperty(property)
        BY <2>2 DEF SetResponseProperty
      <3>2. CASE RefuseProperty
        BY <3>1, <3>2 DEF RefuseProperty, Inv, TypeOK, FieldsFitArray, CountInv, KeysInv,
                          number_of_body_fields
      <3>3. CASE StoreProperty(property)
        BY <3>1, <3>3, AppendInv, ReplaceInv DEF StoreProperty
      <3> QED
        BY <3>1, <3>2, <3>3
    <2>3. CASE UNCHANGED vars
      BY <2>3 DEF Inv, vars, TypeOK, FieldsFitArray, CountInv, KeysInv, number_of_body_fields
    <2> QED
      BY <2>1, <2>2, <2>3 DEF Next
  <1> QED
    BY <1>1, <1>2, PTL DEF Spec

\* The fields of the header keep their types.
THEOREM TypeCorrect == Spec => []TypeOK
  <1>1. Inv => TypeOK
    BY DEF Inv
  <1> QED
    BY <1>1, Invariant, PTL

(***************************************************************************)
(* SetResponseProperty never stores a property behind the array, for any   *)
(* number of calls and any mixture of new and known keys.                  *)
(***************************************************************************)
THEOREM ArrayNeverOverflows == Spec => []FieldsFitArray
  <1>1. Inv => FieldsFitArray
    BY DEF Inv
  <1> QED
    BY <1>1, Invariant, PTL

\* No key is in a header twice.
THEOREM KeysAreUnique == Spec => []KeysInv
  <1>1. Inv => KeysInv
    BY DEF Inv
  <1> QED
    BY <1>1, Invariant, PTL

-----------------------------------------------------------------------------
(* The length of the text ResponseToBuff writes.                            *)

\* Induction over the properties is by the first one for which a claim fails.
LEMMA SmallestMember ==
    ASSUME NEW S \in SUBSET Nat, S # {}
    PROVE  \E m \in S : \A n \in S : m <= n
  <1>1. PICK m \in S : \A n \in S : ~ (<<n, m>> \in OpToRel(<, Nat))
    BY NatLessThanWellFounded, WFMin
  <1>2. ASSUME NEW n \in S
        PROVE  m <= n
    <2>1. m \in Nat /\ n \in Nat
      OBVIOUS
    <2>2. ~ (n < m)
      BY <1>1, <2>1 DEF OpToRel
    <2> QED
      BY <2>1, <2>2
  <1> QED
    BY <1>2

\* What is written after each turn of the loop.
Writes(w, start, properties) ==
    /\ w \in [0 .. Len(properties) -> Int]
    /\ w[0] = start
    /\ \A n \in 1 .. Len(properties) : w[n] = w[n - 1] + properties[n].length

\* The loop can make any number of turns there are properties for.
LEMMA LoopRuns ==
    ASSUME NEW properties \in Seq(Properties), NEW start \in Int, NEW k \in 0 .. Len(properties)
    PROVE  \E w \in [0 .. k -> Int] :
              w[0] = start /\ \A n \in 1 .. k : w[n] = w[n - 1] + properties[n].length
  <1> DEFINE Turns(w, n) == w[0] = start
                            /\ \A i \in 1 .. n : w[i] = w[i - 1] + properties[i].length
             Fails == {n \in 0 .. Len(properties) : ~ \E w \in [0 .. n -> Int] : Turns(w, n)}
  <1>1. /\ Len(properties) \in Nat
        /\ \A n \in 1 .. Len(properties) : properties[n].length \in Nat
    <2>1. Len(properties) \in Nat /\ \A n \in 1 .. Len(properties) : properties[n] \in Properties
      OBVIOUS
    <2>2. \A property \in Properties : property.length \in Nat
      BY ResponseAssumption DEF Properties
    <2> QED
      BY <2>1, <2>2
  <1>2. SUFFICES ASSUME Fails # {} PROVE FALSE
    OBVIOUS
  <1>3. Fails \in SUBSET Nat
    BY <1>1
  <1>4. PICK m \in Fails : \A n \in Fails : m <= n
    <2> HIDE DEF Fails
    <2> QED
      BY <1>2, <1>3, SmallestMember
  <1>5. m \in 0 .. Len(properties) /\ m \in Nat
    BY <1>1
  <1>6. CASE m = 0
    <2>1. [n \in 0 .. 0 |-> start] \in [0 .. 0 -> Int]
      OBVIOUS
    <2>2. Turns([n \in 0 .. 0 |-> start], 0)
      OBVIOUS
    <2> QED
      BY <1>4, <1>6, <2>1, <2>2
  <1>7. CASE m > 0
    <2>1. m - 1 \in 0 .. Len(properties) /\ ~ (m <= m - 1)
      BY <1>1, <1>5, <1>7
    <2>2. m - 1 \notin Fails
      BY <1>4, <2>1
    <2>3. PICK w \in [0 .. m - 1 -> Int] : Turns(w, m - 1)
      BY <2>1, <2>2
    <2> DEFINE v == [n \in 0 .. m |-> IF n = m THEN w[m - 1] + properties[m].length ELSE w[n]]
    <2>4. m \in 1 .. Len(properties) /\ w[m - 1] + properties[m].length \in Int
      BY <1>1, <1>5, <1>7
    <2>5. v \in [0 .. m -> Int]
      BY <1>5, <2>4
    <2>6. v[0] = start
      BY <1>5, <1>7, <2>3
    <2>7. ASSUME NEW i \in 1 .. m
          PROVE  v[i] = v[i - 1] + properties[i].length
      BY <1>5, <1>7, <2>3
    <2> QED
      BY <1>4, <2>5, <2>6, <2>7
  <1> QED
    BY <1>5, <1>6, <1>7

LEMMA TextLengthIsWritten ==
    ASSUME NEW properties \in Seq(Properties), NEW start \in Int
    PROVE  \E w : Writes(w, start, properties) /\ TextLength(start, properties) = w[Len(properties)]
  <1> DEFINE IsLoop(w) == w = [n \in 0 .. Len(properties) |->
                                 IF n = 0 THEN start ELSE w[n - 1] + properties[n].length]
             written == CHOOSE w : IsLoop(w)
  <1>1. Len(properties) \in Nat /\ Len(properties) \in 0 .. Len(properties)
    OBVIOUS
  <1>2. PICK w \in [0 .. Len(properties) -> Int] :
            w[0] = start /\ \A n \in 1 .. Len(properties) : w[n] = w[n - 1] + properties[n].length
    BY <1>1, LoopRuns
  <1>3. IsLoop(w)
    BY <1>1, <1>2
  <1>4. IsLoop(written)
    BY <1>3
  <1>5. TextLength(start, properties) = written[Len(properties)]
    BY DEF TextLength
  <1> HIDE DEF written
  <1>6. /\ DOMAIN written = 0 .. Len(properties) /\ written[0] = start
        /\ \A n \in 1 .. Len(properties) : written[n] = written[n - 1] + properties[n].length
        /\ written = [n \in 0 .. Len(properties) |-> written[n]]
    BY <1>1, <1>4
  <1>7. ASSUME NEW k \in 0 .. Len(properties)
        PROVE  written[k] = w[k]
    <2> DEFINE Differ == {n \in 0 .. Len(properties) : written[n] # w[n]}
    <2>1. SUFFICES ASSUME Differ # {} PROVE FALSE
      OBVIOUS
    <2>2. PICK m \in Differ : \A n \in Differ : m <= n
      <3>1. Differ \in SUBSET Nat
        BY <1>1
      <3> HIDE DEF Differ
      <3> QED
        BY <2>1, <3>1, SmallestMember
    <2>3. m \in 1 .. Len(properties) /\ m - 1 \in 0 .. Len(properties) /\ ~ (m <= m - 1)
      BY <1>1, <1>2, <1>6
    <2>4. written[m - 1] = w[m - 1]
      BY <2>2, <2>3
    <2> QED
      BY <1>2, <1>6, <2>3, <2>4
  <1>8. Writes(written, start, properties)
    BY <1>2, <1>6, <1>7 DEF Writes
  <1> QED
    BY <1>5, <1>8

\* A difference between two counts that each turn keeps up is there at the end.
LEMMA CountsDiffer ==
    ASSUME NEW L \in Nat, NEW w, NEW v, NEW d, v[0] = w[0] + d[0],
           \A n \in 1 .. L : v[n - 1] = w[n - 1] + d[n - 1] => v[n] = w[n] + d[n]
    PROVE  v[L] = w[L] + d[L]
  <1> DEFINE Differ == {n \in 0 .. L : v[n] # w[n] + d[n]}
  <1>1. SUFFICES ASSUME Differ # {} PROVE FALSE
    <2>1. L \in 0 .. L
      OBVIOUS
    <2> QED
      BY <2>1
  <1>2. PICK m \in Differ : \A n \in Differ : m <= n
    <2>1. Differ \in SUBSET Nat
      OBVIOUS
    <2> HIDE DEF Differ
    <2> QED
      BY <1>1, <2>1, SmallestMember
  <1>3. m \in 1 .. L /\ m - 1 \in 0 .. L /\ ~ (m <= m - 1)
    OBVIOUS
  <1>4. v[m - 1] = w[m - 1] + d[m - 1]
    BY <1>2, <1>3
  <1> QED
    BY <1>3, <1>4

LEMMA LengthIsNatural ==
    ASSUME NEW property \in Properties
    PROVE  property.length \in Nat
  BY ResponseAssumption DEF Properties

LEMMA LongerStart ==
    ASSUME NEW properties \in Seq(Properties), NEW start \in Int, NEW more \in Int
    PROVE  TextLength(start + more, properties) = TextLength(start, properties) + more
  <1> DEFINE L == Len(properties)
             d == [n \in 0 .. L |-> more]
  <1>1. L \in Nat /\ start + more \in Int
    OBVIOUS
  <1>2. PICK w : Writes(w, start, properties) /\ TextLength(start, properties) = w[L]
    BY TextLengthIsWritten
  <1>3. PICK v : Writes(v, start + more, properties) /\ TextLength(start + more, properties) = v[L]
    BY <1>1, TextLengthIsWritten
  <1>4. \A n \in 1 .. L : properties[n].length \in Nat
    BY LengthIsNatural
  <1>5. \A n \in 1 .. L : v[n - 1] = w[n - 1] + d[n - 1] => v[n] = w[n] + d[n]
    <2> SUFFICES ASSUME NEW n \in 1 .. L, v[n - 1] = w[n - 1] + d[n - 1]
                 PROVE  v[n] = w[n] + d[n]
      OBVIOUS
    <2>1. n - 1 \in 0 .. L /\ n \in 0 .. L
      BY <1>1
    <2>2. v[n] = v[n - 1] + properties[n].length /\ w[n] = w[n - 1] + properties[n].length
      BY <1>2, <1>3 DEF Writes
    <2>3. w[n - 1] \in Int
      BY <1>2, <2>1 DEF Writes
    <2>4. d[n] = more /\ d[n - 1] = more
      BY <2>1
    <2> HIDE DEF d
    <2> QED
      BY <1>4, <2>2, <2>3, <2>4
  <1>6. v[0] = w[0] + d[0]
    BY <1>1, <1>2, <1>3 DEF Writes
  <1>7. v[L] = w[L] + d[L]
    <2> HIDE DEF L, d
    <2> QED
      BY <1>1, <1>5, <1>6, CountsDiffer
  <1> QED
    BY <1>1, <1>2, <1>3, <1>7

LEMMA OnePropertyMore ==
    ASSUME NEW properties \in Seq(Properties), NEW start \in Int, NEW property \in Properties
    PROVE  TextLength(start, Append(properties, property))
             = TextLength(start, properties) + property.length
  <1> DEFINE L      == Len(properties)
             longer == Append(properties, property)
             d      == [n \in 0 .. L |-> 0]
  <1>1. /\ L \in Nat /\ longer \in Seq(Properties) /\ Len(longer) = L + 1
        /\ longer[L + 1] = property
        /\ \A n \in 1 .. L : longer[n] = properties[n]
    OBVIOUS
  <1>2. PICK w : Writes(w, start, properties) /\ TextLength(start, properties) = w[L]
    BY TextLengthIsWritten
  <1>3. PICK v : Writes(v, start, longer) /\ TextLength(start, longer) = v[L + 1]
    BY <1>1, TextLengthIsWritten
  <1>4. \A n \in 1 .. L : properties[n].length \in Nat
    BY LengthIsNatural
  <1> HIDE DEF longer
  <1>5. \A n \in 1 .. L : v[n - 1] = w[n - 1] + d[n - 1] => v[n] = w[n] + d[n]
    <2> SUFFICES ASSUME NEW n \in 1 .. L, v[n - 1] = w[n - 1] + d[n - 1]
                 PROVE  v[n] = w[n] + d[n]
      OBVIOUS
    <2>1. n - 1 \in 0 .. L /\ n \in 0 .. L /\ n \in 1 .. L + 1
      BY <1>1
    <2>2. v[n] = v[n - 1] + longer[n].length /\ w[n] = w[n - 1] + properties[n].length
      BY <1>1, <1>2, <1>3, <2>1 DEF Writes
    <2>3. w[n - 1] \in Int /\ longer[n] = properties[n]
      BY <1>1, <1>2, <2>1 DEF Writes
    <2>4. d[n] = 0 /\ d[n - 1] = 0
      BY <2>1
    <2> HIDE DEF d
    <2> QED
      BY <1>4, <2>2, <2>3, <2>4
  <1>6. v[0] = w[0] + d[0]
    BY <1>1, <1>2, <1>3 DEF Writes
  <1>7. v[L] = w[L] + d[L]
    <2> HIDE DEF L, d
    <2> QED
      BY <1>1, <1>5, <1>6, CountsDiffer
  <1>8. w[L] \in Int /\ d[L] = 0
    BY <1>1, <1>2 DEF Writes
  <1>9. v[L] = w[L] /\ v[L + 1] = v[L] + property.length
    <2>1. v[L + 1] = v[L + 1 - 1] + longer[L + 1].length
      BY <1>1, <1>3 DEF Writes
    <2>2. L + 1 - 1 = L
      BY <1>1
    <2> HIDE DEF L, d
    <2> QED
      BY <1>1, <1>7, <1>8, <2>1, <2>2
  <1> QED
    BY <1>2, <1>3, <1>9 DEF longer

LEMMA OnePropertyChanged ==
    ASSUME NEW properties \in Seq(Properties), NEW start \in Int, NEW property \in Properties,
           NEW i \in 1 .. Len(properties)
    PROVE  TextLength(start, [properties EXCEPT ![i] = property])
             = TextLength(start, properties) + (property.length - properties[i].length)
  <1> DEFINE L       == Len(properties)
             changed == [properties EXCEPT ![i] = property]
             diff    == property.length - properties[i].length
             d       == [n \in 0 .. L |-> IF n >= i THEN diff ELSE 0]
  <1>1. /\ L \in Nat /\ changed \in Seq(Properties) /\ Len(changed) = L
        /\ changed[i] = property
        /\ \A n \in 1 .. L : n # i => changed[n] = properties[n]
    OBVIOUS
  <1>2. PICK w : Writes(w, start, properties) /\ TextLength(start, properties) = w[L]
    BY TextLengthIsWritten
  <1>3. PICK v : Writes(v, start, changed) /\ TextLength(start, changed) = v[L]
    <2> HIDE DEF changed
    <2> QED
      BY <1>1, TextLengthIsWritten
  <1>4. property.length \in Nat /\ \A n \in 1 .. L : properties[n].length \in Nat
    BY LengthIsNatural
  <1>5. diff \in Int /\ d \in [0 .. L -> Int]
    BY <1>1, <1>4
  <1> HIDE DEF changed
  <1>6. \A n \in 1 .. L : v[n - 1] = w[n - 1] + d[n - 1] => v[n] = w[n] + d[n]
    <2> SUFFICES ASSUME NEW n \in 1 .. L, v[n - 1] = w[n - 1] + d[n - 1]
                 PROVE  v[n] = w[n] + d[n]
      OBVIOUS
    <2>1. n - 1 \in 0 .. L /\ n \in 0 .. L /\ n \in Int /\ i \in Int
      BY <1>1
    <2>2. v[n] = v[n - 1] + changed[n].length /\ w[n] = w[n - 1] + properties[n].length
      BY <1>1, <1>2, <1>3 DEF Writes
    <2>3. w[n - 1] \in Int
      BY <1>2, <2>1 DEF Writes
    <2>4. d[n] = (IF n >= i THEN diff ELSE 0) /\ d[n - 1] = (IF n - 1 >= i THEN diff ELSE 0)
      BY <2>1
    <2>5. changed[n].length = properties[n].length + (IF n = i THEN diff ELSE 0)
      BY <1>1, <1>4
    <2>6. properties[n].length \in Nat
      BY <1>4
    <2> HIDE DEF d, diff
    <2> QED
      BY <1>5, <2>1, <2>2, <2>3, <2>4, <2>5, <2>6
  <1>7. v[0] = w[0] + d[0]
    BY <1>1, <1>2, <1>3 DEF Writes
  <1>8. v[L] = w[L] + d[L]
    <2> HIDE DEF L, d
    <2> QED
      BY <1>1, <1>6, <1>7, CountsDiffer
  <1>9. d[L] = diff
    BY <1>1
  <1> QED
    BY <1>2, <1>3, <1>8, <1>9 DEF changed

(***************************************************************************)
(* total_byte_length is kept up to date with every property, before and    *)
(* after the status line is set: it is always the length of the text.      *)
(***************************************************************************)
StatusBytes == IF status = 0 THEN 0 ELSE status + SIZEOF_HEADER_DELIMINATIONS

TotalInv == total_byte_length = TextLength(StatusBytes, body)

LEMMA TotalInit == Init => TotalInv
  <1> SUFFICES ASSUME Init PROVE TotalInv
    OBVIOUS
  <1>1. body = <<>> /\ StatusBytes = 0 /\ total_byte_length = 0
    BY DEF Init, StatusBytes
  <1>2. <<>> \in Seq(Properties) /\ 0 \in Int /\ Len(<<>>) = 0
    OBVIOUS
  <1>3. TextLength(0, <<>>) = 0
    <2>1. PICK w : Writes(w, 0, <<>>) /\ TextLength(0, <<>>) = w[Len(<<>>)]
      BY <1>2, TextLengthIsWritten
    <2> QED
      BY <1>2, <2>1 DEF Writes
  <1> QED
    BY <1>1, <1>3 DEF TotalInv

LEMMA StatusType ==
    ASSUME Inv
    PROVE  StatusBytes \in Int /\ body \in Seq(Properties) /\ status \in Nat
  BY ResponseAssumption DEF Inv, TypeOK, StatusBytes, SIZEOF_HEADER_DELIMINATIONS

LEMMA TotalStep ==
    ASSUME Inv, TotalInv, [Next]_vars
    PROVE  TotalInv'
  <1>1. StatusBytes \in Int /\ body \in Seq(Properties) /\ status \in Nat
    BY StatusType
  <1>2. CASE SetResponseStatusLine
    <2>1. PICK length \in StatusLengths :
               /\ status = 0 /\ status' = length /\ body' = body
               /\ total_byte_length' = total_byte_length + length + SIZEOF_HEADER_DELIMINATIONS
      BY <1>2 DEF SetResponseStatusLine
    <2>2. length \in Nat \ {0}
      BY ResponseAssumption
    <2>3. /\ StatusBytes = 0 /\ StatusBytes' = length + 7
          /\ total_byte_length \in Int /\ total_byte_length' = total_byte_length + (length + 7)
      BY <2>1, <2>2 DEF StatusBytes, SIZEOF_HEADER_DELIMINATIONS, Inv, TypeOK
    <2>4. TextLength(0 + (length + 7), body) = TextLength(0, body) + (length + 7)
      <3>1. 0 \in Int /\ length + 7 \in Int
        BY <2>2
      <3> QED
        BY <1>1, <3>1, LongerStart
    <2>5. 0 + (length + 7) = length + 7
      BY <2>2
    <2> QED
      BY <2>1, <2>3, <2>4, <2>5 DEF TotalInv
  <1>3. CASE SetResponseProperty
    <2>1. StatusBytes' = StatusBytes
      BY <1>3 DEF SetResponseProperty, StatusBytes
    <2>2. PICK property \in Properties :
              \/ RefuseProperty
              \/ AppendProperty(property)
              \/ \E i \in DOMAIN body : ReplaceProperty(i, property)
      BY <1>3 DEF SetResponseProperty, StoreProperty
    <2>5. CASE RefuseProperty
      BY <2>1, <2>5 DEF RefuseProperty, TotalInv
    <2>3. CASE AppendProperty(property)
      BY <1>1, <2>1, <2>3, OnePropertyMore DEF AppendProperty, TotalInv
    <2>4. CASE \E i \in DOMAIN body : ReplaceProperty(i, property)
      <3>1. PICK i \in DOMAIN body : ReplaceProperty(i, property)
        BY <2>4
      <3>2. i \in 1 .. Len(body)
        BY <1>1
      <3> QED
        BY <1>1, <2>1, <3>1, <3>2, OnePropertyChanged DEF ReplaceProperty, TotalInv
    <2> QED
      BY <2>2, <2>3, <2>4, <2>5
  <1>4. CASE UNCHANGED vars
    BY <1>4 DEF vars, TotalInv, StatusBytes
  <1> QED
    BY <1>2, <1>3, <1>4 DEF Next

(***************************************************************************)
(* ResponseToBuff fills what it allocates to the byte, for every sequence  *)
(* of properties that were set and replaced before it: total_byte_length,  *)
(* which is only ever added to and taken from, is the length of the text.  *)
(***************************************************************************)
THEOREM HeaderTextFits == Spec => []TextFillsBuffer
  <1>1. Spec => []TotalInv
    BY TotalInit, TotalStep, Invariant, PTL DEF Spec
  <1>2. TotalInv => TextFillsBuffer
    BY DEF TotalInv, TextFillsBuffer, StatusBytes, ResponseToBuffWrites, ResponseToBuffAllocates
  <1> QED
    BY <1>1, <1>2, PTL

-----------------------------------------------------------------------------
(* The header implements HeaderMap.                                         *)

\* The map a header stands for, once its keys are unique.
FieldsAreBody ==
    /\ DOMAIN lastSet = {body[i].key : i \in DOMAIN body}
    /\ \A i \in DOMAIN body : lastSet[body[i].key] = {body[i].length}

LEMMA FieldsOfBody == Inv => FieldsAreBody
  <1> SUFFICES ASSUME Inv PROVE FieldsAreBody
    OBVIOUS
  <1>1. DOMAIN lastSet = {body[i].key : i \in DOMAIN body}
    BY DEF lastSet
  <1>2. ASSUME NEW i \in DOMAIN body
        PROVE  lastSet[body[i].key] = {body[i].length}
    <2>1. lastSet[body[i].key]
             = {body[k].length : k \in {j \in DOMAIN body : body[j].key = body[i].key}}
      BY DEF lastSet
    <2>2. {j \in DOMAIN body : body[j].key = body[i].key} = {i}
      BY DEF Inv, KeysInv
    <2> QED
      BY <2>1, <2>2
  <1> QED
    BY <1>1, <1>2 DEF FieldsAreBody

LEMMA FieldsOfNextBody == Inv' => FieldsAreBody'
  BY FieldsOfBody, PTL

\* It has no more keys than the array has properties.
LEMMA KeysAreCounted ==
    ASSUME Inv
    PROVE  /\ IsFiniteSet(DOMAIN lastSet)
           /\ Cardinality(DOMAIN lastSet) \in Nat
           /\ Cardinality(DOMAIN lastSet) <= number_of_body_fields
  <1> DEFINE keyOf == [i \in 1 .. Len(body) |-> body[i].key]
  <1>1. DOMAIN body = 1 .. Len(body) /\ Len(body) \in Nat
    BY DEF Inv, TypeOK
  <1>2. keyOf \in Surjection(1 .. Len(body), DOMAIN lastSet)
    BY <1>1, FieldsOfBody DEF FieldsAreBody, Surjection
  <1>3. IsFiniteSet(1 .. Len(body)) /\ Cardinality(1 .. Len(body)) = Len(body)
    <2>1. 1 \in Int /\ Len(body) \in Int
      BY <1>1
    <2>2. /\ IsFiniteSet(1 .. Len(body))
          /\ Cardinality(1 .. Len(body)) = IF 1 > Len(body) THEN 0 ELSE Len(body) - 1 + 1
      BY <2>1, FS_Interval
    <2> QED
      BY <1>1, <2>2
  <1> HIDE DEF keyOf
  <1>4. IsFiniteSet(DOMAIN lastSet) /\ Cardinality(DOMAIN lastSet) <= Len(body)
    BY <1>2, <1>3, FS_Surjection
  <1> QED
    BY <1>4, FS_CardinalityType DEF number_of_body_fields

\* A property that is appended is a new key of the map.
LEMMA AppendSetsField ==
    ASSUME Inv, Inv', number_of_body_fields # HTTP_BODY_FIELD_LIMIT,
           NEW property \in Properties, AppendProperty(property), called' = property
    PROVE  Map!SetField(property.key, property.length)
  <1> DEFINE key  == property.key
             next == [k \in DOMAIN lastSet \cup {key} |->
                         IF k = key THEN {property.length} ELSE lastSet[k]]
  <1>1. /\ body \in Seq(Properties) /\ body' = Append(body, property)
        /\ \A i \in DOMAIN body : body[i].key # key
    BY DEF Inv, TypeOK, AppendProperty, IsNewKey
  <1>2. /\ DOMAIN body = 1 .. Len(body) /\ Len(body) \in Nat
        /\ DOMAIN body' = 1 .. Len(body) + 1
        /\ \A i \in DOMAIN body : body'[i] = body[i]
        /\ body'[Len(body) + 1] = property
    BY <1>1
  <1>3. Cardinality(DOMAIN lastSet) < HTTP_BODY_FIELD_LIMIT
    BY KeysAreCounted, RoomForOneMore, LimitIsNatural
  <1>4. /\ DOMAIN lastSet' = {body'[i].key : i \in DOMAIN body'}
        /\ \A i \in DOMAIN body' : lastSet'[body'[i].key] = {body'[i].length}
    BY FieldsOfNextBody DEF FieldsAreBody
  <1>5. DOMAIN lastSet' = DOMAIN lastSet \cup {key}
    BY <1>1, <1>2, <1>4, FieldsOfBody DEF FieldsAreBody
  <1>6. ASSUME NEW k \in DOMAIN lastSet \cup {key}
        PROVE  lastSet'[k] = next[k]
    <2>1. CASE k = key
      BY <1>2, <1>4, <2>1
    <2>2. CASE k # key
      <3>1. PICK i \in DOMAIN body : k = body[i].key
        BY <2>2, FieldsOfBody DEF FieldsAreBody
      <3>2. lastSet[k] = {body[i].length} /\ lastSet'[k] = {body[i].length}
        BY <1>2, <1>4, <3>1, FieldsOfBody DEF FieldsAreBody
      <3> QED
        BY <2>2, <3>2
    <2> QED
      BY <2>1, <2>2
  <1>7. lastSet' = next
    <2>1. lastSet' = [k \in DOMAIN lastSet' |-> lastSet'[k]]
      BY DEF lastSet
    <2> QED
      BY <1>5, <1>6, <2>1
  <1>8. called' = [key |-> key, length |-> property.length]
    BY DEF Properties
  <1>9. Map!HasPlaceFor(key)
    BY <1>3 DEF Map!HasPlaceFor, Map!Cardinality, Cardinality
  <1> QED
    BY <1>7, <1>8, <1>9 DEF Map!SetField

\* A property that replaces another gives its key the new value.
LEMMA ReplaceSetsField ==
    ASSUME Inv, Inv', number_of_body_fields # HTTP_BODY_FIELD_LIMIT,
           NEW property \in Properties, NEW n \in DOMAIN body, ReplaceProperty(n, property),
           called' = property
    PROVE  Map!SetField(property.key, property.length)
  <1> DEFINE key  == property.key
             next == [k \in DOMAIN lastSet \cup {key} |->
                         IF k = key THEN {property.length} ELSE lastSet[k]]
  <1>1. /\ body \in Seq(Properties) /\ body' = [body EXCEPT ![n] = property]
        /\ body[n].key = key
    BY DEF Inv, TypeOK, ReplaceProperty
  <1>2. /\ DOMAIN body' = DOMAIN body /\ body'[n] = property
        /\ \A i \in DOMAIN body : i # n => body'[i] = body[i]
        /\ \A i \in DOMAIN body : body'[i].key = body[i].key
    BY <1>1
  <1>3. key \in DOMAIN lastSet
    BY <1>1, FieldsOfBody DEF FieldsAreBody
  <1>4. /\ DOMAIN lastSet' = {body'[i].key : i \in DOMAIN body'}
        /\ \A i \in DOMAIN body' : lastSet'[body'[i].key] = {body'[i].length}
    BY FieldsOfNextBody DEF FieldsAreBody
  <1>5. DOMAIN lastSet' = DOMAIN lastSet \cup {key}
    BY <1>1, <1>2, <1>4, FieldsOfBody DEF FieldsAreBody
  <1>6. ASSUME NEW k \in DOMAIN lastSet \cup {key}
        PROVE  lastSet'[k] = next[k]
    <2>1. CASE k = key
      BY <1>1, <1>2, <1>4, <2>1
    <2>2. CASE k # key
      <3>1. PICK i \in DOMAIN body : k = body[i].key
        BY <2>2, FieldsOfBody DEF FieldsAreBody
      <3>2. i # n /\ body'[i] = body[i]
        BY <1>1, <1>2, <2>2, <3>1
      <3>3. lastSet[k] = {body[i].length} /\ lastSet'[k] = {body[i].length}
        BY <1>2, <1>4, <3>1, <3>2, FieldsOfBody DEF FieldsAreBody
      <3> QED
        BY <2>2, <3>3
    <2> QED
      BY <2>1, <2>2
  <1>7. lastSet' = next
    <2>1. lastSet' = [k \in DOMAIN lastSet' |-> lastSet'[k]]
      BY DEF lastSet
    <2> QED
      BY <1>5, <1>6, <2>1
  <1>8. called' = [key |-> key, length |-> property.length]
    BY DEF Properties
  <1>9. Map!HasPlaceFor(key)
    BY <1>3 DEF Map!HasPlaceFor
  <1> QED
    BY <1>7, <1>8, <1>9 DEF Map!SetField

\* What a call of SetResponseProperty is to the map.
LEMMA CallSetsField ==
    ASSUME Inv, Inv', [Next]_vars
    PROVE  \/ UNCHANGED <<lastSet, called>>
           \/ Map!MapNext
           \/ number_of_body_fields = HTTP_BODY_FIELD_LIMIT /\ UNCHANGED lastSet
  <1>1. CASE SetResponseProperty
    <2>1. PICK property \in Properties :
              called' = property /\ (RefuseProperty \/ StoreProperty(property))
      BY <1>1 DEF SetResponseProperty
    <2>2. CASE RefuseProperty
      BY <2>2 DEF RefuseProperty, lastSet
    <2>3. CASE StoreProperty(property)
      <3>1. Map!SetField(property.key, property.length)
        BY <2>1, <2>3, AppendSetsField, ReplaceSetsField DEF StoreProperty
      <3>2. property.key \in Keys /\ property.length \in Lengths
        BY DEF Properties
      <3> QED
        BY <3>1, <3>2 DEF Map!MapNext
    <2> QED
      BY <2>1, <2>2, <2>3
  <1>2. CASE SetResponseStatusLine \/ UNCHANGED vars
    BY <1>2 DEF SetResponseStatusLine, vars, lastSet
  <1> QED
    BY <1>1, <1>2 DEF Next

LEMMA MapIsEmptyFirst == Init => Map!MapInit
  <1> SUFFICES ASSUME Init PROVE lastSet = [key \in {} |-> {}] /\ called = NoProperty
    BY DEF Map!MapInit
  <1>1. DOMAIN body = {} /\ called = NoProperty
    BY DEF Init
  <1> QED
    BY <1>1 DEF lastSet

(***************************************************************************)
(* For every caller SetResponseProperty and SetResponseStatusLine are, as  *)
(* long as the array is not full, the map of include/http_parser.h:        *)
(* replacing, appending and growing the array lose no key and double none; *)
(* and a full header keeps what it has.                                    *)
(***************************************************************************)
THEOREM HeaderMapUntilFull == Spec => MapUntilFull
  <1>1. Inv /\ Inv' /\ [Next]_vars => [Map!MapNext \/ KeptByFullHeader]_<<lastSet, called>>
    BY CallSetsField DEF KeptByFullHeader
  <1> QED
    BY <1>1, MapIsEmptyFirst, Invariant, PTL DEF Spec, MapUntilFull

\* Callers that know fewer keys than there are places never fill the array.
FewerKeysThanPlaces ==
    IsFiniteSet(Keys) /\ Cardinality(Keys) < HTTP_BODY_FIELD_LIMIT

LEMMA NeverFull ==
    ASSUME Inv, FewerKeysThanPlaces
    PROVE  number_of_body_fields # HTTP_BODY_FIELD_LIMIT
  <1> DEFINE keyOf == [i \in 1 .. Len(body) |-> body[i].key]
  <1>1. DOMAIN body = 1 .. Len(body) /\ Len(body) \in Nat
    BY DEF Inv, TypeOK
  <1>2. keyOf \in Injection(1 .. Len(body), Keys)
    <2>1. \A i \in 1 .. Len(body) : body[i].key \in Keys
      <3>1. \A i \in 1 .. Len(body) : body[i] \in Properties
        BY DEF Inv, TypeOK
      <3> QED
        BY <3>1 DEF Properties
    <2>2. keyOf \in [1 .. Len(body) -> Keys]
      BY <2>1
    <2>3. \A i, j \in 1 .. Len(body) : keyOf[i] = keyOf[j] => i = j
      BY <1>1 DEF Inv, KeysInv
    <2> QED
      BY <2>2, <2>3 DEF Injection, IsInjective
  <1>3. Cardinality(1 .. Len(body)) = Len(body)
    <2>1. 1 \in Int /\ Len(body) \in Int
      BY <1>1
    <2>2. Cardinality(1 .. Len(body)) = IF 1 > Len(body) THEN 0 ELSE Len(body) - 1 + 1
      BY <2>1, FS_Interval
    <2> QED
      BY <1>1, <2>2
  <1> HIDE DEF keyOf
  <1>4. Cardinality(1 .. Len(body)) <= Cardinality(Keys)
    BY <1>2, FS_Injection DEF FewerKeysThanPlaces
  <1>5. Cardinality(Keys) \in Nat /\ Cardinality(Keys) < HTTP_BODY_FIELD_LIMIT
    BY FS_CardinalityType DEF FewerKeysThanPlaces
  <1>6. Len(body) <= Cardinality(Keys)
    BY <1>3, <1>4
  <1> DEFINE n == Len(body)
             k == Cardinality(Keys)
  <1>7. n \in Nat /\ k \in Nat /\ n <= k /\ k < HTTP_BODY_FIELD_LIMIT
    BY <1>1, <1>5, <1>6
  <1> HIDE DEF n, k
  <1>8. n # HTTP_BODY_FIELD_LIMIT
    BY <1>7, LimitIsNatural
  <1> QED
    BY <1>8 DEF n, number_of_body_fields

(***************************************************************************)
(* SetResponseProperty does what include/http_parser.h says of it, without *)
(* exception, for callers that know fewer keys than the array has places:  *)
(* src/src/http.c knows five, and the limit is 128.                        *)
(***************************************************************************)
THEOREM FewKeysMakeAMap ==
    ASSUME FewerKeysThanPlaces
    PROVE  Spec => Map!MapSpec
  <1>1. Inv /\ Inv' /\ [Next]_vars => [Map!MapNext]_<<lastSet, called>>
    BY CallSetsField, NeverFull
  <1> QED
    BY <1>1, MapIsEmptyFirst, Invariant, PTL DEF Spec, Map!MapSpec

=============================================================================
