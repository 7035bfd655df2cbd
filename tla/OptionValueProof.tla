-------------------------- MODULE OptionValueProof --------------------------
(***************************************************************************)
(* The values of options and arguments, for all widths of the types, all   *)
(* words and all declarations.                                             *)
(***************************************************************************)
EXTENDS OptionValue, SequenceTheorems, TLAPS

\* A value converted to an integral type is one of the type, and a value of
\* the type is kept.
LEMMA CastInType ==
  ASSUME NEW t \in Type, NEW v \in Int
  PROVE  Cast(t, v) \in Values(t) /\ (v \in Values(t) => Cast(t, v) = v)
<1>1. t.lo \in Int /\ t.hi \in Int /\ t.lo <= t.hi
  BY TypeAssumption DEF Wide
<1>2. \A x, n \in Int : n > 0 => x % n \in 0..(n - 1)
  OBVIOUS
<1>3. t.conv = "bool" => 1 \in Values(t)
  BY TypeAssumption DEF Values
<1>4. (v - t.lo) % (t.hi - t.lo + 1) \in 0..(t.hi - t.lo)
  BY <1>1, <1>2
<1>5. t.lo + ((v - t.lo) % (t.hi - t.lo + 1)) \in Values(t)
  BY <1>1, <1>4 DEF Values
<1>6. QED
  BY <1>3, <1>5 DEF Cast

\* An accepted word is stored as what it means, or wraps around at 64 bits.
LEMMA ConvertedStands ==
  ASSUME valueT \in Type, NEW w \in Word, Converts(valueT, w)
  PROVE  Converted(valueT, w) \in Values(valueT) /\ Stands(Converted(valueT, w), w)
<1>1. w.mag \in Nat /\ w.neg \in BOOLEAN /\ w.number \in BOOLEAN
  BY WordAssumption
<1>2. valueT.conv \in {"uint", "int", "chrono", "bool"}
  BY TypeAssumption
<1>3. CASE valueT.conv = "uint"
  BY <1>1, <1>3, TypeAssumption
     DEF Converts, Converted, Stands, Meant, Values, Stoull, StoullFits, Wide
<1>4. CASE valueT.conv = "int"
  BY <1>1, <1>4, TypeAssumption
     DEF Converts, Converted, Stands, Meant, Values, Stoll, StollFits, Wide
<1>5. CASE valueT.conv = "chrono"
  BY <1>1, <1>5, TypeAssumption
     DEF Converts, Converted, Stands, Meant, Values, Stoull, StoullFits, Wide
<1>6. CASE valueT.conv = "bool"
  BY <1>6, TypeAssumption DEF Converts, Converted, Stands, Meant, Values
<1>7. QED
  BY <1>2, <1>3, <1>4, <1>5, <1>6

\* A refused word is no number, or one the type cannot represent.
LEMMA RefusedIsImpossible ==
  ASSUME valueT \in Type, NEW w \in Word, ~Converts(valueT, w)
  PROVE  ~IsNumeral(w) \/ Meant(w) \notin Values(valueT)
<1>1. w.mag \in Nat /\ w.neg \in BOOLEAN /\ w.number \in BOOLEAN
  BY WordAssumption
<1>2. valueT.conv \in {"uint", "int", "chrono", "bool"}
  BY TypeAssumption
<1>3. CASE valueT.conv = "uint"
  BY <1>1, <1>3, TypeAssumption
     DEF Converts, IsNumeral, Meant, Values, Stoull, StoullFits, Wide
<1>4. CASE valueT.conv = "int"
  BY <1>1, <1>4, TypeAssumption
     DEF Converts, IsNumeral, Meant, Values, Stoll, StollFits, Wide
<1>5. CASE valueT.conv = "chrono"
  BY <1>1, <1>5, TypeAssumption
     DEF Converts, IsNumeral, Meant, Values, Stoull, StoullFits, Wide
<1>6. CASE valueT.conv = "bool"
  BY <1>6 DEF Converts, IsNumeral
<1>7. QED
  BY <1>2, <1>3, <1>4, <1>5, <1>6

-----------------------------------------------------------------------------

\* While the constructor runs, nothing was found yet.
Untouched ==
  phase # "ready" =>
    /\ ~given /\ value = <<>> /\ heard = <<>> /\ times = 0 /\ failed = {}
    /\ outcome # "valid"

\* A given option or argument has a value, or a conversion failed.
GivenIsDefined == (given /\ failed = {}) => Defined

\* bool and count options have the types of their class.
OwnType ==
  /\ kind = "bool_option" => valueT.conv = "bool"
  /\ kind = "count_option" => valueT.conv = "uint"

\* What the last validation has found still holds.
ValidIsAcceptable == outcome = "valid" => Acceptable

IInv ==
  /\ TypeOK
  /\ Untouched
  /\ OwnType
  /\ GivenIsDefined
  /\ ValidIsAcceptable
  /\ ValueIsAsMeant
  /\ RefusesOnlyTheImpossible
  /\ CountsOccurrences

LEMMA InitIInv == Init => IInv
<1> SUFFICES ASSUME Init PROVE IInv
  OBVIOUS
<1>1. PICK d \in Declaration : kind = d.kind /\ valueT = d.type /\ params = d.params
  BY DEF Init
<1>2. kind \in Repeated \cup Scalar \cup WithoutParam /\ valueT \in Type
      /\ params \in Seq(Param)
  BY <1>1, DeclarationAssumption
<1>3. OwnType
  BY <1>1, DeclarationAssumption DEF OwnType
<1>4. TypeOK
  <2>1. DeclaredOK
    <3>1. default \in Seq(Values(valueT)) /\ Len(default) <= 1
      BY DEF Init
    <3>2. checks \subseteq MinMax \cup NotNull
      BY DEF Init
    <3>3. mandatory \in BOOLEAN /\ hooked \in BOOLEAN
      BY DEF Init
    <3>4. QED
      BY <1>2, <3>1, <3>2, <3>3 DEF DeclaredOK
  <2>2. ValueOK
    BY DEF Init, ValueOK
  <2>3. QED
    <3>1. times \in 0..MaxTimes
      BY BoundAssumption DEF Init
    <3>2. heard \in Seq(Word) /\ failed \subseteq Word
      BY DEF Init
    <3>3. given \in BOOLEAN
      BY DEF Init
    <3>4. QED
      BY <1>2, <2>1, <2>2, <3>1, <3>2, <3>3 DEF Init, TypeOK
<1>5. QED
  BY <1>3, <1>4 DEF Init, IInv, Untouched, GivenIsDefined, ValidIsAcceptable,
     ValueIsAsMeant, RefusesOnlyTheImpossible, CountsOccurrences

LEMMA ProcessParamIInv == IInv /\ ProcessParam => IInv'
<1> SUFFICES ASSUME IInv, ProcessParam PROVE IInv'
  OBVIOUS
<1> DEFINE p == Head(params)
<1>0. params \in Seq(Param) /\ params # <<>> /\ DeclaredOK
  BY DEF IInv, TypeOK, ProcessParam
<1>1. p \in Param /\ Tail(params) \in Seq(Param)
  BY <1>0
<1>2. p.what = "default" => p.value \in Int
  BY <1>1 DEF Param, Default, MinMax, NotNull, Purpose, Found
<1>3. p.what = "purpose" => p.mandatory \in BOOLEAN
  BY <1>1 DEF Param, Default, MinMax, NotNull, Purpose, Found
<1>4. p.what \in {"min_max", "not_null"} => p \in MinMax \cup NotNull
  BY <1>1 DEF Param, Default, MinMax, NotNull, Purpose, Found
<1>5. p.what = "default" => Cast(valueT, p.value) \in Values(valueT)
  BY <1>0, <1>2, CastInType DEF DeclaredOK
<1>6. default' \in Seq(Values(valueT)) /\ Len(default') <= 1
  <2>1. CASE p.what = "default"
    <3>1. default' = <<Cast(valueT, p.value)>>
      BY <2>1 DEF ProcessParam
    <3>2. QED
      BY <1>5, <2>1, <3>1
  <2>2. CASE p.what # "default"
    BY <1>0, <2>2 DEF ProcessParam, DeclaredOK
  <2>3. QED
    BY <2>1, <2>2
<1>7. checks' \subseteq MinMax \cup NotNull
  BY <1>0, <1>4 DEF ProcessParam, DeclaredOK
<1>8. mandatory' \in BOOLEAN /\ hooked' \in BOOLEAN
  BY <1>0, <1>3 DEF ProcessParam, DeclaredOK
<1>9. TypeOK'
  <2>1. DeclaredOK'
    BY <1>0, <1>6, <1>7, <1>8 DEF ProcessParam, DeclaredOK, Values
  <2>2. ValueOK'
    BY DEF ProcessParam, IInv, TypeOK, ValueOK, Values
  <2>3. QED
    BY <1>1, <2>1, <2>2 DEF ProcessParam, IInv, TypeOK, history
<1>10. phase = "built" /\ phase' = "built"
  BY DEF ProcessParam
<1>11. (RefusesOnlyTheImpossible /\ OwnType /\ Untouched)'
  BY <1>10 DEF ProcessParam, IInv, history, RefusesOnlyTheImpossible, OwnType,
     Untouched, IsNumeral, Meant, Values
<1>12. (GivenIsDefined /\ ValidIsAcceptable /\ ValueIsAsMeant /\ CountsOccurrences)'
  BY <1>10, <1>11 DEF Untouched, GivenIsDefined, ValidIsAcceptable,
     ValueIsAsMeant, CountsOccurrences
<1>13. QED
  BY <1>9, <1>11, <1>12 DEF IInv

LEMMA ConstructIInv == IInv /\ Construct => IInv'
<1> SUFFICES ASSUME IInv, Construct PROVE IInv'
  OBVIOUS
<1>1. /\ UNCHANGED <<kind, valueT, default, checks, mandatory, hooked, params,
                     given, times, heard, failed>>
      /\ phase = "built"
  BY DEF Construct, conf, history
<1>2. ~given /\ value = <<>> /\ heard = <<>> /\ times = 0 /\ failed = {}
      /\ outcome # "valid"
  BY <1>1 DEF IInv, Untouched
<1>3. outcome' # "valid" /\ outcome' \in {"none", "ok", "exit", "error", "valid"}
  BY <1>2 DEF Construct, IInv, TypeOK
<1>4. (RefusesOnlyTheImpossible /\ OwnType /\ GivenIsDefined /\ ValidIsAcceptable)'
  BY <1>1, <1>2, <1>3 DEF IInv, RefusesOnlyTheImpossible, OwnType,
     GivenIsDefined, ValidIsAcceptable
<1>5. CASE RefusesDefault
  <2>1. phase' = "refused" /\ value' = <<>>
    BY <1>2, <1>5 DEF Construct
  <2>2. TypeOK'
    <3>1. DeclaredOK' /\ ValueOK'
      BY <1>1, <2>1 DEF IInv, TypeOK, DeclaredOK, ValueOK, Values
    <3>2. QED
      BY <1>1, <1>3, <2>1, <3>1 DEF IInv, TypeOK
  <2>3. QED
    BY <1>1, <1>2, <1>3, <1>4, <2>1, <2>2
       DEF IInv, Untouched, ValueIsAsMeant, CountsOccurrences
<1>6. CASE ~RefusesDefault
  <2>1. /\ phase' = "ready"
        /\ value' = IF kind \in WithoutParam /\ default = <<>>
                    THEN <<0>> ELSE default
    BY <1>6 DEF Construct
  <2>0. valueT \in Type /\ default \in Seq(Values(valueT)) /\ Len(default) <= 1
    BY DEF IInv, TypeOK, DeclaredOK
  <2>2. kind \in WithoutParam => 0 \in Values(valueT)
    BY <2>0, TypeAssumption DEF IInv, OwnType, WithoutParam, Values
  <2>3. kind \in WithoutParam => value' \in Seq(Values(valueT)) /\ Len(value') = 1
    <3>1. CASE default = <<>>
      BY <2>1, <2>2, <3>1
    <3>2. CASE default # <<>>
      <4>1. value' = default
        BY <2>1, <3>2
      <4>2. Len(default) = 1
        <5>1. Len(default) \in Nat /\ Len(default) # 0
          BY <2>0, <3>2, EmptySeq
        <5>2. Len(default) <= 1
          BY <2>0
        <5>3. \A n \in Nat : n # 0 /\ n <= 1 => n = 1
          OBVIOUS
        <5>4. QED
          BY <5>1, <5>2, <5>3
      <4>3. QED
        BY <2>0, <4>1, <4>2
    <3>3. QED
      BY <3>1, <3>2
  <2>4. kind \notin WithoutParam => value' = default
    BY <2>1
  <2>5. kind \in Repeated => value' = <<>>
    BY <1>6, <2>1 DEF RefusesDefault, Repeated, WithoutParam
  <2>6. kind \in Scalar => value' = default
    BY <2>4 DEF Scalar, WithoutParam
  <2>7. TypeOK'
    <3>1. value' \in Seq(Values(valueT))
      BY <2>0, <2>3, <2>4
    <3>2. kind \in Scalar => Len(value') <= 1
      BY <2>0, <2>6
    <3>3. ValueOK'
      BY <1>1, <2>3, <3>1, <3>2 DEF ValueOK, Values
    <3>4. DeclaredOK'
      BY <1>1 DEF IInv, TypeOK, DeclaredOK, Values
    <3>5. QED
      BY <1>1, <1>3, <2>1, <3>3, <3>4 DEF IInv, TypeOK
  <2>8. ValueIsAsMeant'
    BY <1>1, <1>2, <2>5, <2>6 DEF ValueIsAsMeant
  <2>9. CountsOccurrences'
    <3> DEFINE d == IF default = <<>> THEN 0 ELSE default[1]
    <3> SUFFICES ASSUME kind = "count_option" PROVE value'[1] = 0 + d
      BY <1>1, <1>2 DEF CountsOccurrences
    <3>1. value'[1] = d
      BY <2>1 DEF WithoutParam
    <3>2. value'[1] \in Values(valueT)
      BY <2>3 DEF WithoutParam
    <3>3. value'[1] \in Int
      BY <3>2 DEF Values
    <3>4. QED
      BY <3>1, <3>3
  <2>10. QED
    BY <1>4, <2>1, <2>7, <2>8, <2>9 DEF IInv, Untouched
<1>7. QED
  BY <1>5, <1>6

LEMMA StopIInv == IInv /\ Stop => IInv'
<1> SUFFICES ASSUME IInv, Stop PROVE IInv'
  OBVIOUS
<1>1. /\ UNCHANGED <<kind, valueT, default, checks, mandatory, hooked, params,
                     phase, given, value, times, heard, failed>>
      /\ phase = "ready"
      /\ outcome' \in {"ok", "exit", "error"}
  BY DEF Stop, conf, history
<1>2. TypeOK'
  <2>1. DeclaredOK' /\ ValueOK'
    BY <1>1 DEF IInv, TypeOK, DeclaredOK, ValueOK, Values
  <2>2. QED
    BY <1>1, <2>1 DEF IInv, TypeOK
<1>3. (Untouched /\ OwnType /\ GivenIsDefined /\ ValidIsAcceptable)'
  BY <1>1 DEF IInv, Untouched, OwnType, GivenIsDefined, ValidIsAcceptable, Defined
<1>4. (ValueIsAsMeant /\ RefusesOnlyTheImpossible /\ CountsOccurrences)'
  BY <1>1 DEF IInv, ValueIsAsMeant, RefusesOnlyTheImpossible, CountsOccurrences,
     Stands, Meant, IsNumeral, Values
<1>5. QED
  BY <1>2, <1>3, <1>4 DEF IInv

LEMMA TakeIInv == ASSUME NEW w \in Word PROVE IInv /\ Take(w) => IInv'
<1> SUFFICES ASSUME IInv, Take(w) PROVE IInv'
  OBVIOUS
<1> DEFINE v == Converted(valueT, w)
<1>1. /\ UNCHANGED <<kind, valueT, default, checks, mandatory, hooked, params,
                     phase, failed>>
      /\ phase = "ready" /\ kind \notin WithoutParam
      /\ given' = TRUE /\ outcome' = "ok"
      /\ times < MaxTimes /\ times' = times + 1
      /\ heard' = Append(heard, w)
      /\ value' = Stored(v)
  BY DEF Take, Proceeds, conf, history
<1>2. v \in Values(valueT) /\ Stands(v, w)
  BY ConvertedStands DEF Take, IInv, TypeOK, DeclaredOK
<1>3. heard \in Seq(Word) /\ value \in Seq(Values(valueT))
  BY DEF IInv, TypeOK, ValueOK
<1>4. kind \in Scalar => value' = <<v>>
  BY <1>1 DEF Stored, Scalar, Repeated
<1>5. kind \in Repeated => value' = Append(value, v)
  BY <1>1 DEF Stored
<1>6. kind \in Scalar \cup Repeated
  BY <1>1 DEF IInv, TypeOK, DeclaredOK
<1>7. value' \in Seq(Values(valueT)) /\ (kind \in Scalar => Len(value') = 1)
  <2> HIDE DEF v
  <2>1. CASE kind \in Scalar
    <3>1. value' = <<v>> /\ kind \notin Repeated
      BY <1>4, <2>1 DEF Scalar, Repeated
    <3>2. QED
      BY <1>2, <3>1
  <2>2. CASE kind \in Repeated
    BY <1>2, <1>3, <1>5, <2>2 DEF Scalar, Repeated
  <2>3. QED
    BY <1>6, <2>1, <2>2
<1>8. TypeOK'
  <2>1. DeclaredOK'
    BY <1>1 DEF IInv, TypeOK, DeclaredOK, Values
  <2>2. ValueOK'
    <3>1. valueT' = valueT /\ kind' = kind /\ kind \notin WithoutParam
      BY <1>1
    <3>2. Values(valueT') = Values(valueT)
      BY <3>1 DEF Values
    <3>3. ASSUME kind \in Scalar PROVE Len(value') <= 1
      <4>1. Len(value') = 1
        BY <1>7, <3>3
      <4>2. QED
        BY <4>1
    <3>4. QED
      BY <1>7, <3>1, <3>2, <3>3 DEF ValueOK, Values
  <2>3. heard' \in Seq(Word)
    BY <1>1, <1>3
  <2>4. times' \in 0..MaxTimes
    BY <1>1, BoundAssumption DEF IInv, TypeOK
  <2>5. QED
    BY <1>1, <2>1, <2>2, <2>3, <2>4 DEF IInv, TypeOK
<1>9. ValueIsAsMeant'
  <2>1. \A u, x : Stands(u, x)' <=> Stands(u, x)
    BY <1>1 DEF Stands, Meant, Values
  <2>2. CASE kind \in Scalar
    <3>1. heard' # <<>> /\ heard'[Len(heard')] = w /\ value'[1] = v
      BY <1>1, <1>3, <1>4, <2>2
    <3>2. kind \notin Repeated
      BY <2>2 DEF Scalar, Repeated
    <3>3. QED
      BY <1>1, <1>2, <1>7, <2>1, <2>2, <3>1, <3>2 DEF ValueIsAsMeant
  <2>3. CASE kind \in Repeated
    <3>1. /\ Len(value) = Len(heard)
          /\ \A i \in 1..Len(heard) : Stands(value[i], heard[i])
      BY <1>1, <2>3 DEF IInv, ValueIsAsMeant
    <3>2. Len(value') = Len(heard')
      BY <1>1, <1>3, <1>5, <2>3, <3>1
    <3>3. ASSUME NEW i \in 1..Len(heard') PROVE Stands(value'[i], heard'[i])
      BY <1>1, <1>2, <1>3, <1>5, <2>3, <3>1
    <3>4. kind \notin Scalar
      BY <2>3 DEF Scalar, Repeated
    <3>5. QED
      BY <1>1, <2>1, <2>3, <3>2, <3>3, <3>4 DEF ValueIsAsMeant
  <2>4. QED
    BY <1>6, <2>2, <2>3
<1>10. GivenIsDefined'
  BY <1>1, <1>7 DEF GivenIsDefined, Defined
<1>11. (Untouched /\ OwnType /\ ValidIsAcceptable /\ RefusesOnlyTheImpossible)'
  BY <1>1 DEF IInv, Untouched, OwnType, ValidIsAcceptable,
     RefusesOnlyTheImpossible, IsNumeral, Meant, Values
<1>12. CountsOccurrences'
  BY <1>1 DEF CountsOccurrences, WithoutParam
<1>13. QED
  BY <1>8, <1>9, <1>10, <1>11, <1>12 DEF IInv

LEMMA FailIInv == ASSUME NEW w \in Word PROVE IInv /\ Fail(w) => IInv'
<1> SUFFICES ASSUME IInv, Fail(w) PROVE IInv'
  OBVIOUS
<1>1. /\ UNCHANGED <<kind, valueT, default, checks, mandatory, hooked, params,
                     phase, value, times, heard>>
      /\ phase = "ready" /\ given' = TRUE /\ outcome' = "error"
      /\ failed' = {w}
  BY DEF Fail, Proceeds, conf
<1>2. TypeOK'
  <2>1. DeclaredOK' /\ ValueOK'
    BY <1>1 DEF IInv, TypeOK, DeclaredOK, ValueOK, Values
  <2>2. QED
    BY <1>1, <2>1 DEF IInv, TypeOK
<1>3. ~IsNumeral(w) \/ Meant(w) \notin Values(valueT)
  BY RefusedIsImpossible DEF Fail, IInv, TypeOK, DeclaredOK
<1>4. RefusesOnlyTheImpossible'
  BY <1>1, <1>3 DEF RefusesOnlyTheImpossible, IsNumeral, Meant, Values
<1>5. (Untouched /\ OwnType /\ GivenIsDefined /\ ValidIsAcceptable)'
  BY <1>1 DEF IInv, Untouched, OwnType, GivenIsDefined, ValidIsAcceptable
<1>6. (ValueIsAsMeant /\ CountsOccurrences)'
  BY <1>1 DEF IInv, ValueIsAsMeant, CountsOccurrences, Stands, Meant, Values
<1>7. QED
  BY <1>2, <1>4, <1>5, <1>6 DEF IInv

LEMMA OccurIInv == IInv /\ Occur => IInv'
<1> SUFFICES ASSUME IInv, Occur PROVE IInv'
  OBVIOUS
<1>1. /\ UNCHANGED <<kind, valueT, default, checks, mandatory, hooked, params,
                     phase, heard, failed>>
      /\ phase = "ready" /\ kind \in WithoutParam
      /\ given' = TRUE /\ outcome' = "ok"
      /\ times < MaxTimes /\ times' = times + 1
      /\ value' = Occurred
  BY DEF Occur, Proceeds, conf
<1>2. value \in Seq(Values(valueT)) /\ Len(value) = 1 /\ valueT \in Type
  BY <1>1 DEF IInv, TypeOK, DeclaredOK, ValueOK
<1>0. value[1] \in Values(valueT)
  BY <1>2
<1>3. value[1] \in Int /\ value[1] + 1 \in Int
  BY <1>0 DEF Values
<1>4. kind = "bool_option" => 1 \in Values(valueT)
  <2>1. kind = "bool_option" => valueT.lo = 0 /\ valueT.hi = 1
    BY <1>2, TypeAssumption DEF IInv, OwnType
  <2>2. QED
    BY <2>1 DEF Values
<1>5. value' \in Seq(Values(valueT)) /\ Len(value') = 1
  <2>1. CASE kind = "bool_option"
    <3>1. value' = <<1>>
      BY <1>1, <2>1 DEF Occurred
    <3>2. QED
      BY <1>4, <2>1, <3>1
  <2>2. CASE kind # "bool_option"
    <3> DEFINE v == Cast(valueT, value[1] + 1)
    <3>1. value' = <<v>>
      BY <1>1, <2>2 DEF Occurred
    <3>2. v \in Values(valueT)
      BY <1>2, <1>3, CastInType
    <3> HIDE DEF v
    <3>3. QED
      BY <3>1, <3>2
  <2>3. QED
    BY <2>1, <2>2
<1>6. kind \notin Scalar /\ kind \notin Repeated
  BY <1>1 DEF Scalar, Repeated, WithoutParam
<1>7. TypeOK'
  <2>1. DeclaredOK'
    BY <1>1 DEF IInv, TypeOK, DeclaredOK, Values
  <2>2. ValueOK'
    BY <1>1, <1>5, <1>6 DEF ValueOK, Values
  <2>3. times' \in 0..MaxTimes
    BY <1>1, BoundAssumption DEF IInv, TypeOK
  <2>4. QED
    BY <1>1, <2>1, <2>2, <2>3 DEF IInv, TypeOK
<1>8. CountsOccurrences'
  <2> DEFINE d == IF default = <<>> THEN 0 ELSE default[1]
  <2> SUFFICES ASSUME kind = "count_option", times + 1 + d <= valueT.hi
               PROVE  value'[1] = times + 1 + d
    BY <1>1 DEF CountsOccurrences
  <2>1. valueT.lo = 0 /\ valueT.hi \in Int
    BY <1>2, TypeAssumption DEF IInv, OwnType
  <2>2. times \in Nat /\ d \in Int
    <3>1. default \in Seq(Values(valueT))
      BY DEF IInv, TypeOK, DeclaredOK
    <3>2. default # <<>> => default[1] \in Values(valueT)
      BY <3>1
    <3>3. default # <<>> => default[1] \in Int
      BY <3>2 DEF Values
    <3>4. times \in Nat
      BY BoundAssumption DEF IInv, TypeOK
    <3>5. QED
      BY <3>3, <3>4
  <2>3. value[1] = times + d
    <3> HIDE DEF d
    <3>1. times + d <= valueT.hi
      BY <2>1, <2>2
    <3>2. QED
      BY <1>1, <3>1 DEF IInv, CountsOccurrences, d
  <2>4. value[1] + 1 \in Values(valueT)
    <3> HIDE DEF d
    <3>1. value[1] + 1 <= valueT.hi /\ 0 <= value[1] + 1
      BY <1>0, <1>3, <2>1, <2>2, <2>3 DEF Values
    <3>2. QED
      BY <1>3, <2>1, <3>1 DEF Values
  <2>5. value' = <<value[1] + 1>>
    BY <1>1, <1>2, <1>3, <2>4, CastInType DEF Occurred
  <2>6. QED
    <3> HIDE DEF d
    <3>1. QED
      BY <2>2, <2>3, <2>5
<1>9. (Untouched /\ OwnType /\ GivenIsDefined /\ ValidIsAcceptable)'
  BY <1>1, <1>6 DEF IInv, Untouched, OwnType, GivenIsDefined,
     ValidIsAcceptable, Defined
<1>10. (ValueIsAsMeant /\ RefusesOnlyTheImpossible)'
  BY <1>1, <1>6 DEF IInv, ValueIsAsMeant, RefusesOnlyTheImpossible,
     IsNumeral, Meant, Values
<1>11. QED
  BY <1>7, <1>8, <1>9, <1>10 DEF IInv

LEMMA ValidityKept ==
  ASSUME UNCHANGED <<kind, checks, mandatory, given, value>>
  PROVE  Acceptable' <=> Acceptable
<1>1. HasValue' <=> HasValue
  BY DEF HasValue
<1>2. ValueMeets' <=> ValueMeets
  BY <1>1 DEF ValueMeets, Meets, Cast, Values
<1>3. QED
  BY <1>2 DEF Acceptable

LEMMA ValidateIInv == IInv /\ Validate => IInv'
<1> SUFFICES ASSUME IInv, Validate PROVE IInv'
  OBVIOUS
<1>1. /\ UNCHANGED <<kind, valueT, default, checks, mandatory, hooked, params,
                     phase, given, value, times, heard, failed>>
      /\ phase = "ready"
      /\ outcome' = IF Acceptable THEN "valid" ELSE "error"
  BY DEF Validate, conf, history
<1>2. TypeOK'
  <2>1. DeclaredOK' /\ ValueOK'
    BY <1>1 DEF IInv, TypeOK, DeclaredOK, ValueOK, Values
  <2>2. QED
    BY <1>1, <2>1 DEF IInv, TypeOK
<1>3. Acceptable' <=> Acceptable
  BY <1>1, ValidityKept
<1>4. (Untouched /\ OwnType /\ GivenIsDefined /\ ValidIsAcceptable)'
  BY <1>1, <1>3 DEF IInv, Untouched, OwnType, GivenIsDefined,
     ValidIsAcceptable, Defined
<1>5. (ValueIsAsMeant /\ RefusesOnlyTheImpossible /\ CountsOccurrences)'
  BY <1>1 DEF IInv, ValueIsAsMeant, RefusesOnlyTheImpossible, CountsOccurrences,
     Stands, Meant, IsNumeral, Values
<1>6. QED
  BY <1>2, <1>4, <1>5 DEF IInv

LEMMA StutterIInv == IInv /\ UNCHANGED vars => IInv'
<1> SUFFICES ASSUME IInv, UNCHANGED vars PROVE IInv'
  OBVIOUS
<1>1. TypeOK'
  BY DEF IInv, vars, conf, history, TypeOK, DeclaredOK, ValueOK, Values
<1>2. (Untouched /\ OwnType /\ GivenIsDefined)'
  BY DEF IInv, vars, conf, history, Untouched, OwnType, GivenIsDefined, Defined
<1>3. ValidIsAcceptable'
  BY ValidityKept DEF IInv, vars, conf, ValidIsAcceptable
<1>4. (ValueIsAsMeant /\ RefusesOnlyTheImpossible /\ CountsOccurrences)'
  BY DEF IInv, vars, conf, history, ValueIsAsMeant, RefusesOnlyTheImpossible,
     CountsOccurrences, Stands, Meant, IsNumeral, Values
<1>5. QED
  BY <1>1, <1>2, <1>3, <1>4 DEF IInv

LEMMA NextIInv == IInv /\ [Next]_vars => IInv'
BY ProcessParamIInv, ConstructIInv, StopIInv, TakeIInv, FailIInv, OccurIInv,
   ValidateIInv, StutterIInv DEF Next

LEMMA SpecIInv == Spec => []IInv
BY InitIInv, NextIInv, PTL DEF Spec

-----------------------------------------------------------------------------

\* What an option or an argument stores is of its type, over any calls.
THEOREM ValueTypeCorrect == Spec => []TypeOK
<1>1. IInv => TypeOK
  BY DEF IInv
<1>2. QED
  BY SpecIInv, <1>1, PTL

\* A value is what the accepted words mean, in their order, or the default.
THEOREM ValueMeansItsWords == Spec => []ValueIsAsMeant
<1>1. IInv => ValueIsAsMeant
  BY DEF IInv
<1>2. QED
  BY SpecIInv, <1>1, PTL

\* No conversion refuses a number its type can represent.
THEOREM RepresentableIsAccepted == Spec => []RefusesOnlyTheImpossible
<1>1. IInv => RefusesOnlyTheImpossible
  BY DEF IInv
<1>2. QED
  BY SpecIInv, <1>1, PTL

\* Counting is exact as long as the counter holds the sum.
THEOREM CountIsExact == Spec => []CountsOccurrences
<1>1. IInv => CountsOccurrences
  BY DEF IInv
<1>2. QED
  BY SpecIInv, <1>1, PTL

\* A validation without an exception has seen every value within every
\* constraint that is at least as wide as the option.
THEOREM ValidIsWithin == Spec => []ValidMeansWithin
<1>1. ASSUME IInv PROVE ValidMeansWithin
  <2> SUFFICES ASSUME outcome = "valid", NEW i \in 1..Len(value), NEW c \in checks,
                      ~(kind \in WithoutParam /\ value[i] = 0),
                      c.type.lo <= valueT.lo, valueT.hi <= c.type.hi
               PROVE  IF c.what = "min_max" THEN value[i] \in c.min .. c.max
                      ELSE value[i] # 0
    BY DEF ValidMeansWithin
  <2>1. phase = "ready" /\ ValueMeets
    BY <1>1 DEF IInv, Untouched, ValidIsAcceptable, Acceptable, TypeOK
  <2>2. HasValue
    BY <1>1, <2>1 DEF HasValue, IInv, TypeOK, DeclaredOK, ValueOK
  <2>3. Meets(c, value[i])
    BY <2>1, <2>2 DEF ValueMeets
  <2>4. value[i] \in Values(valueT) /\ valueT \in Type
    BY <1>1 DEF IInv, TypeOK, DeclaredOK, ValueOK
  <2>5. c.type \in Type /\ (c.what = "min_max" => c.min \in Int /\ c.max \in Int)
    BY <1>1 DEF IInv, TypeOK, DeclaredOK, MinMax, NotNull
  <2>6. value[i] \in Values(c.type) /\ value[i] \in Int
    <3>1. valueT.lo \in Int /\ valueT.hi \in Int /\ c.type.lo \in Int /\ c.type.hi \in Int
      BY <2>4, <2>5, TypeAssumption
    <3>2. QED
      BY <2>4, <3>1 DEF Values
  <2>7. Cast(c.type, value[i]) = value[i]
    BY <2>5, <2>6, CastInType
  <2>8. CASE c.what = "min_max"
    BY <2>3, <2>5, <2>6, <2>7, <2>8 DEF Meets
  <2>9. CASE c.what # "min_max"
    BY <2>3, <2>7, <2>9 DEF Meets
  <2>10. QED
    BY <2>8, <2>9
<1>2. QED
  BY SpecIInv, <1>1, PTL

\* value() of an accepted mandatory item throws only after a failed conversion.
THEOREM AcceptedIsDefined == Spec => []MandatoryIsDefined
<1>1. IInv => MandatoryIsDefined
  BY DEF IInv, ValidIsAcceptable, Acceptable, GivenIsDefined, MandatoryIsDefined
<1>2. QED
  BY SpecIInv, <1>1, PTL
=============================================================================
