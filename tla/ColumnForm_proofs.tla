------------------------- MODULE ColumnForm_proofs -------------------------
(***************************************************************************)
(* What holds of the column form for every list of data types and every    *)
(* choice of switches.                                                     *)
(*                                                                         *)
(* The properties speak of the column that was saved; what makes them      *)
(* inductive is what the open form promises about the column it will save: *)
(* its fields are those of the type in the picker (FormAgrees), they suit  *)
(* that type unless the column was updated under another one (FormFits),   *)
(* and an edit can only clear keys, because the switches of the others are *)
(* locked (EditOK).                                                        *)
(***************************************************************************)
EXTENDS ColumnForm, TLAPS, SequenceTheorems

\* A new form is opened without a column, an edit empties the column's modifiers
\* and locks what the column was saved without.
EditOK ==
    /\ form = "new" => column = None
    /\ form = "edit" => /\ column # None
                        /\ column.modifiers = <<>>
                        /\ (on \cup enabled) \cap Free \subseteq column.flags

\* The row of the picker is the type whose settings the form has, or TINYINT,
\* which sets nothing.
FormAgrees ==
    /\ form # "closed" => dataTypes[row] \in {"TINYINT", fields}
    /\ fields # "TINYINT"

\* The settings suit that type; YEAR leaves the length of another type.
FormFits ==
    form # "closed" /\ ~retyped /\ fields # "" =>
        /\ (on \cup enabled) \cap Typed \subseteq SwitchesOf(fields)
        /\ fields # "YEAR" /\ lengthOn => HasLength(fields)

\* The switches of a saved column suit its type, YEAR included.
FlagsFit ==
    column # None /\ ~retyped /\ column.dataType # "TINYINT" =>
        column.flags \cap Typed \subseteq SwitchesOf(column.dataType)

FormOK == EditOK /\ FormAgrees /\ FormFits
ColumnOK == FlagsFit /\ ModifiersMatchFlags /\ FitsItsType

IInv == TypeOK /\ FormOK /\ ColumnOK
-----------------------------------------------------------------------------
(***************************************************************************)
(* Data types, the picker's rows and the modifiers.                        *)
(***************************************************************************)
\* The picker offers known types, none of them blank.
LEMMA NamesOK == TypeNames \subseteq AllTypes /\ "" \notin TypeNames
<1>1. TypeNames \subseteq AllTypes
  BY FormAssumption DEF FormAssumption, TypeNames
<1>2. "" \notin AllTypes
  BY DEF AllTypes, Ints, Floats, Dates, Strings, Blobs
<1> QED
  BY <1>1, <1>2

\* A type sets only switches that types set, which are none of the keys.
LEMMA SwitchesOfOK ==
    ASSUME NEW type \in AllTypes, type # "TINYINT"
    PROVE  SwitchesOf(type) \subseteq Switches /\ SwitchesOf(type) \subseteq Typed
BY DEF SwitchesOf, AllTypes, Typed

\* No switch is both.
LEMMA TypedOrFree == Typed \cap Free = {}
BY DEF Typed, Free

\* What choosing a type makes of the switches o, their locks e and the length l:
\* the keys are left alone, the other switches become those of the type.
Applied(a, type, o, e, l) ==
    /\ a.on \subseteq Switches /\ a.enabled \subseteq Switches
    /\ a.lengthOn \in BOOLEAN /\ a.defaultOn \in BOOLEAN
    /\ a.on \cap Free = o \cap Free /\ a.enabled \cap Free = e \cap Free
    /\ type = "TINYINT" => a.on = o /\ a.enabled = e /\ a.lengthOn = l
    /\ type # "TINYINT" => (a.on \cup a.enabled) \cap Typed \subseteq SwitchesOf(type)
    /\ type \notin {"TINYINT", "YEAR"} => a.lengthOn = HasLength(type)

\* Every type does that (viewDidLoad, pickerView:didSelectRow:).
LEMMA ApplyTypeOK ==
    ASSUME NEW type \in AllTypes, NEW o \in SUBSET Switches, NEW e \in SUBSET Switches,
           NEW l \in BOOLEAN, NEW d \in BOOLEAN
    PROVE  Applied(ApplyType(type, o, e, l, d), type, o, e, l)
<1> DEFINE a == ApplyType(type, o, e, l, d)
<1>1. CASE type = "TINYINT"
  BY <1>1 DEF ApplyType, Applied
<1>2. CASE type # "TINYINT"
  <2>1. SwitchesOf(type) \subseteq Switches /\ SwitchesOf(type) \subseteq Typed
    BY <1>2, SwitchesOfOK
  <2>2. /\ a.on = (o \ Typed) \cup SwitchesOf(type)
        /\ a.enabled = (e \ Typed) \cup SwitchesOf(type)
        /\ a.lengthOn = IF type = "YEAR" THEN l ELSE HasLength(type)
        /\ a.defaultOn = HasDefault(type)
    BY <1>2 DEF ApplyType
  <2>3. HasLength(type) \in BOOLEAN /\ HasDefault(type) \in BOOLEAN
    BY DEF HasLength, HasDefault
  <2> QED
    <3> HIDE DEF a
    <3>1. Applied(a, type, o, e, l)
      BY <1>2, <2>1, <2>2, <2>3, TypedOrFree DEF Applied
    <3> QED
      BY <3>1 DEF a
<1> QED
  BY <1>1, <1>2

\* An element put in front of a sequence.
LEMMA BlankFirst ==
    ASSUME NEW S, NEW s \in Seq(S), NEW b \in S
    PROVE  /\ Len(<<b>> \o s) = Len(s) + 1 /\ (<<b>> \o s)[1] = b
           /\ \A k \in 1..Len(s) : (<<b>> \o s)[k + 1] = s[k]
           /\ Tail(<<b>> \o s) = s
<1>1. PICK e : e = <<b>>
  OBVIOUS
<1>2. e \in Seq(S) /\ Len(e) = 1 /\ e[1] = b
  BY <1>1
<1>3. PICK t : t = e \o s
  OBVIOUS
<1>4. /\ t \in Seq(S) /\ Len(t) = 1 + Len(s) /\ Len(s) \in Nat
      /\ \A i \in 1..(1 + Len(s)) : t[i] = IF i <= 1 THEN e[i] ELSE s[i - 1]
  <2>1. /\ t \in Seq(S) /\ Len(t) = Len(e) + Len(s)
        /\ \A i \in 1..(Len(e) + Len(s)) : t[i] = IF i <= Len(e) THEN e[i] ELSE s[i - Len(e)]
    BY <1>2, <1>3, ConcatProperties
  <2> QED
    BY <1>2, <2>1, LenProperties
<1>5. Len(t) = Len(s) + 1 /\ t[1] = b /\ \A k \in 1..Len(s) : t[k + 1] = s[k]
  BY <1>2, <1>4
<1>6. t # <<>>
  BY <1>4
<1>7. /\ Tail(t) \in Seq(S) /\ Len(Tail(t)) = Len(t) - 1
      /\ \A i \in 1..Len(Tail(t)) : Tail(t)[i] = t[i + 1]
  BY <1>4, <1>6, HeadTailProperties
<1>8. Tail(t) = s
  <2>1. Len(Tail(t)) = Len(s)
    BY <1>4, <1>5, <1>7
  <2>2. \A i \in 1..Len(Tail(t)) : Tail(t)[i] = s[i]
    BY <1>5, <1>7, <2>1
  <2> QED
    BY <1>7, <2>1, <2>2, SeqEqual
<1> QED
  BY <1>1, <1>3, <1>5, <1>8

\* The rows: the types, and the blank one in front of them until it is selected.
LEMMA RowsOK ==
    ASSUME NEW d \in {DataTypes, BlankAndTypes}
    PROVE  /\ Len(DataTypes) \in Nat /\ Len(DataTypes) >= 1 /\ Len(d) \in Nat /\ Len(d) >= 1
           /\ \A k \in 1..Len(d) : d[k] \in TypeNames \cup {""}
           /\ \A k \in 1..Len(d) : d[k] = "" => k = 1 /\ d # DataTypes
           /\ Tail(BlankAndTypes) = DataTypes /\ BlankAndTypes[1] = ""
<1>1. DataTypes \in Seq(AllTypes) /\ Len(DataTypes) \in Nat /\ Len(DataTypes) >= 1
  <2>1. DataTypes \in Seq(AllTypes) /\ Len(DataTypes) > 0
    BY FormAssumption DEF FormAssumption
  <2>2. Len(DataTypes) \in Nat
    BY <2>1, LenProperties
  <2> QED
    BY <2>1, <2>2
<1>2. \A k \in 1..Len(DataTypes) : DataTypes[k] \in TypeNames /\ DataTypes[k] # ""
  BY NamesOK DEF TypeNames
<1>3. /\ Len(BlankAndTypes) = Len(DataTypes) + 1
      /\ BlankAndTypes[1] = ""
      /\ \A k \in 1..Len(DataTypes) : BlankAndTypes[k + 1] = DataTypes[k]
      /\ Tail(BlankAndTypes) = DataTypes
  <2>1. PICK T, b : T = AllTypes \cup {""} /\ b = ""
    OBVIOUS
  <2>2. DataTypes \in Seq(T)
    BY <1>1, <2>1, SeqMonotonic
  <2>3. b \in T
    BY <2>1
  <2>4. BlankAndTypes = <<b>> \o DataTypes
    BY <2>1 DEF BlankAndTypes
  <2>5. /\ Len(BlankAndTypes) = Len(DataTypes) + 1
        /\ BlankAndTypes[1] = b
        /\ \A k \in 1..Len(DataTypes) : BlankAndTypes[k + 1] = DataTypes[k]
        /\ Tail(BlankAndTypes) = DataTypes
    BY <2>2, <2>3, <2>4, BlankFirst
  <2> QED
    BY <2>1, <2>5
<1>4. CASE d = DataTypes
  BY <1>1, <1>2, <1>3, <1>4
<1>5. CASE d = BlankAndTypes
  <2>0. d[1] = ""
    BY <1>3, <1>5
  <2>1. Len(d) = Len(DataTypes) + 1
    BY <1>3, <1>5
  <2>2. ASSUME NEW k \in 1..Len(d), k # 1
        PROVE  k - 1 \in 1..Len(DataTypes) /\ d[k] = DataTypes[k - 1]
    <3>1. k - 1 \in 1..Len(DataTypes) /\ (k - 1) + 1 = k
      BY <1>1, <2>1, <2>2
    <3> QED
      BY <1>3, <1>5, <3>1
  <2>3. d # DataTypes
    BY <1>1, <2>1
  <2>4. \A k \in 1..Len(d) : d[k] \in TypeNames \cup {""} /\ (d[k] = "" => k = 1)
    BY <1>2, <2>0, <2>2
  <2>5. Len(d) \in Nat /\ Len(d) >= 1
    BY <1>1, <2>1
  <2> QED
    BY <1>1, <1>3, <2>3, <2>4, <2>5
<1> QED
  BY <1>4, <1>5

\* Six sequences over the same set, one after the other.
LEMMA ConcatSix ==
    ASSUME NEW S, NEW a \in Seq(S), NEW b \in Seq(S), NEW c \in Seq(S),
           NEW d \in Seq(S), NEW e \in Seq(S), NEW f \in Seq(S)
    PROVE  a \o b \o c \o d \o e \o f \in Seq(S)
BY ConcatProperties

\* The modifiers of a default are those of the kind asked for, the others none.
LEMMA ModifiersOK ==
    ASSUME NEW flags, NEW d \in BOOLEAN, NEW u \in BOOLEAN
    PROVE  /\ ModifiersOf(flags, d, u) \in Seq(Modifiers)
           /\ \A k \in 1..Len(ModifiersOf(flags, d, u)) :
                 ModifiersOf(flags, d, u)[k] \in {"DEFAULT", "DEFAULT quoted"} =>
                     (ModifiersOf(flags, d, u)[k] = "DEFAULT") = u
<1> DEFINE S == {"ZEROFILL", "BINARY", "NOT NULL", "NULL", "AUTO_INCREMENT",
                 IF u THEN "DEFAULT" ELSE "DEFAULT quoted"}
           If(test, text) == IF test THEN <<text>> ELSE <<>>
<1>1. ASSUME NEW test \in BOOLEAN, NEW text \in S PROVE If(test, text) \in Seq(S)
  <2> HIDE DEF S
  <2>1. <<text>> \in Seq(S) /\ <<>> \in Seq(S)
    OBVIOUS
  <2> QED
    BY <2>1
<1>2. ModifiersOf(flags, d, u) \in Seq(S)
  <2>1. PICK a1, a2, a3, a4, a5, a6 :
           /\ a1 = If("zeroFill" \in flags, "ZEROFILL")
           /\ a2 = If("binary" \in flags, "BINARY")
           /\ a3 = If("notNull" \in flags, "NOT NULL")
           /\ a4 = If("notNull" \notin flags, "NULL")
           /\ a5 = If("autoIncrement" \in flags, "AUTO_INCREMENT")
           /\ a6 = If(d, IF u THEN "DEFAULT" ELSE "DEFAULT quoted")
    OBVIOUS
  <2>2. a1 \in Seq(S) /\ a2 \in Seq(S) /\ a3 \in Seq(S) /\ a4 \in Seq(S) /\ a5 \in Seq(S)
        /\ a6 \in Seq(S)
    BY <1>1, <2>1
  <2>3. ModifiersOf(flags, d, u) = a1 \o a2 \o a3 \o a4 \o a5 \o a6
    BY <2>1 DEF ModifiersOf
  <2> HIDE DEF S, If
  <2> QED
    BY <2>2, <2>3, ConcatSix
<1>3. S \subseteq Modifiers
  BY DEF Modifiers
<1>4. ModifiersOf(flags, d, u) \in Seq(Modifiers)
  BY <1>2, <1>3, SeqMonotonic
<1>5. \A k \in 1..Len(ModifiersOf(flags, d, u)) : ModifiersOf(flags, d, u)[k] \in S
  BY <1>2, ElementOfSeq
<1>6. \A m \in S : m \in {"DEFAULT", "DEFAULT quoted"} => (m = "DEFAULT") = u
  OBVIOUS
<1> QED
  BY <1>4, <1>5, <1>6
-----------------------------------------------------------------------------
(***************************************************************************)
(* The steps.                                                              *)
(***************************************************************************)
\* A step that leaves the column and what is known of its updates alone.
LEMMA ColumnUnchanged ==
    ASSUME ColumnOK, UNCHANGED <<column, retyped>>
    PROVE  ColumnOK'
BY DEF ColumnOK, FlagsFit, ModifiersMatchFlags, FitsItsType

\* A form for a new column.
LEMMA OpenNewKeeps ==
    ASSUME IInv, OpenNew
    PROVE  IInv'
<1>1. /\ dataTypes' = BlankAndTypes /\ row' = 1 /\ row' \in 1..Len(dataTypes')
      /\ dataTypes'[row'] = fields'
  <2>1. dataTypes' = BlankAndTypes /\ row' = 1 /\ fields' = ""
    BY DEF OpenNew
  <2>2. BlankAndTypes[1] = ""
    BY RowsOK
  <2>3. 1 \in 1..Len(BlankAndTypes)
    <3>1. Len(BlankAndTypes) \in Nat /\ Len(BlankAndTypes) >= 1
      BY RowsOK
    <3> QED
      BY <3>1
  <2> QED
    BY <2>1, <2>2, <2>3
<1>2. TypeOK'
  BY <1>1 DEF IInv, TypeOK, OpenNew
<1>3. FormOK'
  BY <1>1 DEF OpenNew, FormOK, EditOK, FormAgrees, FormFits
<1>4. ColumnOK'
  BY DEF OpenNew, ColumnOK, FlagsFit, ModifiersMatchFlags, FitsItsType
<1> QED
  BY <1>2, <1>3, <1>4 DEF IInv

\* The column is opened again: its flags are the switches and their locks.
LEMMA OpenEditKeeps ==
    ASSUME IInv, OpenEdit
    PROVE  IInv' /\ column'.flags = column.flags
<1>0. TypeOK /\ ColumnOK /\ column \in Columns /\ column # None
  BY DEF IInv, TypeOK, OpenEdit
<1>1. /\ column' \in Columns /\ column' # None /\ column'.dataType = column.dataType
      /\ column'.flags = column.flags /\ column'.hasLength = column.hasLength
      /\ column'.modifiers = <<>>
  <2>1. column' = [column EXCEPT !.modifiers = <<>>] /\ <<>> \in Seq(Modifiers)
    BY EmptySeq DEF OpenEdit
  <2>2. column' \in Columns
    BY <1>0, <2>1 DEF Columns
  <2> QED
    BY <1>0, <2>1, <2>2, FormAssumption DEF Columns, FormAssumption
<1>2. column.dataType \in TypeNames /\ column.flags \in SUBSET Switches
      /\ column.hasDefault \in BOOLEAN
  BY <1>0 DEF Columns
<1>3. row' \in 1..Len(DataTypes) /\ DataTypes[row'] = column.dataType
  <2>1. \E k \in 1..Len(DataTypes) : DataTypes[k] = column.dataType
    BY <1>2 DEF TypeNames
  <2>2. row' = CHOOSE k \in 1..Len(DataTypes) : DataTypes[k] = column.dataType
    BY DEF OpenEdit
  <2> QED
    BY <2>1, <2>2
<1>4. PICK a : /\ a = ApplyType(column.dataType, Switches, Switches, TRUE, TRUE)
               /\ lengthOn' = a.lengthOn
               /\ defaultOn' = (a.defaultOn /\ "primaryKey" \notin column.flags)
  BY DEF OpenEdit
<1>5. /\ a.lengthOn \in BOOLEAN /\ a.defaultOn \in BOOLEAN
      /\ column.dataType \notin {"TINYINT", "YEAR"} => a.lengthOn = HasLength(column.dataType)
  <2>1. column.dataType \in AllTypes
    BY <1>2, NamesOK
  <2>2. Switches \in SUBSET Switches /\ TRUE \in BOOLEAN
    OBVIOUS
  <2>3. Applied(a, column.dataType, Switches, Switches, TRUE)
    BY <1>4, <2>1, <2>2, ApplyTypeOK, Zenon
  <2> QED
    BY <2>3 DEF Applied
<1>6. fields' \in TypeNames \cup {""} /\ fields' # "TINYINT"
      /\ column.dataType \in {"TINYINT", fields'}
      /\ (fields' # "" => fields' = column.dataType /\ column.dataType # "TINYINT")
  BY <1>2 DEF OpenEdit, FieldsAfter
<1>7. TypeOK'
  <2>1. defaultOn' \in BOOLEAN /\ lengthOn' \in BOOLEAN
    BY <1>4, <1>5
  <2>2. dataTypes' = DataTypes /\ row' \in 1..Len(dataTypes')
    BY <1>3 DEF OpenEdit
  <2> QED
    BY <1>0, <1>1, <1>2, <1>6, <2>1, <2>2 DEF OpenEdit, TypeOK
<1>8. EditOK' /\ FormAgrees'
  BY <1>1, <1>3, <1>6 DEF OpenEdit, EditOK, FormAgrees
<1>9. FormFits'
  <2> SUFFICES ASSUME ~retyped, fields' # ""
               PROVE  /\ (on' \cup enabled') \cap Typed \subseteq SwitchesOf(fields')
                      /\ fields' # "YEAR" /\ lengthOn' => HasLength(fields')
    BY DEF FormFits, OpenEdit
  <2>1. on' = column.flags /\ enabled' = column.flags
    BY DEF OpenEdit
  <2>2. column.flags \cap Typed \subseteq SwitchesOf(column.dataType)
    BY <1>0, <1>6 DEF ColumnOK, FlagsFit
  <2>3. (on' \cup enabled') \cap Typed \subseteq SwitchesOf(fields')
    BY <1>6, <2>1, <2>2
  <2> QED
    BY <1>4, <1>5, <1>6, <2>3
<1>10. ColumnOK'
  <2>1. retyped' = retyped
    BY DEF OpenEdit
  <2>2. FlagsFit' /\ ModifiersMatchFlags'
    BY <1>0, <1>1, <2>1 DEF ColumnOK, FlagsFit, ModifiersMatchFlags
  <2>3. 1..Len(column'.modifiers) = {}
    <3>1. Len(column'.modifiers) = 0
      BY <1>1, EmptySeq
    <3> QED
      BY <3>1
  <2>4. FitsItsType'
    BY <1>0, <1>1, <2>1, <2>3 DEF ColumnOK, FitsItsType
  <2> QED
    BY <2>2, <2>4 DEF ColumnOK
<1> QED
  BY <1>1, <1>7, <1>8, <1>9, <1>10 DEF IInv, FormOK

\* The row that is read after a selection: the blank one is gone.
LEMMA SelectedRow ==
    ASSUME TypeOK, NEW r \in 1..Len(dataTypes), SelectRow(r)
    PROVE  /\ dataTypes' \in {DataTypes, BlankAndTypes} /\ r \in 1..Len(dataTypes')
           /\ dataTypes'[r] \in TypeNames
<1>0. dataTypes \in {DataTypes, BlankAndTypes}
  BY DEF TypeOK
<1>1. CASE dataTypes[r] = ""
  <2>1. r = 1 /\ dataTypes # DataTypes /\ Tail(BlankAndTypes) = DataTypes
    BY <1>0, <1>1, RowsOK
  <2>2. dataTypes' = DataTypes
    BY <1>0, <1>1, <2>1 DEF SelectRow
  <2>3. 1 \in 1..Len(DataTypes)
    <3>1. Len(DataTypes) \in Nat /\ Len(DataTypes) >= 1
      BY RowsOK
    <3> QED
      BY <3>1
  <2> QED
    BY <2>1, <2>2, <2>3 DEF TypeNames
<1>2. CASE dataTypes[r] # ""
  <2>1. dataTypes' = dataTypes
    BY <1>2 DEF SelectRow
  <2>2. dataTypes[r] \in TypeNames \cup {""}
    BY <1>0, RowsOK
  <2> QED
    BY <1>0, <1>2, <2>1, <2>2
<1> QED
  BY <1>1, <1>2

\* Choosing a type (pickerView:didSelectRow:).
LEMMA SelectRowKeeps ==
    ASSUME IInv, NEW r \in 1..Len(dataTypes), SelectRow(r)
    PROVE  IInv'
<1>0. TypeOK /\ FormOK /\ ColumnOK
  BY DEF IInv
<1>1. PICK type : type = dataTypes'[r]
  OBVIOUS
<1>2. /\ dataTypes' \in {DataTypes, BlankAndTypes} /\ r \in 1..Len(dataTypes')
      /\ type \in TypeNames /\ type \in AllTypes /\ type # ""
  BY <1>0, <1>1, SelectedRow, NamesOK
<1>3. PICK a : /\ a = ApplyType(type, on, enabled, lengthOn, defaultOn)
               /\ on' = a.on /\ enabled' = a.enabled
               /\ lengthOn' = a.lengthOn /\ defaultOn' = a.defaultOn
  BY <1>1 DEF SelectRow
<1>4. /\ on \in SUBSET Switches /\ enabled \in SUBSET Switches
      /\ lengthOn \in BOOLEAN /\ defaultOn \in BOOLEAN
  BY <1>0 DEF TypeOK
<1>5. Applied(a, type, on, enabled, lengthOn)
  BY <1>2, <1>3, <1>4, ApplyTypeOK, Zenon
<1>6. /\ fields' = FieldsAfter(type, fields) /\ row' = r
      /\ UNCHANGED <<column, form, defaultText, retyped>> /\ form # "closed"
  BY <1>1 DEF SelectRow
<1>7. TypeOK'
  <2>1. fields' \in TypeNames \cup {""}
    BY <1>0, <1>2, <1>6 DEF TypeOK, FieldsAfter
  <2>2. /\ on' \in SUBSET Switches /\ enabled' \in SUBSET Switches
        /\ lengthOn' \in BOOLEAN /\ defaultOn' \in BOOLEAN
    BY <1>3, <1>5 DEF Applied
  <2> QED
    BY <1>0, <1>2, <1>6, <2>1, <2>2 DEF TypeOK
<1>8. EditOK'
  BY <1>0, <1>3, <1>5, <1>6 DEF FormOK, EditOK, Applied
<1>9. FormAgrees'
  BY <1>0, <1>1, <1>6 DEF FormOK, FormAgrees, FieldsAfter
<1>10. FormFits'
  <2>1. CASE type = "TINYINT"
    <3>1. fields' = fields /\ on' = on /\ enabled' = enabled /\ lengthOn' = lengthOn
      BY <1>3, <1>5, <1>6, <2>1 DEF FieldsAfter, Applied
    <3> QED
      BY <1>0, <1>6, <3>1 DEF FormOK, FormFits
  <2>2. CASE type # "TINYINT"
    <3>1. fields' = type
      BY <1>6, <2>2 DEF FieldsAfter
    <3> QED
      BY <1>3, <1>5, <2>2, <3>1 DEF FormFits, Applied
  <2> QED
    BY <2>1, <2>2
<1> QED
  BY <1>0, <1>6, <1>7, <1>8, <1>9, <1>10, ColumnUnchanged DEF IInv, FormOK

\* A switch that is not locked is turned.
LEMMA ToggleKeeps ==
    ASSUME IInv, NEW s \in Switches, Toggle(s)
    PROVE  IInv'
<1>0. TypeOK /\ FormOK /\ ColumnOK
  BY DEF IInv
<1>1. /\ on' \in {on \ {s}, on \cup {s}} /\ s \in enabled
      /\ UNCHANGED <<column, form, dataTypes, row, enabled, lengthOn, defaultText, fields, retyped>>
  BY DEF Toggle
<1>2. TypeOK'
  <2>1. defaultOn' \in BOOLEAN
    <3>1. defaultOn' = (s \in on) \/ defaultOn' = defaultOn
      BY Zenon DEF Toggle
    <3>2. defaultOn \in BOOLEAN
      BY <1>0 DEF TypeOK
    <3>3. (s \in on) \in BOOLEAN
      OBVIOUS
    <3> QED
      BY <3>1, <3>2, <3>3, Zenon
  <2>2. on' \in SUBSET Switches
    BY <1>0, <1>1 DEF TypeOK
  <2> QED
    BY <1>0, <1>1, <2>1, <2>2 DEF TypeOK
<1>3. (on' \cup enabled') \subseteq on \cup enabled
  BY <1>1
<1>4. FormOK'
  BY <1>0, <1>1, <1>3 DEF FormOK, EditOK, FormAgrees, FormFits
<1> QED
  BY <1>0, <1>1, <1>2, <1>4, ColumnUnchanged DEF IInv

\* The other steps of an open form.
LEMMA OthersKeep ==
    ASSUME IInv, TypeDefault \/ Reappear \/ Cancel \/ UNCHANGED vars
    PROVE  IInv'
<1>0. TypeOK /\ FormOK /\ ColumnOK
  BY DEF IInv
<1>1. CASE TypeDefault
  <2>1. TypeOK'
    BY <1>0, <1>1 DEF TypeDefault, TypeOK
  <2>2. FormOK'
    BY <1>0, <1>1 DEF TypeDefault, FormOK, EditOK, FormAgrees, FormFits
  <2> QED
    BY <1>0, <1>1, <2>1, <2>2, ColumnUnchanged DEF IInv, TypeDefault
<1>2. CASE Reappear
  <2>1. TypeOK'
    BY <1>0, <1>2 DEF Reappear, TypeOK
  <2>2. FormOK'
    BY <1>0, <1>2 DEF Reappear, FormOK, EditOK, FormAgrees, FormFits
  <2> QED
    BY <1>0, <1>2, <2>1, <2>2, ColumnUnchanged DEF IInv, Reappear
<1>3. CASE Cancel
  <2>1. TypeOK'
    BY <1>0, <1>3 DEF Cancel, TypeOK, formVars
  <2>2. FormOK'
    BY <1>0, <1>3 DEF Cancel, formVars, FormOK, EditOK, FormAgrees, FormFits
  <2> QED
    BY <1>0, <1>3, <2>1, <2>2, ColumnUnchanged DEF IInv, Cancel
<1>4. CASE UNCHANGED vars
  <2>1. TypeOK'
    BY <1>0, <1>4 DEF vars, TypeOK
  <2>2. FormOK'
    BY <1>0, <1>4 DEF vars, FormOK, EditOK, FormAgrees, FormFits
  <2> QED
    BY <1>0, <1>4, <2>1, <2>2, ColumnUnchanged DEF IInv, vars
<1> QED
  BY <1>1, <1>2, <1>3, <1>4

\* The column is deleted.
LEMMA DeleteKeeps ==
    ASSUME IInv, DeleteColumn
    PROVE  IInv'
<1>0. TypeOK /\ FormOK
  BY DEF IInv
<1>1. TypeOK'
  BY <1>0 DEF DeleteColumn, TypeOK, formVars
<1>2. FormOK'
  BY <1>0 DEF DeleteColumn, formVars, FormOK, EditOK, FormAgrees, FormFits
<1>3. ColumnOK'
  BY DEF DeleteColumn, ColumnOK, FlagsFit, ModifiersMatchFlags, FitsItsType
<1> QED
  BY <1>1, <1>2, <1>3 DEF IInv

\* addColumnOnClick: the column gets the fields of the form.
LEMMA SubmitKeeps ==
    ASSUME IInv, Submit
    PROVE  IInv' /\ (column # None => column'.flags \cap Free \subseteq column.flags)
<1>0. TypeOK /\ FormOK /\ ColumnOK /\ form # "closed" /\ dataTypes[row] # ""
  BY DEF IInv, Submit
<1>1. PICK T : T = dataTypes[row]
  OBVIOUS
<1>2. T \in TypeNames
  BY <1>0, <1>1, RowsOK DEF TypeOK
<1>3. PICK old : /\ old = IF form = "new" THEN FreshColumn(T) ELSE column
                 /\ column' = [old EXCEPT
                      !.flags = on,
                      !.modifiers = @ \o ModifiersOf(on, defaultOn /\ defaultText, Unquoted(fields)),
                      !.hasDefault = @ \/ (defaultOn /\ defaultText),
                      !.hasLength = @ \/ lengthOn]
  BY <1>1 DEF Submit
<1>4. PICK d \in BOOLEAN, u \in BOOLEAN :
         d = (defaultOn /\ defaultText) /\ u = Unquoted(fields)
  <2>1. (defaultOn /\ defaultText) \in BOOLEAN
    OBVIOUS
  <2>2. Unquoted(fields) \in BOOLEAN
    BY DEF Unquoted
  <2> QED
    BY <2>1, <2>2, Zenon
<1>5. PICK M : M = ModifiersOf(on, d, u)
  OBVIOUS
<1>6. M \in Seq(Modifiers)
  BY <1>5, ModifiersOK
<1>7. old \in Columns /\ old.modifiers = <<>>
  <2>1. CASE form = "new"
    <3>1. old = FreshColumn(T)
      BY <1>3, <2>1
    <3>2. <<>> \in Seq(Modifiers)
      BY EmptySeq
    <3> QED
      BY <1>2, <3>1, <3>2 DEF FreshColumn, Columns
  <2>2. CASE form # "new"
    <3>1. form = "edit"
      BY <1>0, <2>2 DEF TypeOK
    <3> QED
      BY <1>0, <1>3, <3>1 DEF TypeOK, FormOK, EditOK
  <2> QED
    BY <2>1, <2>2
<1>8. /\ column' \in Columns /\ column' # None
      /\ column'.dataType = old.dataType /\ column'.flags = on /\ column'.modifiers = M
      /\ column'.hasLength = (old.hasLength \/ lengthOn)
  <2>1. <<>> \o M = M
    BY <1>6, ConcatEmptySeq
  <2>2. PICK h, l : /\ h = (old.hasDefault \/ (defaultOn /\ defaultText))
                    /\ l = (old.hasLength \/ lengthOn)
    OBVIOUS
  <2>3. h \in BOOLEAN /\ l \in BOOLEAN
    BY <2>2
  <2>4. column' = [old EXCEPT !.flags = on, !.modifiers = M, !.hasDefault = h, !.hasLength = l]
    BY <1>3, <1>4, <1>5, <1>7, <2>1, <2>2
  <2>5. on \in SUBSET Switches
    BY <1>0 DEF TypeOK
  <2>6. /\ column' \in Columns /\ column'.dataType = old.dataType /\ column'.flags = on
        /\ column'.modifiers = M /\ column'.hasLength = l
    BY <1>6, <1>7, <2>3, <2>4, <2>5 DEF Columns
  <2>7. column' # None
    BY <2>6, FormAssumption DEF FormAssumption
  <2> QED
    BY <2>2, <2>6, <2>7
<1>9. /\ form' = "closed" /\ UNCHANGED formVars
      /\ retyped' = (retyped \/ T # column'.dataType)
  BY <1>1 DEF Submit
<1>10. TypeOK'
  <2>1. retyped' \in BOOLEAN
    BY <1>9
  <2> QED
    BY <1>0, <1>8, <1>9, <2>1 DEF TypeOK, formVars
<1>11. FormOK'
  BY <1>0, <1>9 DEF formVars, FormOK, EditOK, FormAgrees, FormFits
<1>12. ModifiersMatchFlags'
  BY <1>5, <1>8 DEF ModifiersMatchFlags
<1>13. ASSUME ~retyped', column'.dataType # "TINYINT"
       PROVE  /\ ~retyped /\ fields = column'.dataType /\ fields # ""
              /\ on \cap Typed \subseteq SwitchesOf(column'.dataType)
  <2>1. ~retyped /\ T = column'.dataType
    BY <1>9, <1>13
  <2>2. fields = T
    BY <1>0, <1>1, <1>13, <2>1 DEF FormOK, FormAgrees
  <2>3. fields # ""
    BY <1>0, <1>1, <2>2
  <2> QED
    BY <1>0, <2>1, <2>2, <2>3 DEF FormOK, FormFits
<1>14. FlagsFit'
  BY <1>8, <1>13 DEF FlagsFit
<1>15. FitsItsType'
  <2> SUFFICES ASSUME ~retyped', column'.dataType \notin {"TINYINT", "YEAR"}
               PROVE  /\ column'.flags \cap Typed \subseteq SwitchesOf(column'.dataType)
                      /\ column'.hasLength => HasLength(column'.dataType)
                      /\ \A k \in 1..Len(column'.modifiers) :
                            column'.modifiers[k] \in {"DEFAULT", "DEFAULT quoted"} =>
                                (column'.modifiers[k] = "DEFAULT") = Unquoted(column'.dataType)
    BY DEF FitsItsType
  <2>1. /\ ~retyped /\ fields = column'.dataType /\ fields # ""
        /\ on \cap Typed \subseteq SwitchesOf(column'.dataType)
    BY <1>13
  <2>2. lengthOn => HasLength(column'.dataType)
    BY <1>0, <2>1 DEF FormOK, FormFits
  <2>3. old.hasLength => HasLength(column'.dataType)
    <3>1. CASE form = "new"
      BY <1>3, <3>1 DEF FreshColumn
    <3>2. CASE form # "new"
      <4>1. form = "edit" /\ old = column /\ column # None
        BY <1>0, <1>3, <3>2 DEF TypeOK, FormOK, EditOK
      <4> QED
        BY <1>0, <1>8, <2>1, <4>1 DEF ColumnOK, FitsItsType
    <3> QED
      BY <3>1, <3>2
  <2>4. column'.hasLength => HasLength(column'.dataType)
    BY <1>8, <2>2, <2>3
  <2>5. u = Unquoted(column'.dataType)
    BY <1>4, <2>1
  <2>6. \A k \in 1..Len(M) : M[k] \in {"DEFAULT", "DEFAULT quoted"} => (M[k] = "DEFAULT") = u
    <3>1. \A k \in 1..Len(ModifiersOf(on, d, u)) :
             ModifiersOf(on, d, u)[k] \in {"DEFAULT", "DEFAULT quoted"} =>
                 (ModifiersOf(on, d, u)[k] = "DEFAULT") = u
      BY ModifiersOK, Zenon
    <3> QED
      BY <1>5, <3>1, Zenon
  <2>7. \A k \in 1..Len(column'.modifiers) :
           column'.modifiers[k] \in {"DEFAULT", "DEFAULT quoted"} =>
               (column'.modifiers[k] = "DEFAULT") = Unquoted(column'.dataType)
    <3>1. column'.modifiers = M
      BY <1>8
    <3> QED
      BY <2>5, <2>6, <3>1, Zenon
  <2> QED
    BY <1>8, <2>1, <2>4, <2>7
<1>16. ASSUME column # None PROVE column'.flags \cap Free \subseteq column.flags
  <2>1. form = "edit"
    BY <1>0, <1>16 DEF TypeOK, FormOK, EditOK
  <2> QED
    BY <1>0, <1>8, <2>1 DEF FormOK, EditOK
<1> QED
  BY <1>10, <1>11, <1>12, <1>14, <1>15, <1>16 DEF IInv, ColumnOK

\* Every step keeps the invariant and adds no key to a column.
LEMMA NextIInv ==
    ASSUME IInv, [Next]_vars
    PROVE  /\ IInv'
           /\ column # None /\ column' # None => column'.flags \cap Free \subseteq column.flags
<1>1. CASE OpenNew
  BY <1>1, OpenNewKeeps DEF OpenNew
<1>2. CASE OpenEdit
  BY <1>2, OpenEditKeeps
<1>3. ASSUME NEW r \in 1..Len(dataTypes), SelectRow(r)
      PROVE  IInv' /\ UNCHANGED column
  BY <1>3, SelectRowKeeps DEF SelectRow
<1>4. ASSUME NEW s \in Switches, Toggle(s)
      PROVE  IInv' /\ UNCHANGED column
  BY <1>4, ToggleKeeps DEF Toggle
<1>5. CASE TypeDefault \/ Reappear \/ Cancel \/ UNCHANGED vars
  BY <1>5, OthersKeep DEF TypeDefault, Reappear, Cancel, vars
<1>6. CASE Submit
  BY <1>6, SubmitKeeps
<1>7. CASE DeleteColumn
  BY <1>7, DeleteKeeps DEF DeleteColumn
<1> QED
  BY <1>1, <1>2, <1>3, <1>4, <1>5, <1>6, <1>7 DEF Next

\* The form before it is opened.
LEMMA InitIInv == ASSUME Init PROVE IInv
<1>1. row \in 1..Len(dataTypes) /\ dataTypes = DataTypes
  <2>1. Len(DataTypes) \in Nat /\ Len(DataTypes) >= 1
    BY RowsOK
  <2>2. row = 1 /\ dataTypes = DataTypes
    BY DEF Init
  <2> QED
    BY <2>1, <2>2
<1> QED
  BY <1>1 DEF Init, IInv, TypeOK, FormOK, EditOK, FormAgrees, FormFits, ColumnOK, FlagsFit,
     ModifiersMatchFlags, FitsItsType
-----------------------------------------------------------------------------
(***************************************************************************)
(* The theorems.                                                           *)
(***************************************************************************)
\* The invariant holds in every reachable state.
THEOREM Invariant == Spec => []IInv
<1>1. Init => IInv
  BY InitIInv
<1>2. IInv /\ [Next]_vars => IInv'
  BY NextIInv
<1> QED
  BY <1>1, <1>2, PTL DEF Spec

\* The types of the form and of the column it saves.
THEOREM TypeCorrect == Spec => []TypeOK
<1>1. IInv => TypeOK
  BY DEF IInv
<1> QED
  BY <1>1, Invariant, PTL

\* However often a column is edited, its modifiers are those of its switches,
\* each once (addColumnOnClick:, and line 384, which empties them first).
THEOREM ModifiersMatch == Spec => []ModifiersMatchFlags
<1>1. IInv => ModifiersMatchFlags
  BY DEF IInv, ColumnOK
<1> QED
  BY <1>1, Invariant, PTL

\* Whatever types were tried in whatever order, a saved column's switches,
\* length and quotes suit its type.
THEOREM ColumnFits == Spec => []FitsItsType
<1>1. IInv => FitsItsType
  BY DEF IInv, ColumnOK
<1> QED
  BY <1>1, Invariant, PTL

\* The picker shows the type whose settings the form has, the blank row removed
\* or not (pickerView:didSelectRow:).
THEOREM PickerShowsFields == Spec => []PickerAgrees
<1>1. IInv => PickerAgrees
  BY DEF IInv, FormOK, FormAgrees, PickerAgrees
<1> QED
  BY <1>1, Invariant, PTL

\* No sequence of edits gives a column a key, or NOT NULL, it was saved without.
THEOREM KeysNeverAdded == Spec => KeysOnlyCleared
<1>1. IInv /\ [Next]_vars =>
        [column # None /\ column' # None => column'.flags \cap Free \subseteq column.flags]_vars
  BY NextIInv
<1> QED
  BY <1>1, Invariant, PTL DEF Spec, KeysOnlyCleared
=============================================================================
