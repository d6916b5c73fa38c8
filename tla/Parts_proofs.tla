------------------------------ MODULE Parts_proofs ------------------------------
(***************************************************************************)
(* The parts without a clock - the EEPROM's layout and dump, the stores    *)
(* side by side, the filters and the servo with its linear changer - for   *)
(* every value of their constants; and the types of all the parts.         *)
(***************************************************************************)
EXTENDS Clients_proofs, SequenceTheorems

-----------------------------------------------------------------------------
\* A header next to a configuration for each address.
IsMemory(m) ==
  /\ m = [header |-> m.header, config |-> m.config]
  /\ m.header = [f \in Layout!Fields |-> m.header[f]]
  /\ m.config \in [Layout!Addresses -> Layouts \cup {NoLayout}]

\* A memory whose header is a program's holds a configuration of that program.
Consistent(m) ==
  \A l \in Layouts : Layout!IsSameLayout(m.header, l) => m.config[l.address] = l

LayoutTypeInv ==
  /\ program \in Layouts
  /\ step \in {"off", "read", "config", "commit", "done"} \cup Layout!Fields
  /\ IsMemory(memory) /\ IsMemory(durable)

\* The fields of the header before the one that is to be put are the program's.
HeaderInv ==
  /\ step \in {"size", "address", "item", "config", "commit"}
       => memory.header.version = program.version
  /\ step \in {"address", "item", "config", "commit"}
       => memory.header.size = program.size
  /\ step \in {"item", "config", "commit"} => memory.header.address = program.address
  /\ step \in {"config", "commit"} => memory.header.item = program.item
  /\ step = "commit" => memory.config[program.address] = program

\* What the cells hold is consistent, except while an AVR writes the header or after
\* it lost its power there.
DurableInv ==
  /\ torn => direct
  /\ step = "read" \/ (direct /\ step # "off") => durable = memory
  /\ (~torn /\ ~(direct /\ step \in Layout!Fields \cup {"config"})) => Consistent(durable)

LayoutInv == LayoutTypeInv /\ HeaderInv /\ DurableInv /\ Layout!RunsWithOwnLayout

-----------------------------------------------------------------------------
LEMMA FieldNames == Layout!Fields = {"version", "size", "address", "item"}
BY DEF Layout!Fields, Layout!Following

\* A header is a program's only if it agrees with it in every field.
LEMMA SameHeader ==
  ASSUME Layout!LayoutAssumption, NEW l \in Layouts, NEW h,
         h = [f \in Layout!Fields |-> h[f]], Layout!IsSameLayout(h, l)
  PROVE  h = l
<1>1. l = [f \in Layout!Fields |-> l[f]]
  BY DEF Layout!LayoutAssumption
<1>2. \A f \in Layout!Fields : h[f] = l[f]
  BY FieldNames DEF Layout!IsSameLayout, Layout!IsSectionCompatible
<1> QED BY <1>1, <1>2

\* A memory with the program's header and configuration is consistent.
LEMMA WrittenConsistent ==
  ASSUME Layout!LayoutAssumption, LayoutTypeInv, HeaderInv, step = "commit"
  PROVE  Consistent(memory)
<1>1. SUFFICES ASSUME NEW l \in Layouts, Layout!IsSameLayout(memory.header, l)
               PROVE  memory.config[l.address] = l
  BY DEF Consistent
<1>2. Layout!IsSameLayout(memory.header, program)
  BY DEF HeaderInv, Layout!IsSameLayout, Layout!IsSectionCompatible
<1>3. memory.header = l /\ memory.header = program
  BY <1>1, <1>2, SameHeader DEF LayoutTypeInv, IsMemory
<1> QED BY <1>3 DEF HeaderInv

\* An EEPROM that no program has written is nobody's.
LEMMA LayoutInit ==
  ASSUME Layout!LayoutAssumption, Layout!Init PROVE LayoutInv
<1>1. /\ durable.header = NoLayout /\ memory = durable
      /\ durable.config = [a \in Layout!Addresses |-> NoLayout]
  BY DEF Layout!Init
<1>2. IsMemory(durable)
  BY <1>1 DEF Layout!Init, IsMemory, Layout!LayoutAssumption
<1>3. Consistent(durable)
  <2> SUFFICES ASSUME NEW l \in Layouts, Layout!IsSameLayout(durable.header, l)
               PROVE  FALSE
    BY DEF Consistent
  <2>1. durable.header = l
    BY <1>2, SameHeader DEF IsMemory
  <2> QED BY <1>1, <2>1 DEF Layout!LayoutAssumption
<1> QED BY <1>1, <1>2, <1>3
        DEF Layout!Init, LayoutInv, LayoutTypeInv, HeaderInv, DurableInv,
            Layout!RunsWithOwnLayout

\* What one put leaves of a memory.
LEMMA PutHeader ==
  ASSUME IsMemory(memory), NEW f \in Layout!Fields, NEW v
  PROVE  LET m == [memory EXCEPT !.header[f] = v]
         IN  /\ IsMemory(m) /\ m.config = memory.config /\ m.header[f] = v
             /\ \A g \in Layout!Fields \ {f} : m.header[g] = memory.header[g]
BY DEF IsMemory

LEMMA PutConfiguration ==
  ASSUME IsMemory(memory), NEW l \in Layouts
  PROVE  LET m == [memory EXCEPT !.config[l.address] = l]
         IN  IsMemory(m) /\ m.header = memory.header /\ m.config[l.address] = l
<1>1. l.address \in Layout!Addresses
  BY DEF Layout!Addresses
<1> QED BY <1>1 DEF IsMemory

LEMMA LayoutNext ==
  ASSUME Layout!LayoutAssumption, LayoutInv, [Layout!Next]_(Layout!layoutVars)
  PROVE  LayoutInv'
<1> USE DEF LayoutInv
<1>1. CASE Layout!SessionBegin
  BY <1>1, FieldNames
  DEF Layout!SessionBegin, LayoutTypeInv, HeaderInv, DurableInv,
      Layout!RunsWithOwnLayout
<1>2. CASE Layout!ReadHeader
  <2>1. /\ step = "read" /\ step' \in {"done", "version"} /\ memory = durable
        /\ UNCHANGED <<program, direct, memory, durable, torn>>
    BY <1>2 DEF Layout!ReadHeader, DurableInv
  <2>2. LayoutTypeInv' /\ HeaderInv'
    BY <2>1, FieldNames DEF LayoutTypeInv, HeaderInv
  <2>3. ~torn => Consistent(durable)
    BY <2>1, FieldNames DEF DurableInv
  <2>4. DurableInv'
    BY <2>1, <2>3 DEF DurableInv, Consistent
  <2>5. Layout!RunsWithOwnLayout'
    BY <1>2, <2>1, <2>3
    DEF Layout!ReadHeader, Layout!RunsWithOwnLayout, Consistent, LayoutTypeInv
  <2> QED BY <2>2, <2>4, <2>5
<1>3. CASE Layout!WriteHeader
  <2> DEFINE m == [memory EXCEPT !.header[step] = program[step]]
  <2>1. /\ step \in Layout!Fields /\ step' = Layout!Following[step]
        /\ memory' = m /\ durable' = IF direct THEN m ELSE durable
        /\ UNCHANGED <<program, direct, used, torn>>
    BY <1>3 DEF Layout!WriteHeader, Layout!Put
  <2>2. /\ IsMemory(m) /\ m.header[step] = program[step]
        /\ \A g \in Layout!Fields \ {step} : m.header[g] = memory.header[g]
    BY <2>1, PutHeader DEF LayoutTypeInv
  <2> HIDE DEF m
  <2>3. step' \in {"size", "address", "item", "config"}
    BY <2>1 DEF Layout!Fields, Layout!Following
  <2>4. LayoutTypeInv'
    BY <2>1, <2>2, <2>3, FieldNames DEF LayoutTypeInv
  <2>5. /\ step' = "size" => step = "version"
        /\ step' = "address" => step = "size"
        /\ step' = "item" => step = "address"
        /\ step' = "config" => step = "item"
    BY <2>1 DEF Layout!Fields, Layout!Following
  <2>6. HeaderInv'
    BY <2>1, <2>2, <2>3, <2>5, FieldNames DEF HeaderInv
  <2>7. DurableInv'
    BY <2>1, <2>3, FieldNames DEF DurableInv, Consistent
  <2>8. Layout!RunsWithOwnLayout'
    BY <2>3 DEF Layout!RunsWithOwnLayout
  <2> QED BY <2>4, <2>6, <2>7, <2>8
<1>4. CASE Layout!PutConfig
  <2> DEFINE m == [memory EXCEPT !.config[program.address] = program]
  <2>1. /\ step = "config" /\ step' = "commit" /\ torn' = FALSE
        /\ memory' = m /\ durable' = IF direct THEN m ELSE durable
        /\ UNCHANGED <<program, direct, used>>
    BY <1>4 DEF Layout!PutConfig, Layout!Put
  <2>2. IsMemory(m) /\ m.header = memory.header /\ m.config[program.address] = program
    BY PutConfiguration DEF LayoutTypeInv
  <2> HIDE DEF m
  <2>3. LayoutTypeInv'
    BY <2>1, <2>2 DEF LayoutTypeInv
  <2>4. HeaderInv'
    BY <2>1, <2>2 DEF HeaderInv
  <2>5. Consistent(m)
    <3>1. ASSUME NEW l \in Layouts, Layout!IsSameLayout(m.header, l)
          PROVE  m.config[l.address] = l
      <4>1. Layout!IsSameLayout(m.header, program)
        BY <2>1, <2>2 DEF HeaderInv, Layout!IsSameLayout, Layout!IsSectionCompatible
      <4>2. m.header = l /\ m.header = program
        BY <2>2, <3>1, <4>1, SameHeader DEF LayoutTypeInv, IsMemory
      <4> QED BY <2>2, <4>2
    <3> QED BY <3>1 DEF Consistent
  <2>6. ~direct => ~torn /\ Consistent(durable)
    BY <2>1 DEF DurableInv
  <2>7. DurableInv'
    BY <2>1, <2>5, <2>6, FieldNames DEF DurableInv, Consistent
  <2>8. Layout!RunsWithOwnLayout'
    BY <2>1 DEF Layout!RunsWithOwnLayout
  <2> QED BY <2>3, <2>4, <2>7, <2>8
<1>5. CASE Layout!Commit
  <2>1. /\ step = "commit" /\ step' = "done" /\ used' = program
        /\ durable' = memory \/ (~direct /\ durable' = durable)
        /\ UNCHANGED <<program, direct, memory, torn>>
    BY <1>5 DEF Layout!Commit
  <2>2. Consistent(memory)
    BY <2>1, WrittenConsistent
  <2> QED BY <2>1, <2>2, FieldNames
          DEF LayoutTypeInv, HeaderInv, DurableInv, Layout!RunsWithOwnLayout, Consistent
<1>6. CASE Layout!PowerLoss
  <2>1. /\ step # "off" /\ step' = "off" /\ program' \in Layouts
        /\ torn' = (torn \/ (direct /\ step \in Layout!Fields \cup {"config"}))
        /\ UNCHANGED <<direct, memory, durable>>
    BY <1>6 DEF Layout!PowerLoss
  <2>2. LayoutTypeInv' /\ HeaderInv' /\ Layout!RunsWithOwnLayout'
    BY <2>1, FieldNames DEF LayoutTypeInv, HeaderInv, Layout!RunsWithOwnLayout
  <2>3. (torn' => direct') /\ (~torn' => Consistent(durable))
    BY <2>1 DEF DurableInv
  <2>4. DurableInv'
    BY <2>1, <2>3, FieldNames DEF DurableInv, Consistent
  <2> QED BY <2>2, <2>4
<1>7. CASE UNCHANGED Layout!layoutVars
  BY <1>7 DEF Layout!layoutVars, LayoutTypeInv, HeaderInv, DurableInv,
              Layout!RunsWithOwnLayout, IsMemory, Consistent
<1> QED BY <1>1, <1>2, <1>3, <1>4, <1>5, <1>6, <1>7 DEF Layout!Next

-----------------------------------------------------------------------------
\* A program that has come through its setup() runs with a configuration of its own
\* layout, for any set of layouts, any history of updates, and power losses at any
\* step; an AVR that lost its power inside the header is excepted until the next
\* configuration is put.
LEMMA LayoutOwn ==
  ASSUME Layout!LayoutAssumption PROVE Layout!Spec => []Layout!RunsWithOwnLayout
<1>1. Layout!Init => LayoutInv
  BY LayoutInit
<1>2. LayoutInv /\ [Layout!Next]_(Layout!layoutVars) => LayoutInv'
  BY LayoutNext
<1>3. LayoutInv => Layout!RunsWithOwnLayout
  BY DEF LayoutInv
<1> QED BY <1>1, <1>2, <1>3, PTL DEF Layout!Spec

LEMMA LayoutTyped ==
  ASSUME Layout!LayoutAssumption PROVE Layout!Spec => []Layout!TypeOK
<1> DEFINE Types == used \in Layouts \cup {NoLayout} /\ direct \in BOOLEAN
    /\ torn \in BOOLEAN
<1>1. Layout!Init => LayoutInv /\ Types
  <2>1. Layout!Init => Types
    BY Zenon DEF Layout!Init
  <2> QED BY <2>1, LayoutInit
<1>2. LayoutInv /\ Types /\ [Layout!Next]_(Layout!layoutVars) => LayoutInv' /\ Types'
  <2> SUFFICES ASSUME LayoutInv, Types, [Layout!Next]_(Layout!layoutVars)
               PROVE  Types'
    BY LayoutNext
  <2>1. used' \in Layouts \cup {NoLayout}
    <3>1. program.address \in Layout!Addresses /\ program \in Layouts
      BY DEF LayoutInv, LayoutTypeInv, Layout!Addresses
    <3>2. memory.config[program.address] \in Layouts \cup {NoLayout}
      BY <3>1 DEF LayoutInv, LayoutTypeInv, IsMemory
    <3> QED BY <3>1, <3>2
            DEF Layout!Next, Layout!SessionBegin, Layout!ReadHeader,
                Layout!WriteHeader, Layout!PutConfig, Layout!Commit,
                Layout!PowerLoss, Layout!layoutVars
  <2>2. direct' \in BOOLEAN
    BY DEF Layout!Next, Layout!SessionBegin, Layout!ReadHeader, Layout!WriteHeader,
           Layout!PutConfig, Layout!Commit, Layout!PowerLoss, Layout!layoutVars
  <2>3. torn' \in BOOLEAN
    BY DEF Layout!Next, Layout!SessionBegin, Layout!ReadHeader, Layout!WriteHeader,
           Layout!PutConfig, Layout!Commit, Layout!PowerLoss, Layout!layoutVars
  <2> QED BY <2>1, <2>2, <2>3
<1>3. LayoutInv /\ Types => Layout!TypeOK
  BY FieldNames DEF LayoutInv, LayoutTypeInv, IsMemory, Layout!TypeOK
<1> HIDE DEF Types
<1> QED BY <1>1, <1>2, <1>3, PTL DEF Layout!Spec

-----------------------------------------------------------------------------
\* A dump: the rows written so far show what lies before the address, each byte once.
RowType       == [first : Nat, length : 1..RowSize]
Shows(row, x) == row.first <= x /\ x < row.first + row.length

DumpInv ==
  /\ range \in [size : Sizes, start : Starts, length : Lengths]
  /\ address \in 0..(DumpA - 1)
  /\ rows \in Seq(RowType)
  /\ range.start <= address
  /\ address = range.start \/ address <= Dump!Last
  /\ \A i \in 1..Len(rows) :
       rows[i].first >= range.start /\ rows[i].first + rows[i].length <= address
  /\ \A x \in Int : range.start <= x /\ x < address
                      => \E i \in 1..Len(rows) : Shows(rows[i], x)
  /\ \A i, j \in 1..Len(rows) :
       i # j => \A x \in Int : ~(Shows(rows[i], x) /\ Shows(rows[j], x))

LEMMA DumpEnds ==
  ASSUME Dump!DumpAssumption,
         range \in [size : Sizes, start : Starts, length : Lengths]
  PROVE  /\ DumpA \in Nat \ {0} /\ RowSize \in Nat \ {0}
         /\ range.size \in 0..(DumpA - 1) /\ range.start \in 0..(DumpA - 1)
         /\ range.length \in 0..(DumpA - 1)
         /\ Dump!DumpLength \in 0..(DumpA - 1) /\ Dump!Last \in 0..(DumpA - 1)
<1>1. /\ DumpA \in Nat \ {0} /\ RowSize \in Nat \ {0}
      /\ Sizes \subseteq 0..(DumpA - 1) /\ Starts \subseteq 0..(DumpA - 1)
      /\ Lengths \subseteq 0..(DumpA - 1)
  BY DEF Dump!DumpAssumption
<1>2. /\ range.size \in 0..(DumpA - 1) /\ range.start \in 0..(DumpA - 1)
      /\ range.length \in 0..(DumpA - 1)
  BY <1>1
<1>3. Dump!DumpLength \in 0..(DumpA - 1)
  <2>1. range.size - range.start \in Int
    BY <1>1, <1>2
  <2>2. (range.size - range.start) % DumpA \in 0..(DumpA - 1)
    BY <1>1, <2>1, DivMod
  <2> QED BY <1>2, <2>2 DEF Dump!DumpLength
<1>4. Dump!Last \in 0..(DumpA - 1)
  <2>1. range.start + Dump!DumpLength \in Int
    BY <1>1, <1>2, <1>3
  <2> QED BY <1>1, <2>1, DivMod DEF Dump!Last
<1> QED BY <1>1, <1>2, <1>3, <1>4

LEMMA DumpInit ==
  ASSUME Dump!DumpAssumption, Dump!Init PROVE DumpInv
<1>1. /\ range \in [size : Sizes, start : Starts, length : Lengths]
      /\ address = range.start /\ rows = <<>>
  BY DEF Dump!Init
<1>2. range.start \in 0..(DumpA - 1)
  BY <1>1, DumpEnds
<1>3. rows \in Seq(RowType) /\ Len(rows) = 0
  BY <1>1, EmptySeq
<1> QED BY <1>1, <1>2, <1>3 DEF DumpInv

LEMMA DumpRow ==
  ASSUME Dump!DumpAssumption, DumpInv, Dump!Row PROVE DumpInv'
<1> DEFINE row == [first |-> address, length |-> Dump!RowLength]
<1>1. /\ address < Dump!Last /\ rows' = Append(rows, row)
      /\ address' = address + Dump!RowLength /\ range' = range
  BY DEF Dump!Row
<1>2. /\ DumpA \in Nat \ {0} /\ RowSize \in Nat \ {0} /\ range.start \in 0..(DumpA - 1)
      /\ Dump!Last \in 0..(DumpA - 1) /\ address \in 0..(DumpA - 1)
      /\ rows \in Seq(RowType)
      /\ range \in [size : Sizes, start : Starts, length : Lengths]
  BY DumpEnds DEF DumpInv
<1>3. Dump!RowLength \in 1..RowSize /\ address + Dump!RowLength <= Dump!Last
  BY <1>1, <1>2 DEF Dump!RowLength
<1>4. row \in RowType
  BY <1>2, <1>3 DEF RowType
<1> DEFINE n == Len(rows)
<1>5. /\ rows' \in Seq(RowType)
      /\ n \in Nat /\ Len(rows') = n + 1
      /\ \A i \in 1..n : rows'[i] = rows[i]
      /\ rows'[n + 1] = row
  BY <1>1, <1>2, <1>4, AppendProperties
<1>6. \A i \in 1..n : rows[i].first \in Nat /\ rows[i].length \in 1..RowSize
  <2>1. \A i \in 1..n : rows[i] \in RowType
    BY <1>2, ElementOfSeq
  <2> QED BY <2>1 DEF RowType
<1>7. Dump!Last' = Dump!Last
  BY <1>1 DEF Dump!Last, Dump!DumpLength
<1>8. /\ \A i \in 1..n : rows[i].first >= range.start
                         /\ rows[i].first + rows[i].length <= address
      /\ \A x \in Int : range.start <= x /\ x < address
                      => \E i \in 1..n : Shows(rows[i], x)
      /\ \A i, j \in 1..n :
           i # j => \A x \in Int : ~(Shows(rows[i], x) /\ Shows(rows[j], x))
      /\ range.start <= address
  BY DEF DumpInv
<1>9. /\ \A i \in 1..n : \A x \in Int : Shows(rows'[i], x) <=> Shows(rows[i], x)
      /\ \A x \in Int : Shows(rows'[n + 1], x) <=> address <= x /\ x < address'
  <2>1. rows'[n + 1].first = address /\ rows'[n + 1].length = Dump!RowLength
    BY <1>5
  <2>2. ASSUME NEW i \in 1..n, NEW x \in Int
        PROVE  Shows(rows'[i], x) <=> Shows(rows[i], x)
    <3>1. rows'[i] = rows[i]
      BY <1>5
    <3> QED BY <3>1 DEF Shows
  <2>3. ASSUME NEW x \in Int PROVE Shows(rows'[n + 1], x) <=> address <= x /\ x < address'
    BY <1>1, <2>1 DEF Shows
  <2> QED BY <2>2, <2>3
<1> HIDE DEF n
<1>10. /\ address' \in 0..(DumpA - 1) /\ range.start <= address' /\ address <= address'
       /\ address' <= Dump!Last
  BY <1>1, <1>2, <1>3, <1>8
<1>11. \A i \in 1..(n + 1) : rows'[i].first >= range.start
                             /\ rows'[i].first + rows'[i].length <= address'
  <2>1. rows'[n + 1].first = address /\ rows'[n + 1].length = Dump!RowLength
    BY <1>5
  <2> QED BY <1>1, <1>2, <1>3, <1>5, <1>6, <1>8, <2>1
<1>12. ASSUME NEW x \in Int, range.start <= x, x < address'
       PROVE  \E i \in 1..(n + 1) : Shows(rows'[i], x)
  <2>1. CASE x < address
    <3>1. PICK i \in 1..n : Shows(rows[i], x)
      BY <1>8, <1>12, <2>1
    <3>2. Shows(rows'[i], x) /\ i \in 1..(n + 1)
      BY <1>5, <1>9, <3>1
    <3> QED BY <3>2
  <2>2. CASE x >= address
    BY <1>5, <1>9, <1>12, <2>2
  <2> QED BY <1>2, <1>12, <2>1, <2>2
<1>13. ASSUME NEW i \in 1..(n + 1), NEW j \in 1..(n + 1), i # j, NEW x \in Int,
              Shows(rows'[i], x), Shows(rows'[j], x)
       PROVE  FALSE
  <2>1. ASSUME NEW k \in 1..n, Shows(rows'[k], x), Shows(rows'[n + 1], x) PROVE FALSE
    <3>1. rows[k].first + rows[k].length <= address /\ x < rows[k].first + rows[k].length
      BY <1>8, <1>9, <2>1 DEF Shows
    <3>2. address <= x
      BY <1>9, <2>1
    <3>3. rows[k].first \in Nat /\ rows[k].length \in Nat
      BY <1>6
    <3> QED BY <1>2, <3>1, <3>2, <3>3
  <2>2. (i \in 1..n \/ i = n + 1) /\ (j \in 1..n \/ j = n + 1)
    BY <1>5
  <2> QED BY <1>8, <1>9, <1>13, <2>1, <2>2
<1> QED BY <1>1, <1>2, <1>5, <1>7, <1>10, <1>11, <1>12, <1>13 DEF DumpInv

LEMMA DumpShows ==
  ASSUME Dump!DumpAssumption, DumpInv PROVE Dump!TypeOK /\ Dump!DumpsRange
<1> DEFINE until == IF range.length = 0 THEN range.size ELSE range.start + range.length
           n == Len(rows)
<1>1. /\ DumpA \in Nat \ {0} /\ RowSize \in Nat \ {0} /\ range.start \in 0..(DumpA - 1)
      /\ range.size \in 0..(DumpA - 1) /\ range.length \in 0..(DumpA - 1)
      /\ address \in 0..(DumpA - 1)
      /\ rows \in Seq(RowType)
  BY DumpEnds DEF DumpInv
<1>2. \A i \in 1..n : rows[i].first \in Nat /\ rows[i].length \in 1..RowSize
  <2>1. \A i \in 1..n : rows[i] \in RowType
    BY <1>1, ElementOfSeq
  <2> QED BY <2>1 DEF RowType
<1>3. \A i \in 1..n : \A x : x \in Dump!Shown(i) <=> x \in Int /\ Shows(rows[i], x)
  BY <1>1, <1>2 DEF Dump!Shown, Shows
<1>4. /\ \A i \in 1..n : rows[i].first >= range.start
                         /\ rows[i].first + rows[i].length <= address
      /\ \A x \in Int : range.start <= x /\ x < address
                      => \E i \in 1..n : Shows(rows[i], x)
      /\ \A i, j \in 1..n :
           i # j => \A x \in Int : ~(Shows(rows[i], x) /\ Shows(rows[j], x))
      /\ range.start <= address /\ (address = range.start \/ address <= Dump!Last)
  BY DEF DumpInv
<1>5. ASSUME NEW i \in 1..n, NEW j \in 1..n, i # j
      PROVE  Dump!Shown(i) \cap Dump!Shown(j) = {}
  BY <1>3, <1>4, <1>5
<1>6. ASSUME Dump!Done, range.start <= until, until < DumpA
      PROVE  UNION {Dump!Shown(i) : i \in 1..n} = range.start..(until - 1)
  <2>1. Dump!Last = until
    <3>1. range.length = 0
            => (range.size - range.start) % DumpA = range.size - range.start
      <4>1. range.length = 0 => range.size - range.start \in 0..(DumpA - 1)
        BY <1>1, <1>6
      <4> QED BY <1>1, <4>1, ClockBelow
    <3>2. range.start + Dump!DumpLength = until
      BY <1>1, <1>6, <3>1 DEF Dump!DumpLength
    <3>3. until \in 0..(DumpA - 1)
      BY <1>1, <1>6
    <3> HIDE DEF until
    <3> QED BY <1>1, <3>2, <3>3, ClockBelow DEF Dump!Last
  <2>2. address = until
    BY <1>1, <1>4, <1>6, <2>1 DEF Dump!Done
  <2> HIDE DEF until, n
  <2>3. ASSUME NEW i \in 1..n, NEW x \in Dump!Shown(i)
        PROVE  x \in range.start..(until - 1)
    <3>1. x \in Int /\ rows[i].first <= x /\ x < rows[i].first + rows[i].length
      BY <1>3, <2>3 DEF Shows
    <3>2. rows[i].first \in Nat /\ rows[i].length \in Nat
      BY <1>2
    <3> QED BY <1>1, <1>4, <2>2, <3>1, <3>2
  <2>4. ASSUME NEW x \in range.start..(until - 1)
        PROVE  \E i \in 1..n : x \in Dump!Shown(i)
    <3>1. x \in Int /\ range.start <= x /\ x < address
      BY <1>1, <2>2
    <3> QED BY <1>3, <1>4, <3>1
  <2> QED BY <2>3, <2>4
<1>7. Dump!TypeOK
  BY <1>1, <1>2 DEF Dump!TypeOK
<1> QED BY <1>5, <1>6, <1>7 DEF Dump!DumpsRange

\* A dump that is called again begins at its new start, as the first one did.
LEMMA DumpAgain ==
  ASSUME Dump!DumpAssumption, Dump!Again PROVE DumpInv'
<1>1. /\ range' \in [size : Sizes, start : Starts, length : Lengths]
      /\ address' = range'.start /\ rows' = <<>>
  BY DEF Dump!Again
<1>2. range'.start \in 0..(DumpA - 1)
  BY <1>1 DEF Dump!DumpAssumption
<1>3. rows' \in Seq(RowType) /\ Len(rows') = 0
  BY <1>1, EmptySeq
<1>4. RowType' = RowType
  BY DEF RowType
<1> QED BY <1>1, <1>2, <1>3, <1>4 DEF DumpInv

LEMMA DumpStep ==
  ASSUME Dump!DumpAssumption, DumpInv, [Dump!Next]_(Dump!dumpVars) PROVE DumpInv'
<1>1. CASE UNCHANGED Dump!dumpVars
  BY <1>1 DEF Dump!dumpVars, DumpInv, Shows, Dump!Last, Dump!DumpLength, RowType
<1> QED BY <1>1, DumpRow, DumpAgain DEF Dump!Next

-----------------------------------------------------------------------------
\* Parts, while it is about the layout or the dump, is no more than that.
LEMMA LayoutAlone ==
  /\ About("layout") /\ Init => Layout!Init
  /\ About("layout") /\ [Next]_vars => [Layout!Next]_(Layout!layoutVars)
<1>1. About("layout") /\ Init => Layout!Init
  BY DEF About, Init
<1>2. About("layout") /\ [Next]_vars => [Layout!Next]_(Layout!layoutVars)
  BY DEF About, Next, Others, vars, layout, Layout!layoutVars
<1> QED BY <1>1, <1>2

LEMMA DumpAlone ==
  /\ About("dump") /\ Init => Dump!Init
  /\ About("dump") /\ [Next]_vars => [Dump!Next]_(Dump!dumpVars)
<1>1. About("dump") /\ Init => Dump!Init
  BY DEF About, Init
<1>2. About("dump") /\ [Next]_vars => [Dump!Next]_(Dump!dumpVars)
  BY DEF About, Next, Others, vars, dump, Dump!dumpVars
<1> QED BY <1>1, <1>2

LEMMA DumpInductive == Spec => [](About("dump") => DumpInv)
<1>1. About("dump") /\ Init => DumpInv
  BY PartsAssumption, DumpAlone, DumpInit DEF PartsAssumption
<1>2. About("dump") /\ DumpInv /\ [Next]_vars => DumpInv'
  BY PartsAssumption, DumpAlone, DumpStep DEF PartsAssumption
<1>3. About("dump") /\ [Next]_vars => About("dump")'
  BY AboutStays
<1>4. ~About("dump") /\ [Next]_vars => ~About("dump")'
  BY AboutAlways
<1> QED BY <1>1, <1>2, <1>3, <1>4, PTL DEF Spec

\* A program that has come through its setup() runs with a configuration of its own
\* layout: behind a RAM buffer whatever programs ran before it, wherever their updates
\* were cut off and whichever commits failed, and on an AVR as long as no power was lost
\* between the first byte of a header and the configuration that follows; and a dump
\* whose end 16 bits can tell shows each byte of its range once and no other.
THEOREM LayoutIsRight == Spec => []LayoutHolds
<1>1. Layout!Spec => []Layout!RunsWithOwnLayout
  BY PartsAssumption, LayoutOwn DEF PartsAssumption
<1>2. DumpInv => Dump!DumpsRange
  BY PartsAssumption, DumpShows DEF PartsAssumption
<1>3. (About("layout") => Layout!RunsWithOwnLayout) /\ (About("dump") => Dump!DumpsRange)
        => LayoutHolds
  BY DEF About, LayoutHolds
<1>4. About("layout") /\ [Next]_vars => About("layout")'
  BY AboutStays
<1>5. ~About("layout") /\ [Next]_vars => ~About("layout")'
  BY AboutAlways
<1> QED BY <1>1, <1>2, <1>3, <1>4, <1>5, DumpInductive, LayoutAlone, PTL
        DEF Spec, Layout!Spec

-----------------------------------------------------------------------------
\* The changer.  A fixed point product and the conversions, in the range they keep.
LEMMA ChangerConstants ==
  ASSUME Servo!LinearChangerAssumption
  PROVE  /\ FixScale \in Nat \ {0} /\ Fine \in Nat \ {0} /\ Second \in Nat \ {0}
         /\ Time \in Nat /\ MaxUpdates \in Nat
         /\ Rates \subseteq Nat /\ Targets \subseteq Int
BY DEF Servo!LinearChangerAssumption

LEMMA FloatToFixTowardsZero ==
  ASSUME Servo!LinearChangerAssumption, NEW f \in Int
  PROVE  /\ Servo!FloatToFix(f) \in Int
         /\ f >= 0 => Servo!FloatToFix(f) * Fine \in (f - Fine + 1)..f
         /\ f >= 0 => Servo!FloatToFix(f) \in Nat
         /\ f < 0 => Servo!FloatToFix(f) * Fine \in f..(f + Fine - 1)
         /\ f < 0 => Servo!FloatToFix(f) <= 0
<1>1. Fine \in Nat \ {0}
  BY ChangerConstants
<1>2. ASSUME NEW g \in Nat
      PROVE  /\ g \div Fine \in Nat
             /\ (g \div Fine) * Fine \in (g - Fine + 1)..g
  <2> DEFINE q == g \div Fine
  <2>1. g = Fine * q + (g % Fine) /\ g % Fine \in 0..(Fine - 1) /\ q \in Int
    BY <1>1, DivMod
  <2>2. Fine * 0 <= g /\ g <= Fine * g
    <3>1. 1 * g <= Fine * g
      BY <1>1, ProductGrows
    <3> QED BY <1>1, <3>1
  <2>3. q >= 0
    BY <1>1, <2>2, QuotientBetween
  <2> HIDE DEF q
  <2>4. q * Fine = Fine * q /\ q * Fine \in Int
    BY <1>1, <2>1
  <2>5. q * Fine \in (g - Fine + 1)..g
    BY <1>1, <2>1, <2>4
  <2> QED BY <2>1, <2>3, <2>5 DEF q
<1>3. CASE f >= 0
  <2>1. Servo!FloatToFix(f) = f \div Fine /\ f \in Nat
    BY <1>3 DEF Servo!FloatToFix
  <2> QED BY <1>1, <1>2, <1>3, <2>1
<1>4. CASE f < 0
  <2> DEFINE g == -f
             q == g \div Fine
  <2>1. Servo!FloatToFix(f) = -q
    BY <1>4 DEF Servo!FloatToFix
  <2>2. q \in Nat /\ q * Fine \in (g - Fine + 1)..g
    BY <1>2, <1>4
  <2> HIDE DEF q
  <2>3. (-q) * Fine = -(q * Fine) /\ q * Fine \in Int
    BY <1>1, <2>2
  <2>4. (-q) * Fine \in f..(f + Fine - 1)
    BY <1>1, <2>2, <2>3
  <2> QED BY <1>4, <2>1, <2>2, <2>4
<1> QED BY <1>3, <1>4

LEMMA RateToFix ==
  ASSUME Servo!LinearChangerAssumption, NEW f \in Rates
  PROVE  Servo!FloatToFix(f) \in Nat
BY ChangerConstants, FloatToFixTowardsZero

LEMMA QuotientOfNat ==
  ASSUME NEW n \in Nat \ {0}, NEW a \in Nat
  PROVE  a \div n \in Nat
<1>1. 0 <= a \div n
  <2>1. n * 0 <= a /\ a <= n * a
    <3>1. 1 * a <= n * a
      BY ProductGrows
    <3> QED BY <3>1
  <2> QED BY <2>1, QuotientBetween
<1> QED BY <1>1, DivMod

LEMMA ProductOfFix ==
  ASSUME Servo!LinearChangerAssumption, NEW x \in Nat, NEW y \in Nat
  PROVE  Servo!FixMul(x, y) \in Nat
<1>1. x * y \in Nat
  OBVIOUS
<1> QED BY <1>1, ChangerConstants, QuotientOfNat DEF Servo!FixMul

LEMMA CycleIsNatural ==
  ASSUME Servo!LinearChangerAssumption, NEW t \in Nat
  PROVE  Servo!CycleOf(t) \in Nat
<1>1. FixScale \in Nat \ {0} /\ Second \in Nat \ {0}
  BY ChangerConstants
<1>2. t * FixScale \in Nat
  BY <1>1
<1> QED BY <1>1, <1>2, QuotientOfNat DEF Servo!CycleOf

LEMMA GetCycleIsNatural ==
  ASSUME Servo!LinearChangerAssumption, cycleTime \in Nat
  PROVE  Servo!GetCycleTime \in Nat
<1>1. FixScale \in Nat \ {0} /\ FixScale \div 2 \in Nat
  BY ChangerConstants, QuotientOfNat
<1> QED BY <1>1, QuotientOfNat DEF Servo!GetCycleTime, Servo!FixToInt

-----------------------------------------------------------------------------
\* A value on its way has the rate it began with, and one update moves it on by one
\* step, or to its target if that is nearer.
Moved(way) ==
  IF from <= target THEN IF from + way > target THEN target ELSE from + way
                    ELSE IF from - way < target THEN target ELSE from - way

ChangerInv == Servo!TypeOK /\ Servo!ChangesLinearly

LEMMA Squares ==
  ASSUME NEW a \in Nat, NEW b \in Nat
  PROVE  a < b <=> a * a < b * b
<1>1. ASSUME a < b PROVE a * a < b * b
  <2>1. a * a <= b * a
    BY <1>1, ProductGrows
  <2>2. (b - a) * b > 0
    BY <1>1
  <2>3. (b - a) * b = b * b - b * a
    BY <1>1
  <2>4. a * a \in Int /\ b * a \in Int /\ b * b \in Int
    OBVIOUS
  <2> QED BY <2>1, <2>2, <2>3, <2>4
<1>2. ASSUME b <= a PROVE b * b <= a * a
  <2>1. b * b <= a * b /\ b * a <= a * a
    BY <1>2, ProductGrows
  <2> QED BY <2>1
<1> QED BY <1>1, <1>2

LEMMA RateOnTheWay ==
  ASSUME from \in Int, target \in Int, present \in Int, present # target,
         (from <= present /\ present < target) \/ (target < present /\ present <= from)
  PROVE  Servo!GetDelta = Servo!Rate
<1>1. \A x \in Int : \A y \in Int :
        /\ x >= 0 /\ y >= 0 => x * y >= 0
        /\ x <= 0 /\ y <= 0 => x * y >= 0
        /\ x < 0 /\ y > 0 => x * y < 0
        /\ x > 0 /\ y < 0 => x * y < 0
  OBVIOUS
<1>2. \A x \in Int : (-x) * (-x) = x * x
  OBVIOUS
<1>3. target >= 0 /\ from >= 0 => (target * target < from * from <=> target < from)
  BY Squares
<1>4. target <= 0 /\ from <= 0 => (target * target < from * from <=> from < target)
  <2>1. ASSUME target <= 0, from <= 0
        PROVE  (-target) * (-target) < (-from) * (-from) <=> -target < -from
    BY <2>1, Squares
  <2> QED BY <1>2, <2>1
<1> DEFINE p == from * target
           s == target * target
           t == from * from
<1>5. /\ from >= 0 /\ target >= 0 => p >= 0
      /\ from <= 0 /\ target <= 0 => p >= 0
      /\ from < 0 /\ target > 0 => p < 0
      /\ from > 0 /\ target < 0 => p < 0
  BY <1>1
<1>6. p \in Int /\ s \in Int /\ t \in Int
  OBVIOUS
<1>7. Servo!Rate = IF p >= 0 /\ s < t THEN decrease ELSE increase
  BY DEF Servo!Rate
<1>8. /\ target >= 0 /\ from >= 0 => (s < t <=> target < from)
      /\ target <= 0 /\ from <= 0 => (s < t <=> from < target)
  BY <1>3, <1>4
<1> HIDE DEF p, s, t
<1>9. CASE from <= present /\ present < target
  <2>1. Servo!GetDelta = IF target > 0 THEN increase ELSE decrease
    BY <1>9 DEF Servo!GetDelta
  <2>2. CASE target > 0
    BY <1>5, <1>6, <1>7, <1>8, <1>9, <2>1, <2>2
  <2>3. CASE target <= 0
    BY <1>5, <1>6, <1>7, <1>8, <1>9, <2>1, <2>3
  <2> QED BY <2>2, <2>3
<1>10. CASE target < present /\ present <= from
  <2>1. Servo!GetDelta = IF target < 0 THEN increase ELSE decrease
    BY <1>10 DEF Servo!GetDelta
  <2>2. CASE target < 0
    BY <1>5, <1>6, <1>7, <1>8, <1>10, <2>1, <2>2
  <2>3. CASE target >= 0
    BY <1>5, <1>6, <1>7, <1>8, <1>10, <2>1, <2>3
  <2> QED BY <2>2, <2>3
<1> QED BY <1>9, <1>10

LEMMA ChangerInit ==
  ASSUME Servo!LinearChangerAssumption, Servo!Init PROVE ChangerInv
<1>1. PICK i \in Rates, d \in Rates :
        increase = Servo!FloatToFix(i) /\ decrease = Servo!FloatToFix(d)
  BY DEF Servo!Init
<1>2. /\ present = 0 /\ target = 0 /\ from = 0 /\ updates = 0
      /\ cycleTime = Servo!CycleOf(Time)
  BY DEF Servo!Init
<1>3. increase \in Nat /\ decrease \in Nat /\ cycleTime \in Nat
  BY <1>1, <1>2, RateToFix, CycleIsNatural, ChangerConstants
<1>4. Servo!FixMul(Servo!Rate, cycleTime) \in Nat
  BY <1>3, ProductOfFix DEF Servo!Rate
<1>5. Servo!TypeOK
  BY <1>2, <1>3, ChangerConstants DEF Servo!TypeOK
<1>6. updates * Servo!FixMul(Servo!Rate, cycleTime) = 0
  BY <1>2, <1>4
<1> QED BY <1>2, <1>5, <1>6 DEF ChangerInv, Servo!ChangesLinearly

LEMMA ChangerUpdate ==
  ASSUME Servo!LinearChangerAssumption, ChangerInv, Servo!Update
  PROVE  ChangerInv'
<1> DEFINE s == Servo!FixMul(Servo!Rate, cycleTime)
           n == updates
<1>1. /\ present \in Int /\ target \in Int /\ from \in Int
      /\ increase \in Nat /\ decrease \in Nat /\ cycleTime \in Nat /\ n \in 0..MaxUpdates
  BY DEF ChangerInv, Servo!TypeOK
<1>2. /\ Servo!UpdateFix /\ updates < MaxUpdates /\ updates' = updates + 1
      /\ UNCHANGED <<target, increase, decrease, cycleTime, from>>
  BY DEF Servo!Update, Servo!speed
<1>3. Servo!Rate \in Nat /\ s \in Nat
  BY <1>1, ProductOfFix DEF Servo!Rate
<1>4. Servo!Rate' = Servo!Rate
  BY <1>2 DEF Servo!Rate
<1>5. (n + 1) * s = n * s + s /\ n * s \in Nat /\ (n + 1) * s \in Nat
  BY <1>1, <1>3
<1>6. present = Moved(n * s)
  BY DEF ChangerInv, Servo!ChangesLinearly, Moved
<1>7. present' = Moved((n + 1) * s)
  <2> DEFINE pace == Servo!FixMul(Servo!GetDelta, cycleTime)
             a == n * s
             b == (n + 1) * s
  <2>1. present' = IF present < target
                   THEN IF present + pace > target THEN target ELSE present + pace
                   ELSE IF present - pace < target THEN target ELSE present - pace
    BY <1>2 DEF Servo!UpdateFix
  <2>2. b = a + s /\ a \in Nat /\ s \in Nat /\ present = Moved(a)
    BY <1>3, <1>5, <1>6
  <2> SUFFICES present' = Moved(b)
    OBVIOUS
  <2>3. CASE present = target
    <3>1. pace = 0
      <4>1. Servo!GetDelta = 0
        BY <2>3 DEF Servo!GetDelta
      <4>2. 0 * cycleTime = 0 /\ FixScale \in Nat \ {0} /\ FixScale * 0 = 0
        BY <1>1, ChangerConstants
      <4>3. 0 \div FixScale = 0
        BY <4>2, QuotientBetween
      <4> QED BY <4>1, <4>2, <4>3 DEF Servo!FixMul
    <3> HIDE DEF pace, a, b, s
    <3> QED BY <1>1, <2>1, <2>2, <2>3, <3>1 DEF Moved
  <2>4. CASE present # target
    <3> HIDE DEF a, b
    <3>1. (from <= present /\ present < target) \/ (target < present /\ present <= from)
      BY <1>1, <2>2, <2>4 DEF Moved
    <3>2. Servo!GetDelta = Servo!Rate
      BY <1>1, <2>4, <3>1, RateOnTheWay
    <3>3. pace = s
      BY <3>2
    <3> HIDE DEF pace, s
    <3> QED BY <1>1, <2>1, <2>2, <3>1, <3>3 DEF Moved
  <2> QED BY <2>3, <2>4
<1>8. present' \in Int
  <2>1. ASSUME NEW way \in Int PROVE Moved(way) \in Int
    BY <1>1 DEF Moved
  <2> QED BY <1>5, <1>7, <2>1
<1>9. Servo!TypeOK'
  BY <1>1, <1>2, <1>8, ChangerConstants DEF Servo!TypeOK
<1>10. s' = s
  BY <1>2, <1>4 DEF Servo!FixMul
<1> HIDE DEF s
<1>11. Servo!ChangesLinearly'
  BY <1>2, <1>7, <1>10 DEF Servo!ChangesLinearly, Moved, s
<1> QED BY <1>9, <1>11 DEF ChangerInv

LEMMA ChangerSets ==
  ASSUME Servo!LinearChangerAssumption, ChangerInv, Servo!Restarted,
         UNCHANGED cycleTime,
         present' \in Int, target' \in Int, increase' \in Nat, decrease' \in Nat
  PROVE  ChangerInv'
<1>1. cycleTime' \in Nat /\ from' = present' /\ updates' = 0
  BY DEF ChangerInv, Servo!TypeOK, Servo!Restarted
<1>2. Servo!FixMul(Servo!Rate', cycleTime') \in Nat
  BY <1>1, ProductOfFix DEF Servo!Rate
<1>3. updates' * Servo!FixMul(Servo!Rate', cycleTime') = 0
  BY <1>1, <1>2
<1>4. Servo!TypeOK'
  BY <1>1, ChangerConstants DEF Servo!TypeOK
<1>5. (updates * Servo!FixMul(Servo!Rate, cycleTime))' = 0
  BY <1>3 DEF Servo!FixMul
<1> QED BY <1>1, <1>4, <1>5 DEF ChangerInv, Servo!ChangesLinearly

LEMMA ChangerStep ==
  ASSUME Servo!LinearChangerAssumption, ChangerInv, [Servo!Next]_(Servo!changer)
  PROVE  ChangerInv'
<1>1. /\ present \in Int /\ target \in Int /\ increase \in Nat /\ decrease \in Nat
  BY DEF ChangerInv, Servo!TypeOK
<1>2. ASSUME NEW f \in Targets PROVE Servo!FloatToFix(f) \in Int
  BY FloatToFixTowardsZero, ChangerConstants
<1>3. CASE Servo!Update
  BY <1>3, ChangerUpdate
<1>4. ASSUME NEW f \in Targets, Servo!SetTarget(f) \/ Servo!SetPresent(f)
      PROVE  ChangerInv'
  BY <1>1, <1>2, <1>4, ChangerSets DEF Servo!SetTarget, Servo!SetPresent, Servo!speed
<1>5. ASSUME NEW f \in Rates, Servo!SetIncrease(f) \/ Servo!SetDecrease(f)
      PROVE  ChangerInv'
  BY <1>1, <1>5, RateToFix, ChangerSets DEF Servo!SetIncrease, Servo!SetDecrease, Servo!ends
<1>6. CASE UNCHANGED Servo!changer
  BY <1>6 DEF Servo!changer, Servo!ends, Servo!speed, Servo!history, ChangerInv,
              Servo!TypeOK, Servo!ChangesLinearly, Servo!Rate, Servo!FixMul
<1> QED BY <1>3, <1>4, <1>5, <1>6 DEF Servo!Next

-----------------------------------------------------------------------------
\* The servo.  An angle that was checked stays in range as a fix, and so does a value
\* on its way from one to another; the pulse of an angle in range is in range.
InRange(x) == x * Fine \in (-Limit)..Limit

LEMMA ServoConstants ==
  ASSUME Servo!ServoAssumption
  PROVE  /\ Servo!LinearChangerAssumption /\ Fine \in Nat \ {0}
         /\ Angles \subseteq Int /\ Limit \in Nat
         /\ PulseOffset \in Nat /\ PulseRate \in Nat /\ PulseUnit \in Nat \ {0}
BY ChangerConstants DEF Servo!ServoAssumption

LEMMA CheckedAngle ==
  ASSUME Servo!ServoAssumption, NEW a \in Int
  PROVE  /\ Servo!CheckAngle(a) \in (-Limit)..Limit
         /\ a \in (-Limit)..Limit => Servo!CheckAngle(a) = a
BY ServoConstants DEF Servo!CheckAngle

LEMMA PulseInRange ==
  ASSUME Servo!ServoAssumption, NEW a \in (-Limit)..Limit
  PROVE  Servo!Pulse(a) \in 0..Servo!Pulse(Limit)
<1>1. /\ Limit \in Nat /\ PulseOffset \in Nat /\ PulseRate \in Nat
      /\ PulseUnit \in Nat \ {0}
  BY ServoConstants
<1>2. a + Limit \in Nat /\ a + Limit <= Limit + Limit
  BY <1>1
<1> DEFINE x == (a + Limit) * PulseRate
           y == (Limit + Limit) * PulseRate
<1>3. x <= y /\ x \in Nat /\ y \in Nat
  BY <1>1, <1>2, ProductGrows
<1>4. PulseRate * (a + Limit) = x /\ PulseRate * (Limit + Limit) = y
  BY <1>1
<1> HIDE DEF x, y
<1>5. PulseOffset + x \in Nat /\ PulseOffset + y \in Nat
      /\ PulseOffset + x <= PulseOffset + y
  BY <1>1, <1>3
<1>6. /\ (PulseOffset + x) \div PulseUnit <= (PulseOffset + y) \div PulseUnit
      /\ (PulseOffset + x) \div PulseUnit \in Nat
      /\ (PulseOffset + y) \div PulseUnit \in Nat
  BY <1>1, <1>5, QuotientGrows, QuotientOfNat
<1> QED BY <1>4, <1>6 DEF Servo!Pulse

\* An angle set at once loses less than one fix.
LEMMA AngleToFix ==
  ASSUME Servo!ServoAssumption, NEW a \in Int
  PROVE  LET c == Servo!CheckAngle(a)
             x == Servo!FloatToFix(c)
         IN  /\ x \in Int /\ InRange(x)
             /\ \E f \in (1 - Fine)..(Fine - 1) : x * Fine + f = c
<1> DEFINE c == Servo!CheckAngle(a)
           x == Servo!FloatToFix(c)
<1>1. c \in (-Limit)..Limit /\ Limit \in Nat /\ Fine \in Nat \ {0}
  BY CheckedAngle, ServoConstants
<1>2. /\ x \in Int
      /\ c >= 0 => x * Fine \in (c - Fine + 1)..c /\ x \in Nat
      /\ c < 0 => x * Fine \in c..(c + Fine - 1) /\ x <= 0
  BY <1>1, FloatToFixTowardsZero, ServoConstants
<1> HIDE DEF c, x
<1>3. x >= 0 => x * Fine >= 0
  BY <1>1, <1>2
<1>4. x <= 0 => x * Fine <= 0
  BY <1>1, <1>2
<1>5. x * Fine \in Int
  BY <1>1, <1>2
<1>6. InRange(x)
  BY <1>1, <1>2, <1>3, <1>4, <1>5 DEF InRange
<1>7. c - x * Fine \in (1 - Fine)..(Fine - 1) /\ x * Fine + (c - x * Fine) = c
  BY <1>1, <1>2, <1>5
<1>8. x \in Int /\ InRange(x) /\ \E f \in (1 - Fine)..(Fine - 1) : x * Fine + f = c
  BY <1>2, <1>6, <1>7
<1> QED BY <1>8 DEF c, x

LEMMA BetweenInRange ==
  ASSUME Servo!ServoAssumption, NEW a \in Int, NEW b \in Int, NEW x \in Int,
         InRange(a), InRange(b), (a <= x /\ x <= b) \/ (b <= x /\ x <= a)
  PROVE  InRange(x)
<1>1. Fine \in Nat /\ Limit \in Nat
  BY ServoConstants
<1>2. /\ a <= x => a * Fine <= x * Fine
      /\ x <= a => x * Fine <= a * Fine
      /\ b <= x => b * Fine <= x * Fine
      /\ x <= b => x * Fine <= b * Fine
  BY <1>1, ProductGrows
<1>3. a * Fine \in Int /\ b * Fine \in Int /\ x * Fine \in Int
  BY <1>1
<1> QED BY <1>1, <1>2, <1>3 DEF InRange

ServoInv == Servo!ServoTypeOK /\ Servo!PulseFollows

LEMMA ServoFacts ==
  ASSUME Servo!ServoAssumption, ServoInv
  PROVE  /\ present \in Int /\ target \in Int /\ InRange(present) /\ InRange(target)
         /\ increase \in Nat /\ decrease \in Nat /\ cycleTime \in Nat
         /\ pulse \in 0..Servo!Pulse(Limit) /\ angVel \in Rates /\ driven \in BOOLEAN
BY DEF ServoInv, Servo!ServoTypeOK, Servo!TypeOK, InRange

\* A pulse is told as the value changes, or neither changes, or a new channel is told
\* nothing of its angle yet.
LEMMA ServoKeeps ==
  ASSUME Servo!ServoAssumption, ServoInv,
         present' \in Int, InRange(present)', target' \in Int, InRange(target)',
         increase' \in Nat, decrease' \in Nat, cycleTime' \in Nat,
         UNCHANGED <<from, updates, angVel>>,
         \/ \E f \in (1 - Fine)..(Fine - 1) :
              Servo!MoveServo(present' * Fine + f)
         \/ UNCHANGED <<present, pulse, driven>>
         \/ driven' = FALSE /\ pulse' \in {0, pulse}
  PROVE  ServoInv'
<1>1. Servo!TypeOK'
  BY DEF ServoInv, Servo!ServoTypeOK, Servo!TypeOK
<1>2. Servo!Pulse(Limit) \in Nat
  <2>1. Limit \in (-Limit)..Limit
    BY ServoConstants
  <2> QED BY <2>1, PulseInRange
<1>3. ASSUME NEW f \in (1 - Fine)..(Fine - 1), Servo!MoveServo(present' * Fine + f)
      PROVE  Servo!PulseFollows' /\ pulse' \in 0..Servo!Pulse(Limit) /\ driven' \in BOOLEAN
  <2>1. Fine \in Nat /\ present' * Fine + f \in Int
    BY ServoConstants
  <2>2. Servo!CheckAngle(present' * Fine + f) \in (-Limit)..Limit
    BY <2>1, CheckedAngle
  <2>3. pulse' = Servo!Pulse(Servo!CheckAngle(present' * Fine + f)) /\ driven' = TRUE
    BY <1>3 DEF Servo!MoveServo
  <2>4. pulse' \in 0..Servo!Pulse(Limit)
    BY <2>2, <2>3, PulseInRange
  <2>5. Servo!PulseFollows'
    BY <2>3 DEF Servo!PulseFollows, Servo!Pulse, Servo!CheckAngle
  <2> QED BY <2>3, <2>4, <2>5
<1>4. ASSUME UNCHANGED <<present, pulse, driven>>
      PROVE  Servo!PulseFollows' /\ pulse' \in 0..Servo!Pulse(Limit) /\ driven' \in BOOLEAN
  <2>1. Servo!PulseFollows'
    BY <1>4 DEF ServoInv, Servo!PulseFollows, Servo!Pulse, Servo!CheckAngle
  <2> QED BY <1>4, <2>1, ServoFacts
<1>5. ASSUME driven' = FALSE, pulse' \in {0, pulse}
      PROVE  Servo!PulseFollows' /\ pulse' \in 0..Servo!Pulse(Limit) /\ driven' \in BOOLEAN
  <2>1. driven' \in BOOLEAN /\ (driven' => FALSE)
    BY <1>5
  <2>2. pulse' \in 0..Servo!Pulse(Limit)
    BY <1>2, <1>5, ServoFacts
  <2>3. Servo!PulseFollows'
    BY <2>1 DEF Servo!PulseFollows
  <2> QED BY <2>1, <2>2, <2>3
<1>6. Servo!PulseFollows' /\ pulse' \in 0..Servo!Pulse(Limit) /\ driven' \in BOOLEAN
  BY <1>3, <1>4, <1>5
<1>7. angVel' \in Rates
  BY ServoFacts
<1>8. Servo!Pulse(Limit)' = Servo!Pulse(Limit)
  BY DEF Servo!Pulse
<1> QED BY <1>1, <1>6, <1>7, <1>8 DEF ServoInv, Servo!ServoTypeOK, InRange

LEMMA ServoInitially ==
  ASSUME Servo!ServoAssumption, Servo!ServoInit PROVE ServoInv
<1>1. ChangerInv /\ present = 0 /\ target = 0
  BY ChangerInit, ServoConstants DEF Servo!ServoInit, Servo!Init
<1>2. angVel \in Rates /\ pulse = 0 /\ driven = FALSE
  BY DEF Servo!ServoInit
<1>3. Limit \in Nat /\ Fine \in Nat /\ Servo!Pulse(Limit) \in Nat
  <2>1. Limit \in (-Limit)..Limit
    BY ServoConstants
  <2> QED BY <2>1, PulseInRange, ServoConstants
<1>4. 0 * Fine = 0 /\ 0 \in (-Limit)..Limit
  BY <1>3
<1>5. driven \in BOOLEAN /\ Servo!PulseFollows
  BY <1>2 DEF Servo!PulseFollows
<1>6. {present * Fine, target * Fine} \subseteq (-Limit)..Limit /\ pulse \in 0..Servo!Pulse(Limit)
  BY <1>1, <1>2, <1>3, <1>4
<1> QED BY <1>1, <1>2, <1>5, <1>6 DEF ChangerInv, ServoInv, Servo!ServoTypeOK

LEMMA ServoStep ==
  ASSUME Servo!ServoAssumption, ServoInv, [Servo!ServoNext]_(Servo!servo)
  PROVE  ServoInv'
<1>1. /\ present \in Int /\ target \in Int /\ InRange(present) /\ InRange(target)
      /\ increase \in Nat /\ decrease \in Nat /\ cycleTime \in Nat
      /\ angVel \in Rates
  BY ServoFacts
<1>2. Fine \in Nat \ {0} /\ Limit \in Nat /\ Angles \subseteq Int /\ Rates \subseteq Nat
  BY ServoConstants, ChangerConstants
<1>3. ASSUME NEW x, InRange(x), present' = x PROVE InRange(present)'
  BY <1>3 DEF InRange
<1>4. ASSUME NEW x, InRange(x), target' = x PROVE InRange(target)'
  BY <1>4 DEF InRange
<1> DEFINE Fixed(a) == Servo!FloatToFix(Servo!CheckAngle(a))
<1>5. ASSUME NEW a \in Angles
      PROVE  /\ Fixed(a) \in Int /\ InRange(Fixed(a))
             /\ \E f \in (1 - Fine)..(Fine - 1) : Fixed(a) * Fine + f = Servo!CheckAngle(a)
  BY <1>2, AngleToFix
<1>6. ASSUME NEW v \in Rates PROVE Servo!FloatToFix(v) \in Nat
  BY RateToFix, ServoConstants
<1>7. ASSUME NEW a \in Angles, Servo!SetServoAngle(a) PROVE ServoInv'
  <2>1. /\ Servo!MoveServo(a) /\ present' = Fixed(a) /\ target' = Fixed(a)
        /\ UNCHANGED <<increase, decrease, cycleTime, from, updates, angVel>>
    BY <1>7 DEF Servo!SetServoAngle, Servo!speed, Servo!history
  <2>2. PICK f \in (1 - Fine)..(Fine - 1) : Fixed(a) * Fine + f = Servo!CheckAngle(a)
    BY <1>5
  <2>3. a \in Int /\ Servo!CheckAngle(a) \in (-Limit)..Limit
    BY <1>2, CheckedAngle
  <2>4. Servo!CheckAngle(Servo!CheckAngle(a)) = Servo!CheckAngle(a)
    BY <1>2, <2>3, CheckedAngle
  <2> HIDE DEF Fixed
  <2>5. Servo!MoveServo(present' * Fine + f)
    BY <2>1, <2>2, <2>4 DEF Servo!MoveServo
  <2>6. /\ present' \in Int /\ InRange(present)' /\ target' \in Int /\ InRange(target)'
        /\ increase' \in Nat /\ decrease' \in Nat /\ cycleTime' \in Nat
    BY <1>1, <1>3, <1>4, <1>5, <2>1
  <2> QED BY <2>1, <2>5, <2>6, ServoKeeps
<1>8. ASSUME NEW a \in Angles,
             Servo!SetTargetAngle(a) \/ \E v \in Rates : Servo!SetTargetAngleAt(a, v)
      PROVE  ServoInv'
  <2>1. /\ target' = Fixed(a)
        /\ UNCHANGED <<present, cycleTime, from, updates, pulse, angVel, driven>>
    BY <1>8 DEF Servo!SetTargetAngle, Servo!SetTargetAngleAt, Servo!speed, Servo!history
  <2>2. increase' \in Nat /\ decrease' \in Nat
    BY <1>1, <1>6, <1>8 DEF Servo!SetTargetAngle, Servo!SetTargetAngleAt, Servo!speed
  <2> HIDE DEF Fixed
  <2>3. /\ present' \in Int /\ InRange(present)' /\ target' \in Int /\ InRange(target)'
        /\ cycleTime' \in Nat
    BY <1>1, <1>3, <1>4, <1>5, <2>1
  <2> QED BY <2>1, <2>2, <2>3, ServoKeeps
<1>9. ASSUME NEW v \in Rates, Servo!SetAngularVelocity(v) PROVE ServoInv'
  <2>1. /\ increase' \in Nat /\ decrease' \in Nat
        /\ UNCHANGED <<present, target, cycleTime, from, updates, pulse, angVel, driven>>
    BY <1>6, <1>9 DEF Servo!SetAngularVelocity, Servo!ends, Servo!history
  <2>2. InRange(present)' /\ InRange(target)'
    BY <1>1, <1>3, <1>4, <2>1
  <2> QED BY <1>1, <2>1, <2>2, ServoKeeps
<1>10. CASE Servo!Loop
  <2> DEFINE pace == Servo!FixMul(Servo!GetDelta, cycleTime)
  <2>1. /\ present # target /\ Servo!MoveServo(present' * Fine)
        /\ UNCHANGED <<target, increase, decrease, cycleTime, from, updates, angVel>>
        /\ present' = IF present < target
                      THEN IF present + pace > target THEN target ELSE present + pace
                      ELSE IF present - pace < target THEN target ELSE present - pace
    BY <1>10 DEF Servo!Loop, Servo!IsTarget, Servo!UpdateFix, Servo!speed, Servo!history
  <2>2. pace \in Nat
    <3>1. Servo!GetDelta \in Nat
      BY <1>1 DEF Servo!GetDelta
    <3> QED BY <1>1, <3>1, ProductOfFix, ServoConstants
  <2> HIDE DEF pace
  <2>3. /\ present' \in Int
        /\ (present <= present' /\ present' <= target)
           \/ (target <= present' /\ present' <= present)
    BY <1>1, <2>1, <2>2
  <2>4. InRange(present') /\ InRange(target')
    BY <1>1, <2>1, <2>3, BetweenInRange
  <2>5. InRange(present)' /\ InRange(target)'
    BY <2>4 DEF InRange
  <2>6. present' * Fine + 0 = present' * Fine /\ 0 \in (1 - Fine)..(Fine - 1)
    <3>1. present' * Fine \in Int
      BY <1>2, <2>3
    <3> QED BY <1>2, <3>1
  <2>7. \E f \in (1 - Fine)..(Fine - 1) : Servo!MoveServo(present' * Fine + f)
    BY <2>1, <2>6
  <2> QED BY <1>1, <2>1, <2>3, <2>5, <2>7, ServoKeeps
<1>11. CASE Servo!Copy \/ Servo!Assign
  <2>1. /\ present' = 0 /\ target' = 0 /\ driven' = FALSE /\ pulse' \in {0, pulse}
        /\ cycleTime' = Servo!CycleOf(Servo!GetCycleTime)
        /\ UNCHANGED <<from, updates, angVel>>
    BY <1>11 DEF Servo!Copy, Servo!Assign, Servo!history
  <2>2. increase' \in Nat /\ decrease' \in Nat
    BY <1>1, <1>6, <1>11 DEF Servo!Copy, Servo!Assign
  <2>3. cycleTime' \in Nat
    BY <1>1, <2>1, CycleIsNatural, GetCycleIsNatural, ServoConstants
  <2>4. InRange(0)
    <3>1. 0 * Fine = 0 /\ 0 \in (-Limit)..Limit
      BY <1>2
    <3> QED BY <3>1 DEF InRange
  <2>5. InRange(present)' /\ InRange(target)'
    BY <1>3, <1>4, <2>1, <2>4
  <2>6. target' \in Int /\ present' \in Int
    BY <2>1
  <2> QED BY Zenon, <2>1, <2>2, <2>3, <2>5, <2>6, ServoKeeps
<1>12. CASE UNCHANGED Servo!servo
  <2>1. UNCHANGED <<present, target, increase, decrease, cycleTime, from, updates, pulse,
                    angVel, driven>>
    BY <1>12 DEF Servo!servo, Servo!changer, Servo!ends, Servo!speed, Servo!history
  <2>2. InRange(present)' /\ InRange(target)'
    BY <1>1, <1>3, <1>4, <2>1
  <2> QED BY <1>1, <2>1, <2>2, ServoKeeps
<1> QED BY <1>2, <1>7, <1>8, <1>9, <1>10, <1>11, <1>12 DEF Servo!ServoNext

LEMMA ChangerAlone ==
  /\ About("changer") /\ Init => Servo!Init
  /\ About("changer") /\ [Next]_vars => [Servo!Next]_(Servo!changer)
<1>1. About("changer") /\ Init => Servo!Init
  BY DEF About, Init
<1>2. About("changer") /\ [Next]_vars => [Servo!Next]_(Servo!changer)
  BY DEF About, Next, Others, vars, changer, Servo!changer, Servo!ends, Servo!speed,
         Servo!history
<1> QED BY <1>1, <1>2

LEMMA ServoAlone ==
  /\ About("servo") /\ Init => Servo!ServoInit
  /\ About("servo") /\ [Next]_vars => [Servo!ServoNext]_(Servo!servo)
<1>1. About("servo") /\ Init => Servo!ServoInit
  BY DEF About, Init
<1>2. About("servo") /\ [Next]_vars => [Servo!ServoNext]_(Servo!servo)
  BY DEF About, Next, Others, vars, changer, servo, Servo!servo, Servo!changer,
         Servo!ends, Servo!speed, Servo!history
<1> QED BY <1>1, <1>2

LEMMA MovesInductive ==
  Spec => [](About("changer") => ChangerInv) /\ [](About("servo") => ServoInv)
<1>1. Servo!LinearChangerAssumption /\ Servo!ServoAssumption
  BY PartsAssumption, ServoConstants DEF PartsAssumption
<1>2. About("changer") /\ Init => ChangerInv
  BY <1>1, ChangerAlone, ChangerInit
<1>3. About("changer") /\ ChangerInv /\ [Next]_vars => ChangerInv'
  BY <1>1, ChangerAlone, ChangerStep
<1>4. About("servo") /\ Init => ServoInv
  BY <1>1, ServoAlone, ServoInitially
<1>5. About("servo") /\ ServoInv /\ [Next]_vars => ServoInv'
  BY <1>1, ServoAlone, ServoStep
<1>6. About("changer") /\ [Next]_vars => About("changer")'
  BY AboutStays
<1>7. ~About("changer") /\ [Next]_vars => ~About("changer")'
  BY AboutAlways
<1>8. About("servo") /\ [Next]_vars => About("servo")'
  BY AboutStays
<1>9. ~About("servo") /\ [Next]_vars => ~About("servo")'
  BY AboutAlways
<1> QED BY <1>2, <1>3, <1>4, <1>5, <1>6, <1>7, <1>8, <1>9, PTL DEF Spec

\* After n updates a value left alone is n steps of its rate from where it was, or at
\* its target if that is nearer, through zero and on both sides of it; and the pulse of
\* a servo that was moved is that of its present angle, but for less than one fix.
THEOREM MovesAreLinear == Spec => []MovesLinearly
<1>1. (About("changer") => ChangerInv) /\ (About("servo") => ServoInv) => MovesLinearly
  BY DEF About, MovesLinearly, ChangerInv, ServoInv
<1> QED BY <1>1, MovesInductive, PTL

-----------------------------------------------------------------------------
\* The stores.  Address is defined by recursion: that there is such a function follows
\* by induction on the number of stores it is defined for.
NextOf(f, i) == IF i = 1 THEN 0 ELSE Stores!NextAddress(f[i - 1], i - 1)

LEMMA AddressExists ==
  ASSUME NEW n \in Nat
  PROVE  \E f : f = [i \in 1..n |-> NextOf(f, i)]
<1> DEFINE S == {m \in 0..n : \E f : f = [i \in 1..m |-> NextOf(f, i)]}
<1>1. 0 \in S
  <2> DEFINE f == [i \in 1..0 |-> 0]
  <2>1. 1..0 = {}
    OBVIOUS
  <2>2. f = [i \in 1..0 |-> NextOf(f, i)]
    BY <2>1
  <2> HIDE DEF f
  <2>3. \E h : h = [i \in 1..0 |-> NextOf(h, i)]
    BY <2>2
  <2>4. 0 \in 0..n
    OBVIOUS
  <2> QED BY <2>3, <2>4
<1>2. ASSUME NEW m \in 0..n, m < n, m \in S PROVE m + 1 \in S
  <2>1. PICK f : f = [i \in 1..m |-> NextOf(f, i)]
    BY <1>2
  <2> DEFINE g == [i \in 1..(m + 1) |-> IF i <= m THEN f[i] ELSE NextOf(f, i)]
  <2>2. ASSUME NEW i \in 1..(m + 1) PROVE g[i] = NextOf(g, i)
    <3>1. i # 1 => i - 1 \in 1..m /\ g[i - 1] = f[i - 1]
      OBVIOUS
    <3>2. NextOf(g, i) = NextOf(f, i)
      BY <3>1 DEF NextOf
    <3>3. g[i] = NextOf(f, i)
      <4>1. CASE i <= m
        <5>1. i \in 1..m
          BY <4>1
        <5> QED BY <2>1, <4>1, <5>1
      <4>2. CASE ~(i <= m)
        BY <4>2
      <4> QED BY <4>1, <4>2
    <3> QED BY <3>2, <3>3
  <2>3. g = [i \in 1..(m + 1) |-> g[i]]
    OBVIOUS
  <2> HIDE DEF g
  <2>4. g = [i \in 1..(m + 1) |-> NextOf(g, i)]
    BY <2>2, <2>3
  <2>5. m + 1 \in 0..n
    BY <1>2
  <2> QED BY <2>4, <2>5
<1> HIDE DEF S
<1>3. n \in S
  BY <1>1, <1>2, InductionTo
<1> QED BY <1>3 DEF S

LEMMA AddressIs ==
  ASSUME Len(Widths) \in Nat
  PROVE  Stores!Address = [i \in Stores!Stores |-> NextOf(Stores!Address, i)]
<1>1. \E f : f = [i \in 1..Len(Widths) |-> NextOf(f, i)]
  BY AddressExists
<1>2. \E f : f = [i \in Stores!Stores |->
                    IF i = 1 THEN 0 ELSE Stores!NextAddress(f[i - 1], i - 1)]
  BY <1>1 DEF NextOf, Stores!Stores
<1>3. Stores!Address = [i \in Stores!Stores |->
        IF i = 1 THEN 0 ELSE Stores!NextAddress(Stores!Address[i - 1], i - 1)]
  BY <1>2 DEF Stores!Address
<1> QED BY <1>3 DEF NextOf

\* Each store begins where the one before it ends, for no address is cut to 16 bits:
\* the areas lie in order and apart.
LEMMA StoresConstants ==
  ASSUME Stores!StoresAssumption
  PROVE  /\ StoreHeader \in Nat \ {0} /\ Slack \in Nat /\ StoresA \in Nat \ {0}
         /\ Len(Widths) \in Nat
         /\ \A i \in Stores!Stores : Widths[i] \in Nat \ {0}
         /\ \A i \in Stores!Stores : Stores!End(i) + Slack < StoresA
         /\ Default \in Values /\ NoValue \notin Values
<1>1. Widths \in Seq(Nat \ {0})
  BY DEF Stores!StoresAssumption
<1>2. Len(Widths) \in Nat
  BY <1>1, LenProperties
<1>3. \A i \in 1..Len(Widths) : Widths[i] \in Nat \ {0}
  BY <1>1, ElementOfSeq
<1> QED BY <1>2, <1>3 DEF Stores!StoresAssumption, Stores!Stores

LEMMA AddressFollows ==
  ASSUME Stores!StoresAssumption
  PROVE  /\ \A i \in Stores!Stores : Stores!Address[i] \in Nat /\ Stores!End(i) \in Nat
         /\ \A i \in Stores!Stores :
              i + 1 \in Stores!Stores => Stores!Address[i + 1] = Stores!End(i)
<1> DEFINE n == Len(Widths)
           a == Stores!Address
           S == {m \in 0..n : m = 0 \/ a[m] \in Nat}
<1>1. /\ n \in Nat /\ StoreHeader \in Nat \ {0} /\ StoresA \in Nat \ {0} /\ Slack \in Nat
      /\ \A i \in 1..n : Widths[i] \in Nat \ {0} /\ Stores!End(i) + Slack < StoresA
  BY StoresConstants DEF Stores!Stores
<1>2. \A i \in 1..n : a[i] = NextOf(a, i)
  BY <1>1, AddressIs DEF Stores!Stores
<1> HIDE DEF a, n
<1>3. \A i \in 1..n : a[i] \in Nat => a[i] + (StoreHeader + Widths[i]) \in Nat
  BY <1>1
<1>4. 0 \in S
  BY <1>1
<1>5. ASSUME NEW m \in 0..n, m < n, m \in S PROVE m + 1 \in S
  <2>1. m + 1 \in 1..n /\ a[m + 1] = NextOf(a, m + 1)
    BY <1>1, <1>2, <1>5
  <2>2. m = 0 => a[m + 1] = 0
    BY <2>1 DEF NextOf
  <2>3. m # 0 => m \in 1..n /\ a[m] \in Nat /\ a[m + 1] = Stores!NextAddress(a[m], m)
    BY <1>1, <1>5, <2>1 DEF NextOf
  <2>4. m # 0 => a[m + 1] \in Nat
    <3>1. m # 0 => (a[m] + (StoreHeader + Widths[m])) % StoresA \in Nat
      <4>1. ASSUME NEW x \in Int PROVE x % StoresA \in Nat
        BY <1>1, DivMod
      <4> QED BY <1>3, <2>3, <4>1
    <3> QED BY <2>3, <3>1 DEF Stores!NextAddress, Stores!RequiredSize
  <2> QED BY <2>1, <2>2, <2>4
<1> HIDE DEF S
<1>6. 0..n \subseteq S
  BY <1>1, <1>4, <1>5, InductionTo
<1>7. \A i \in 1..n : a[i] \in Nat
  BY <1>6 DEF S
<1>8. \A i \in 1..n : Stores!End(i) = a[i] + (StoreHeader + Widths[i])
                      /\ Stores!End(i) \in 0..(StoresA - 1)
  BY <1>1, <1>3, <1>7 DEF Stores!End, Stores!RequiredSize, a
<1>9. ASSUME NEW i \in 1..n, i + 1 \in 1..n PROVE a[i + 1] = Stores!End(i)
  <2>1. a[i + 1] = Stores!NextAddress(a[i], i)
    BY <1>1, <1>2, <1>9 DEF NextOf
  <2> QED BY <1>1, <1>8, <2>1, ClockBelow DEF Stores!NextAddress, Stores!RequiredSize
<1> QED BY <1>1, <1>7, <1>8, <1>9 DEF a, n, Stores!Stores

LEMMA AreasApart ==
  ASSUME Stores!StoresAssumption
  PROVE  \A i, j \in Stores!Stores : i < j => Stores!End(i) <= Stores!Address[j]
<1> DEFINE n == Len(Widths)
           a == Stores!Address
           S == {m \in 0..n : \A i \in 1..n : i < m => Stores!End(i) <= a[m]}
<1>1. n \in Nat /\ StoreHeader \in Nat /\ \A i \in 1..n : Widths[i] \in Nat
  BY StoresConstants DEF Stores!Stores
<1>2. /\ \A i \in 1..n : a[i] \in Nat /\ Stores!End(i) \in Nat
      /\ \A i \in 1..n : i + 1 \in 1..n => a[i + 1] = Stores!End(i)
  BY AddressFollows DEF Stores!Stores
<1>3. \A i \in 1..n : a[i] <= Stores!End(i)
  BY <1>1, <1>2 DEF Stores!End, Stores!RequiredSize
<1> HIDE DEF a, n
<1>4. 0 \in S
  BY <1>1
<1>5. ASSUME NEW m \in 0..n, m < n, m \in S PROVE m + 1 \in S
  <2>1. m + 1 \in 0..n
    BY <1>1, <1>5
  <2>2. ASSUME NEW i \in 1..n, i < m + 1 PROVE Stores!End(i) <= a[m + 1]
    <3>1. m \in 1..n /\ m + 1 \in 1..n /\ a[m + 1] = Stores!End(m)
      BY <1>1, <1>2, <1>5, <2>2
    <3>2. i = m \/ (i < m /\ Stores!End(i) <= a[m])
      BY <1>1, <1>5, <2>2
    <3> QED BY <1>2, <1>3, <3>1, <3>2
  <2> QED BY <2>1, <2>2
<1> HIDE DEF S
<1>6. 0..n \subseteq S
  BY <1>1, <1>4, <1>5, InductionTo
<1> QED BY <1>1, <1>6 DEF S, a, n, Stores!Stores

Area(i) == Stores!Address[i]..(Stores!End(i) - 1)

LEMMA Areas ==
  ASSUME Stores!StoresAssumption, NEW i \in Stores!Stores
  PROVE  /\ Stores!Address[i] \in Nat /\ Stores!End(i) \in Nat
         /\ Stores!End(i) = Stores!Address[i] + (StoreHeader + Widths[i])
         /\ Area(i) \subseteq Stores!Cells
         /\ \A j \in Stores!Stores : j # i => Area(i) \cap Area(j) = {}
         /\ Stores!StorageSizeFor(i) = Stores!End(i) + Slack
         /\ Stores!StorageSizeFor(i) \in 1..(StoresA - 1)
<1>1. /\ StoreHeader \in Nat \ {0} /\ Slack \in Nat /\ StoresA \in Nat \ {0}
      /\ Widths[i] \in Nat \ {0} /\ Stores!End(i) + Slack < StoresA
  BY StoresConstants
<1>2. /\ Stores!Address[i] \in Nat /\ Stores!End(i) \in Nat
      /\ Stores!End(i) = Stores!Address[i] + (StoreHeader + Widths[i])
  BY AddressFollows DEF Stores!End, Stores!RequiredSize
<1>3. ASSUME NEW j \in Stores!Stores, j # i PROVE Area(i) \cap Area(j) = {}
  <2>1. i \in Int /\ j \in Int
    BY DEF Stores!Stores
  <2>2. i < j \/ j < i
    BY <1>3, <2>1
  <2>3. Stores!End(i) <= Stores!Address[j] \/ Stores!End(j) <= Stores!Address[i]
    BY <2>2, AreasApart
  <2>4. Stores!Address[j] \in Nat /\ Stores!End(j) \in Nat
    BY AddressFollows
  <2> QED BY <1>2, <2>3, <2>4 DEF Area
<1>4. Stores!StorageSizeFor(i) = Stores!End(i) + Slack
  <2>1. Stores!End(i) + Slack \in 0..(StoresA - 1)
    BY <1>1, <1>2
  <2>2. Stores!Address[i] + Stores!RequiredSize(i) + Slack = Stores!End(i) + Slack
    BY DEF Stores!End
  <2> QED BY <1>1, <2>1, <2>2, ClockBelow DEF Stores!StorageSizeFor
<1>5. Stores!End(i) + Slack \in 1..(StoresA - 1)
  BY <1>1, <1>2
<1> QED BY <1>1, <1>2, <1>3, <1>4, <1>5 DEF Area, Stores!Cells

-----------------------------------------------------------------------------
\* A cell holds nothing, or a value that a store has put into it; what lies in a
\* store's area no other one has put.
IsEEPROM(mem) == mem \in [Stores!Cells -> {Stores!Blank} \cup (Stores!Stores \X Values)]

IsOwn(i, cell) == cell = Stores!Blank \/ \E v \in Values : cell = <<i, v>>

Own(mem) == \A i \in Stores!Stores : \A c \in Area(i) : IsOwn(i, mem[c])

Holds(mem, i, v) == \A c \in Area(i) : mem[c] = <<i, v>>

StoresTypeInv ==
  /\ keeps \in BOOLEAN /\ grew \in BOOLEAN
  /\ begun \subseteq Stores!Stores
  /\ saved \in [Stores!Stores -> Values \cup {NoValue}]
  /\ size \in {0} \cup {Stores!StorageSizeFor(i) : i \in Stores!Stores}
  /\ IsEEPROM(buffer) /\ IsEEPROM(flash)

\* The buffer was sized by some begin(), and shows what the flash holds.
BufferInv ==
  /\ begun # {} => \E i \in Stores!Stores : size = Stores!StorageSizeFor(i)
  /\ \A c \in Stores!Cells : c < size => buffer[c] = flash[c]

SavedInv ==
  /\ Own(buffer) /\ Own(flash)
  /\ grew => \A i \in begun : Stores!End(i) <= size
  /\ \A i \in Stores!Stores :
       saved[i] # NoValue /\ (keeps \/ Stores!Covered(i)) => Holds(flash, i, saved[i])

StoresInv == StoresTypeInv /\ BufferInv /\ SavedInv

\* A memory each of whose cells is one of two others', or blank.
LEMMA MixedMemory ==
  ASSUME NEW m, NEW a, NEW b, m = [c \in Stores!Cells |-> m[c]], IsEEPROM(a), IsEEPROM(b),
         \A c \in Stores!Cells : m[c] = a[c] \/ m[c] = b[c] \/ m[c] = Stores!Blank
  PROVE  IsEEPROM(m)
BY DEF IsEEPROM

LEMMA MixedOwn ==
  ASSUME Stores!StoresAssumption, NEW m, NEW a, NEW b, Own(a), Own(b),
         \A c \in Stores!Cells : m[c] = a[c] \/ m[c] = b[c] \/ m[c] = Stores!Blank
  PROVE  Own(m)
BY Areas DEF Own, IsOwn

\* What put() leaves when it puts a store's header and structure.
LEMMA WrittenIs ==
  ASSUME Stores!StoresAssumption, NEW mem, IsEEPROM(mem), NEW limit \in Nat,
         NEW i \in Stores!Stores, NEW v \in Values
  PROVE  LET m == Stores!Written(mem, limit, i, v)
         IN  /\ IsEEPROM(m)
             /\ \A c \in Stores!Cells : m[c] = mem[c] \/ (c \in Area(i) /\ c < limit /\ m[c] = <<i, v>>)
             /\ Stores!End(i) <= limit => Holds(m, i, v)
<1> DEFINE first == Stores!Address[i]
           second == first + StoreHeader
           p == Stores!Put(mem, limit, first, StoreHeader, <<i, v>>)
           m == Stores!Put(p, limit, second, Widths[i], <<i, v>>)
<1>1. /\ first \in Nat /\ StoreHeader \in Nat \ {0} /\ Widths[i] \in Nat \ {0}
      /\ Stores!End(i) = second + Widths[i] /\ Area(i) \subseteq Stores!Cells
  BY Areas, StoresConstants
<1>2. /\ p = [c \in Stores!Cells |-> p[c]] /\ m = [c \in Stores!Cells |-> m[c]]
      /\ \A c \in Stores!Cells :
           p[c] = IF c >= first /\ c < second /\ second <= limit THEN <<i, v>> ELSE mem[c]
      /\ \A c \in Stores!Cells :
           m[c] = IF c >= second /\ c < second + Widths[i] /\ second + Widths[i] <= limit
                    THEN <<i, v>> ELSE p[c]
  BY DEF Stores!Put
<1>3. Stores!Written(mem, limit, i, v) = m
  BY DEF Stores!Written
<1>4. Stores!Cells \subseteq Int
  BY DEF Stores!Cells
<1> HIDE DEF p, m
<1>5. \A c \in Stores!Cells :
        m[c] = mem[c] \/ (c \in Area(i) /\ c < limit /\ m[c] = <<i, v>>)
  BY <1>1, <1>2, <1>4 DEF Area
<1>6. IsEEPROM(m)
  <2>1. <<i, v>> \in Stores!Stores \X Values
    OBVIOUS
  <2>2. \A c \in Stores!Cells : m[c] \in {Stores!Blank} \cup (Stores!Stores \X Values)
    BY <1>5, <2>1 DEF IsEEPROM
  <2> QED BY <1>2, <2>2 DEF IsEEPROM
<1>7. Stores!End(i) <= limit => Holds(m, i, v)
  BY <1>1, <1>2, <1>4 DEF Holds, Area
<1> QED BY <1>3, <1>5, <1>6, <1>7

LEMMA WrittenOwn ==
  ASSUME Stores!StoresAssumption, NEW mem, IsEEPROM(mem), Own(mem), NEW limit \in Nat,
         NEW i \in Stores!Stores, NEW v \in Values
  PROVE  Own(Stores!Written(mem, limit, i, v))
<1> DEFINE m == Stores!Written(mem, limit, i, v)
<1>1. \A c \in Stores!Cells : m[c] = mem[c] \/ (c \in Area(i) /\ m[c] = <<i, v>>)
  BY WrittenIs
<1> HIDE DEF m
<1>2. ASSUME NEW j \in Stores!Stores, NEW c \in Area(j) PROVE IsOwn(j, m[c])
  <2>1. c \in Stores!Cells /\ (j # i => c \notin Area(i))
    BY <1>2, Areas
  <2> QED BY <1>1, <1>2, <2>1 DEF Own, IsOwn
<1>3. Own(m)
  BY <1>2 DEF Own
<1> QED BY <1>3 DEF m

LEMMA SizeIs ==
  ASSUME Stores!StoresAssumption,
         size \in {0} \cup {Stores!StorageSizeFor(i) : i \in Stores!Stores}
  PROVE  size \in Nat
BY Areas

\* What the program saved last where it is kept: what the next step must leave alone.
LEMMA StoresInit ==
  ASSUME Stores!StoresAssumption, Stores!Init PROVE StoresInv
<1>1. /\ size = 0 /\ keeps \in BOOLEAN /\ begun = {} /\ grew = TRUE
      /\ buffer = [c \in Stores!Cells |-> Stores!Blank]
      /\ flash = [c \in Stores!Cells |-> Stores!Blank]
      /\ saved = [i \in Stores!Stores |-> NoValue]
  BY DEF Stores!Init
<1>2. IsEEPROM(buffer) /\ IsEEPROM(flash)
  BY <1>1 DEF IsEEPROM
<1>3. Own(buffer) /\ Own(flash)
  BY <1>1, Areas DEF Own, IsOwn
<1>4. StoresTypeInv
  <2>1. grew \in BOOLEAN
    BY <1>1
  <2> QED BY <1>1, <1>2, <2>1 DEF StoresTypeInv
<1>5. BufferInv
  BY <1>1 DEF BufferInv
<1>6. SavedInv
  BY <1>1, <1>3 DEF SavedInv
<1> QED BY <1>4, <1>5, <1>6 DEF StoresInv

\* What was saved is still there after a step that left the store's cells alone.
LEMMA StillHeld ==
  ASSUME Stores!StoresAssumption, StoresInv, UNCHANGED keeps, NEW i \in Stores!Stores,
         saved'[i] = saved[i],
         \A c \in Area(i) : (keeps \/ Stores!Covered(i)) => flash'[c] = flash[c]
  PROVE  saved'[i] # NoValue /\ (keeps' \/ Stores!Covered(i)) => Holds(flash', i, saved'[i])
BY DEF StoresInv, SavedInv, Holds

LEMMA StoresBegin ==
  ASSUME Stores!StoresAssumption, StoresInv, NEW i \in Stores!Stores, Stores!Begin(i)
  PROVE  StoresInv'
<1>1. /\ size' = Stores!StorageSizeFor(i) /\ begun' = begun \cup {i}
      /\ grew' = (grew /\ size' >= size) /\ keeps' = keeps
  BY DEF Stores!Begin
<1>2. /\ keeps \in BOOLEAN /\ grew \in BOOLEAN /\ begun \subseteq Stores!Stores
      /\ saved \in [Stores!Stores -> Values \cup {NoValue}] /\ size \in Nat
      /\ IsEEPROM(buffer) /\ IsEEPROM(flash) /\ Own(buffer) /\ Own(flash)
  BY SizeIs DEF StoresInv, StoresTypeInv, SavedInv
<1>3. /\ size' \in Nat /\ size' = Stores!End(i) + Slack /\ Stores!End(i) <= size'
      /\ Stores!Cells \subseteq Nat
  BY <1>1, Areas, StoresConstants DEF Stores!Cells
<1>4. PICK kept \in Stores!Kept(size') :
        IF Stores!Loads(kept, i) THEN buffer' = kept /\ flash' = kept /\ UNCHANGED saved
        ELSE /\ buffer' = Stores!Written(kept, size', i, Default)
             /\ flash' = [c \in Stores!Cells |-> IF c < size' THEN buffer'[c]
                                                 ELSE IF keeps THEN kept[c] ELSE Stores!Blank]
             /\ saved' = [saved EXCEPT ![i] = Default]
  BY DEF Stores!Begin
<1>5. /\ kept = [c \in Stores!Cells |-> kept[c]]
      /\ \A c \in Stores!Cells : kept[c] = flash[c] \/ kept[c] = Stores!Blank
      /\ \A c \in Stores!Cells : keeps \/ c < size' => kept[c] = flash[c]
  <2>1. flash = [c \in Stores!Cells |-> flash[c]]
    BY <1>2 DEF IsEEPROM
  <2>2. kept = flash \/ (~keeps /\ kept = [c \in Stores!Cells |->
                                             IF c < size' THEN flash[c] ELSE Stores!Blank])
    BY <1>2, <1>4 DEF Stores!Kept
  <2> QED BY <2>1, <2>2
<1>6. IsEEPROM(kept) /\ Own(kept)
  BY <1>2, <1>5, MixedMemory, MixedOwn
<1>7. \A j \in Stores!Stores : Stores!Covered(j) => Stores!End(j) <= size'
  BY <1>1 DEF Stores!Covered
<1>8. \A j \in Stores!Stores : \A c \in Area(j) :
        /\ c \in Stores!Cells
        /\ (keeps \/ Stores!Covered(j)) => kept[c] = flash[c]
        /\ Stores!Covered(j) => c < size'
  <2> TAKE j \in Stores!Stores
  <2> TAKE c \in Area(j)
  <2>1. c \in Stores!Cells /\ Stores!End(j) \in Nat
    BY Areas
  <2>2. c < Stores!End(j) /\ c \in Int
    BY <2>1, Areas DEF Area
  <2>3. Stores!Covered(j) => c < size'
    BY <1>3, <1>7, <2>1, <2>2
  <2> QED BY <1>5, <2>1, <2>3
<1>9. /\ IsEEPROM(buffer)' /\ IsEEPROM(flash)' /\ Own(buffer)' /\ Own(flash)'
      /\ saved' \in [Stores!Stores -> Values \cup {NoValue}]
      /\ \A c \in Stores!Cells : c < size' => buffer'[c] = flash'[c]
      /\ \A j \in Stores!Stores :
           saved'[j] # NoValue /\ (keeps' \/ Stores!Covered(j)) => Holds(flash', j, saved'[j])
  <2>1. CASE Stores!Loads(kept, i)
    <3>1. buffer' = kept /\ flash' = kept /\ saved' = saved
      BY <1>4, <2>1
    <3>2. IsEEPROM(buffer)' /\ IsEEPROM(flash)' /\ Own(buffer)' /\ Own(flash)'
      BY <1>6, <3>1 DEF IsEEPROM, Own, IsOwn, Area
    <3> QED BY <1>1, <1>2, <1>8, <3>1, <3>2, StillHeld
  <2>2. CASE ~Stores!Loads(kept, i)
    <3>1. /\ buffer' = Stores!Written(kept, size', i, Default)
          /\ flash' = [c \in Stores!Cells |-> IF c < size' THEN buffer'[c]
                                              ELSE IF keeps THEN kept[c] ELSE Stores!Blank]
          /\ saved' = [saved EXCEPT ![i] = Default]
      BY <1>4, <2>2
    <3>2. Default \in Values
      BY StoresConstants
    <3>3. /\ IsEEPROM(buffer')
          /\ \A c \in Stores!Cells : buffer'[c] = kept[c]
               \/ (c \in Area(i) /\ c < size' /\ buffer'[c] = <<i, Default>>)
          /\ Holds(buffer', i, Default)
      <4> DEFINE m == Stores!Written(kept, size', i, Default)
      <4>1. /\ IsEEPROM(m)
            /\ \A c \in Stores!Cells : m[c] = kept[c]
                 \/ (c \in Area(i) /\ c < size' /\ m[c] = <<i, Default>>)
            /\ Stores!End(i) <= size' => Holds(m, i, Default)
        BY <1>3, <1>6, <3>2, WrittenIs
      <4> HIDE DEF m
      <4>2. buffer' = m
        BY <3>1 DEF m
      <4> QED BY <1>3, <4>1, <4>2
    <3>4. Own(buffer')
      BY <1>3, <1>6, <3>1, <3>2, WrittenOwn
    <3>5. /\ flash' = [c \in Stores!Cells |-> flash'[c]]
          /\ \A c \in Stores!Cells :
               flash'[c] = buffer'[c] \/ flash'[c] = kept[c] \/ flash'[c] = Stores!Blank
          /\ \A c \in Stores!Cells : c < size' => flash'[c] = buffer'[c]
          /\ \A c \in Stores!Cells : ~(c < size') /\ keeps => flash'[c] = kept[c]
      BY <3>1
    <3>6. IsEEPROM(flash') /\ Own(flash')
      BY <1>6, <3>3, <3>4, <3>5, MixedMemory, MixedOwn
    <3>7. IsEEPROM(buffer)' /\ IsEEPROM(flash)' /\ Own(buffer)' /\ Own(flash)'
      BY <3>3, <3>4, <3>6 DEF IsEEPROM, Own, IsOwn, Area
    <3>8. saved' \in [Stores!Stores -> Values \cup {NoValue}] /\ saved'[i] = Default
          /\ \A j \in Stores!Stores : j # i => saved'[j] = saved[j]
      BY <1>2, <3>1, <3>2
    <3>9. Holds(flash', i, saved'[i])
      <4>1. \A c \in Area(i) : c \in Stores!Cells /\ c < size'
        <5>1. \A c \in Area(i) : c \in Stores!Cells /\ c \in Int /\ c < Stores!End(i)
          BY Areas DEF Area
        <5>2. Stores!End(i) \in Nat
          BY Areas
        <5> QED BY <1>3, <5>1, <5>2
      <4> QED BY <3>3, <3>5, <3>8, <4>1 DEF Holds
    <3>10. ASSUME NEW j \in Stores!Stores, j # i
           PROVE  saved'[j] # NoValue /\ (keeps' \/ Stores!Covered(j))
                    => Holds(flash', j, saved'[j])
      <4>1. ASSUME NEW c \in Area(j), keeps \/ Stores!Covered(j)
            PROVE  flash'[c] = flash[c]
        <5>1. c \in Stores!Cells /\ c \notin Area(i)
          BY <3>10, Areas
        <5>2. buffer'[c] = kept[c] /\ kept[c] = flash[c]
          BY <1>8, <3>3, <4>1, <5>1
        <5>3. c < size' \/ keeps
          BY <1>8, <4>1
        <5> QED BY <3>5, <5>1, <5>2, <5>3
      <4> QED BY <1>1, <3>8, <3>10, <4>1, StillHeld
    <3> QED BY <3>5, <3>7, <3>8, <3>9, <3>10
  <2> QED BY <2>1, <2>2
<1>10. grew' \in BOOLEAN /\ (grew' => grew /\ size' >= size)
  BY <1>1
<1>11. grew' => \A j \in begun' : Stores!End(j) <= size'
  <2> SUFFICES ASSUME grew', NEW j \in begun' PROVE Stores!End(j) <= size'
    OBVIOUS
  <2>1. CASE j = i
    BY <1>3, <2>1
  <2>2. CASE j \in begun
    <3>1. Stores!End(j) <= size /\ size <= size'
      BY <1>10, <2>2 DEF StoresInv, SavedInv
    <3>2. Stores!End(j) \in Nat
      BY <1>2, <2>2, Areas
    <3> QED BY <1>2, <1>3, <3>1, <3>2
  <2> QED BY <1>1, <2>1, <2>2
<1>12. StoresTypeInv'
  <2>1. size' \in {0} \cup {Stores!StorageSizeFor(j) : j \in Stores!Stores}
    BY <1>1
  <2>2. begun' \subseteq Stores!Stores /\ keeps' \in BOOLEAN
    BY <1>1, <1>2
  <2> QED BY <1>9, <1>10, <2>1, <2>2 DEF StoresTypeInv
<1>13. BufferInv'
  BY <1>1, <1>9 DEF BufferInv
<1>14. SavedInv'
  <2>1. \A j \in Stores!Stores :
          saved'[j] # NoValue /\ (keeps' \/ Stores!Covered(j)') => Holds(flash, j, saved[j])'
    BY <1>9 DEF Stores!Covered, Holds, Area
  <2> QED BY <1>9, <1>11, <2>1 DEF SavedInv
<1> QED BY <1>12, <1>13, <1>14 DEF StoresInv

LEMMA StoresSave ==
  ASSUME Stores!StoresAssumption, StoresInv, NEW i \in Stores!Stores, NEW v \in Values,
         Stores!Save(i, v)
  PROVE  StoresInv'
<1>1. /\ i \in begun /\ size' = size /\ begun' = begun /\ grew' = grew /\ keeps' = keeps
      /\ buffer' = Stores!Written(buffer, size, i, v)
      /\ flash' = [c \in Stores!Cells |->
                     IF c < size THEN buffer'[c] ELSE IF keeps THEN flash[c] ELSE Stores!Blank]
      /\ saved' = [saved EXCEPT ![i] = IF Stores!End(i) <= size THEN v ELSE NoValue]
  BY DEF Stores!Save, Stores!Committed
<1>2. /\ keeps \in BOOLEAN /\ grew \in BOOLEAN /\ begun \subseteq Stores!Stores
      /\ saved \in [Stores!Stores -> Values \cup {NoValue}] /\ size \in Nat
      /\ IsEEPROM(buffer) /\ IsEEPROM(flash) /\ Own(buffer) /\ Own(flash)
      /\ \A c \in Stores!Cells : c < size => buffer[c] = flash[c]
  BY SizeIs DEF StoresInv, StoresTypeInv, BufferInv, SavedInv
<1>3. PICK k \in Stores!Stores : size = Stores!StorageSizeFor(k)
  BY <1>1 DEF StoresInv, BufferInv
<1> DEFINE m == Stores!Written(buffer, size, i, v)
<1>4. /\ IsEEPROM(m)
      /\ \A c \in Stores!Cells :
           m[c] = buffer[c] \/ (c \in Area(i) /\ c < size /\ m[c] = <<i, v>>)
      /\ Stores!End(i) <= size => Holds(m, i, v)
  BY <1>2, WrittenIs
<1>5. Own(m)
  BY <1>2, WrittenOwn
<1>6. buffer' = m
  BY <1>1
<1> HIDE DEF m
<1>7. /\ flash' = [c \in Stores!Cells |-> flash'[c]]
      /\ \A c \in Stores!Cells :
           flash'[c] = buffer'[c] \/ flash'[c] = flash[c] \/ flash'[c] = Stores!Blank
      /\ \A c \in Stores!Cells : c < size => flash'[c] = buffer'[c]
      /\ \A c \in Stores!Cells : ~(c < size) /\ keeps => flash'[c] = flash[c]
  BY <1>1
<1>8. IsEEPROM(flash') /\ Own(flash')
  BY <1>2, <1>4, <1>5, <1>6, <1>7, MixedMemory, MixedOwn
<1>9. IsEEPROM(buffer)' /\ IsEEPROM(flash)' /\ Own(buffer)' /\ Own(flash)'
  BY <1>4, <1>5, <1>6, <1>8 DEF IsEEPROM, Own, IsOwn, Area
<1>10. /\ saved' \in [Stores!Stores -> Values \cup {NoValue}]
       /\ saved'[i] = IF Stores!End(i) <= size THEN v ELSE NoValue
       /\ \A j \in Stores!Stores : j # i => saved'[j] = saved[j]
  BY <1>1, <1>2
<1>11. \A j \in Stores!Stores : \A c \in Area(j) :
         /\ c \in Stores!Cells /\ c \in Int /\ c < Stores!End(j)
         /\ Stores!End(j) \in Nat
         /\ Stores!Covered(j) => c < size
  <2> TAKE j \in Stores!Stores
  <2> TAKE c \in Area(j)
  <2>1. c \in Stores!Cells /\ Stores!End(j) \in Nat /\ c \in Int /\ c < Stores!End(j)
    BY Areas DEF Area
  <2>2. Stores!Covered(j) => Stores!End(j) <= size
    BY <1>3 DEF Stores!Covered
  <2> QED BY <1>2, <2>1, <2>2
<1>12. saved'[i] # NoValue => Holds(flash', i, saved'[i])
  <2> SUFFICES ASSUME saved'[i] # NoValue PROVE Holds(flash', i, saved'[i])
    OBVIOUS
  <2>1. Stores!End(i) <= size /\ saved'[i] = v
    BY <1>10
  <2>2. \A c \in Area(i) : c \in Stores!Cells /\ c < size
    BY <1>2, <1>11, <2>1
  <2> QED BY <1>4, <1>6, <1>7, <2>1, <2>2 DEF Holds
<1>13. ASSUME NEW j \in Stores!Stores, j # i
       PROVE  saved'[j] # NoValue /\ (keeps' \/ Stores!Covered(j)) => Holds(flash', j, saved'[j])
  <2>1. ASSUME NEW c \in Area(j), keeps \/ Stores!Covered(j) PROVE flash'[c] = flash[c]
    <3>1. c \in Stores!Cells /\ c \notin Area(i)
      BY <1>13, Areas
    <3>2. buffer'[c] = buffer[c]
      BY <1>4, <1>6, <3>1
    <3>3. c < size \/ keeps
      BY <1>11, <2>1
    <3> QED BY <1>2, <1>7, <3>1, <3>2, <3>3
  <2> QED BY <1>1, <1>10, <1>13, <2>1, StillHeld
<1>14. StoresTypeInv'
  BY <1>1, <1>2, <1>3, <1>9, <1>10 DEF StoresTypeInv
<1>15. BufferInv'
  BY <1>1, <1>3, <1>7 DEF BufferInv
<1>16. SavedInv'
  <2>1. \A j \in Stores!Stores :
          saved'[j] # NoValue /\ (keeps' \/ Stores!Covered(j)') => Holds(flash, j, saved[j])'
    BY <1>12, <1>13 DEF Stores!Covered, Holds, Area
  <2>2. grew' => \A j \in begun' : Stores!End(j) <= size'
    BY <1>1 DEF StoresInv, SavedInv
  <2> QED BY <1>9, <2>1, <2>2 DEF SavedInv
<1> QED BY <1>14, <1>15, <1>16 DEF StoresInv

LEMMA StoresRestart ==
  ASSUME Stores!StoresAssumption, StoresInv, Stores!Restart PROVE StoresInv'
<1>1. /\ size' = 0 /\ begun' = {} /\ grew' = TRUE
      /\ buffer' = [c \in Stores!Cells |-> Stores!Blank]
      /\ UNCHANGED <<flash, keeps, saved>>
  BY DEF Stores!Restart
<1>2. IsEEPROM(buffer)' /\ Own(buffer)'
  BY <1>1, Areas DEF IsEEPROM, Own, IsOwn, Area
<1>3. IsEEPROM(flash)' /\ Own(flash)'
  BY <1>1 DEF StoresInv, StoresTypeInv, SavedInv, IsEEPROM, Own, IsOwn, Area
<1>4. StoresTypeInv'
  <2>1. grew' \in BOOLEAN
    BY <1>1
  <2> QED BY <1>1, <1>2, <1>3, <2>1 DEF StoresInv, StoresTypeInv
<1>5. BufferInv'
  <2>1. Stores!Cells \subseteq Nat
    BY StoresConstants DEF Stores!Cells
  <2> QED BY <1>1, <2>1 DEF BufferInv
<1>6. SavedInv'
  <2>1. \A j \in Stores!Stores :
          saved'[j] # NoValue /\ (keeps' \/ Stores!Covered(j)') => Holds(flash, j, saved[j])'
    BY <1>1 DEF StoresInv, SavedInv, Stores!Covered, Holds, Area
  <2> QED BY <1>1, <1>2, <1>3, <2>1 DEF SavedInv
<1> QED BY <1>4, <1>5, <1>6 DEF StoresInv

LEMMA StoresStep ==
  ASSUME Stores!StoresAssumption, StoresInv, [Stores!Next]_(Stores!storesVars)
  PROVE  StoresInv'
<1>1. CASE UNCHANGED Stores!storesVars
  BY <1>1 DEF Stores!storesVars, StoresInv, StoresTypeInv, BufferInv, SavedInv, IsEEPROM,
              Own, IsOwn, Holds, Area, Stores!Covered
<1> QED BY <1>1, StoresBegin, StoresSave, StoresRestart DEF Stores!Next

LEMMA StoresApart ==
  ASSUME Stores!StoresAssumption, StoresInv PROVE Stores!TypeOK /\ Stores!StoresKeepApart
<1>1. Stores!TypeOK
  <2>1. \A c \in Stores!Cells :
          /\ flash[c] = Stores!Blank \/ flash[c] \in Stores!Stores \X Values
          /\ buffer[c] = Stores!Blank \/ buffer[c] \in Stores!Stores \X Values
    BY DEF StoresInv, StoresTypeInv, IsEEPROM
  <2>2. begun \subseteq Stores!Stores /\ keeps \in BOOLEAN /\ grew \in BOOLEAN
    BY DEF StoresInv, StoresTypeInv
  <2> QED BY <2>1, <2>2 DEF Stores!TypeOK, StoresInv, StoresTypeInv
<1>2. ASSUME NEW i \in Stores!Stores, NEW c \in Area(i) PROVE flash[c][1] \in {0, i}
  <2>1. IsOwn(i, flash[c])
    BY DEF StoresInv, SavedInv, Own
  <2> QED BY <2>1 DEF IsOwn, Stores!Blank
<1>3. ASSUME NEW i \in Stores!Stores, saved[i] # NoValue, keeps \/ Stores!Covered(i)
      PROVE  \A c \in Area(i) : flash[c] = <<i, saved[i]>>
  BY <1>3 DEF StoresInv, SavedInv, Holds
<1>4. grew => \A i \in begun : Stores!End(i) <= size
  BY DEF StoresInv, SavedInv
<1> QED BY <1>1, <1>2, <1>3, <1>4 DEF Stores!StoresKeepApart, Area

LEMMA StoresAlone ==
  /\ About("stores") /\ Init => Stores!Init
  /\ About("stores") /\ [Next]_vars => [Stores!Next]_(Stores!storesVars)
<1>1. About("stores") /\ Init => Stores!Init
  BY DEF About, Init
<1>2. About("stores") /\ [Next]_vars => [Stores!Next]_(Stores!storesVars)
  BY DEF About, Next, Others, vars, stores, Stores!storesVars
<1> QED BY <1>1, <1>2

LEMMA StoresInductive == Spec => [](About("stores") => StoresInv)
<1>1. About("stores") /\ Init => StoresInv
  BY PartsAssumption, StoresAlone, StoresInit DEF PartsAssumption
<1>2. About("stores") /\ StoresInv /\ [Next]_vars => StoresInv'
  BY PartsAssumption, StoresAlone, StoresStep DEF PartsAssumption
<1>3. About("stores") /\ [Next]_vars => About("stores")'
  BY AboutStays
<1>4. ~About("stores") /\ [Next]_vars => ~About("stores")'
  BY AboutAlways
<1> QED BY <1>1, <1>2, <1>3, <1>4, PTL DEF Spec

\* However many stores lie one behind the other, whatever their sizes, and in whatever
\* order they are begun, saved and reset across restarts: none writes into another's
\* area, stores begun in the order of their addresses have room, and what was saved
\* stays, with a library that drops what lies beyond the buffer if every buffer
\* reaches it.
THEOREM StoresAreApart == Spec => []StoresKeepApart
<1>1. (About("stores") => StoresInv) => StoresKeepApart
  BY PartsAssumption, StoresApart DEF PartsAssumption, About, StoresKeepApart
<1> QED BY <1>1, StoresInductive, PTL

-----------------------------------------------------------------------------
\* The filters.  The sum of a window is defined by recursion, as the addresses are.
WindowType == [1..FilterSize -> [x : Inputs, peak : BOOLEAN]]

SumsOf(g, w) == g = [n \in 0..FilterSize |-> IF n = 0 THEN 0 ELSE g[n - 1] + w[n].x]

LEMMA FilterConstants ==
  ASSUME Filters!FiltersAssumption
  PROVE  /\ FilterSize \in 1..255 /\ FilterScale \in Nat \ {0}
         /\ Gains \subseteq 0..FilterScale /\ Inputs \subseteq Int
         /\ Filters!Slots = 0..(FilterSize - 1) /\ FilterSize \in Nat \ {0}
BY DEF Filters!FiltersAssumption, Filters!Slots

LEMMA SumsExist ==
  ASSUME Filters!FiltersAssumption, NEW w
  PROVE  \E g : SumsOf(g, w)
<1> DEFINE S == {m \in 0..FilterSize :
                   \E g : g = [n \in 0..m |-> IF n = 0 THEN 0 ELSE g[n - 1] + w[n].x]}
<1>1. FilterSize \in Nat
  BY FilterConstants
<1>2. 0 \in S
  <2> DEFINE g == [n \in 0..0 |-> 0]
  <2>1. g = [n \in 0..0 |-> IF n = 0 THEN 0 ELSE g[n - 1] + w[n].x]
    OBVIOUS
  <2> HIDE DEF g
  <2>2. \E h : h = [n \in 0..0 |-> IF n = 0 THEN 0 ELSE h[n - 1] + w[n].x]
    BY <2>1
  <2> QED BY <1>1, <2>2
<1>3. ASSUME NEW m \in 0..FilterSize, m < FilterSize, m \in S PROVE m + 1 \in S
  <2>1. PICK g : g = [n \in 0..m |-> IF n = 0 THEN 0 ELSE g[n - 1] + w[n].x]
    BY <1>3
  <2> DEFINE h == [n \in 0..(m + 1) |-> IF n <= m THEN g[n] ELSE g[n - 1] + w[n].x]
  <2>2. ASSUME NEW n \in 0..(m + 1)
        PROVE  h[n] = IF n = 0 THEN 0 ELSE h[n - 1] + w[n].x
    <3>1. n # 0 => n - 1 \in 0..m /\ h[n - 1] = g[n - 1]
      OBVIOUS
    <3>2. n <= m => h[n] = g[n] /\ n \in 0..m
      OBVIOUS
    <3>3. ~(n <= m) => h[n] = g[n - 1] + w[n].x /\ n # 0
      OBVIOUS
    <3>4. n <= m => g[n] = IF n = 0 THEN 0 ELSE g[n - 1] + w[n].x
      BY <2>1, <3>2
    <3> HIDE DEF h
    <3> QED BY <3>1, <3>2, <3>3, <3>4
  <2>3. h = [n \in 0..(m + 1) |-> h[n]]
    OBVIOUS
  <2> HIDE DEF h
  <2>4. h = [n \in 0..(m + 1) |-> IF n = 0 THEN 0 ELSE h[n - 1] + w[n].x]
    BY <2>2, <2>3
  <2>5. m + 1 \in 0..FilterSize
    BY <1>1, <1>3
  <2> QED BY <2>4, <2>5
<1> HIDE DEF S
<1>4. FilterSize \in S
  BY <1>1, <1>2, <1>3, InductionTo
<1> QED BY <1>4 DEF S, SumsOf

LEMMA WindowInputs ==
  ASSUME Filters!FiltersAssumption, NEW w \in WindowType
  PROVE  \A n \in 1..FilterSize : w[n].x \in Inputs /\ w[n].x \in Int
<1>1. \A n \in 1..FilterSize : w[n] \in [x : Inputs, peak : BOOLEAN]
  BY DEF WindowType
<1> QED BY <1>1, FilterConstants

LEMMA WindowSumIs ==
  ASSUME Filters!FiltersAssumption, NEW w \in WindowType
  PROVE  \E g : /\ Filters!WindowSum(w) = g[FilterSize]
                /\ g[0] = 0
                /\ \A n \in 1..FilterSize : g[n] = g[n - 1] + w[n].x
                /\ \A n \in 0..FilterSize : g[n] \in Int
<1> DEFINE g == CHOOSE g : g = [n \in 0..FilterSize |->
                                  IF n = 0 THEN 0 ELSE g[n - 1] + w[n].x]
<1>1. FilterSize \in Nat /\ \A n \in 1..FilterSize : w[n].x \in Int
  BY FilterConstants, WindowInputs
<1>2. SumsOf(g, w)
  <2>1. \E h : h = [n \in 0..FilterSize |-> IF n = 0 THEN 0 ELSE h[n - 1] + w[n].x]
    BY SumsExist DEF SumsOf
  <2> QED BY <2>1 DEF SumsOf
<1>3. Filters!WindowSum(w) = g[FilterSize]
  BY DEF Filters!WindowSum
<1> HIDE DEF g
<1>4. /\ \A n \in 0..FilterSize : g[n] = IF n = 0 THEN 0 ELSE g[n - 1] + w[n].x
  BY <1>2 DEF SumsOf
<1>5. g[0] = 0 /\ \A n \in 1..FilterSize : g[n] = g[n - 1] + w[n].x
  BY <1>1, <1>4
<1> DEFINE S == {m \in 0..FilterSize : g[m] \in Int}
<1>6. 0 \in S
  BY <1>1, <1>5
<1>7. ASSUME NEW m \in 0..FilterSize, m < FilterSize, m \in S PROVE m + 1 \in S
  <2>1. m + 1 \in 1..FilterSize /\ (m + 1) - 1 = m /\ g[m] \in Int
    BY <1>1, <1>7
  <2>2. g[m + 1] = g[m] + w[m + 1].x
    BY <1>5, <2>1
  <2> QED BY <1>1, <2>1, <2>2
<1> HIDE DEF S
<1>8. \A n \in 0..FilterSize : g[n] \in Int
  <2>1. 0..FilterSize \subseteq S
    BY <1>1, <1>6, <1>7, InductionTo
  <2> QED BY <2>1 DEF S
<1> QED BY <1>3, <1>5, <1>8

\* The sum of a window that has moved on by one value.
LEMMA SumMovesOn ==
  ASSUME Filters!FiltersAssumption, NEW w \in WindowType, NEW v \in WindowType,
         \A j \in 1..FilterSize : j < FilterSize => v[j] = w[j + 1]
  PROVE  Filters!WindowSum(v) = Filters!WindowSum(w) - w[1].x + v[FilterSize].x
<1>1. FilterSize \in Nat \ {0}
  BY FilterConstants
<1>2. PICK g : /\ Filters!WindowSum(w) = g[FilterSize] /\ g[0] = 0
               /\ \A n \in 1..FilterSize : g[n] = g[n - 1] + w[n].x
               /\ \A n \in 0..FilterSize : g[n] \in Int
  BY WindowSumIs
<1>3. PICK h : /\ Filters!WindowSum(v) = h[FilterSize] /\ h[0] = 0
               /\ \A n \in 1..FilterSize : h[n] = h[n - 1] + v[n].x
               /\ \A n \in 0..FilterSize : h[n] \in Int
  BY WindowSumIs
<1>4. \A n \in 1..FilterSize : w[n].x \in Int /\ v[n].x \in Int
  BY WindowInputs
<1> DEFINE last == FilterSize - 1
           S == {m \in 0..last : h[m] = g[m + 1] - w[1].x}
<1>5. 0 \in S
  <2>1. 1 \in 1..FilterSize /\ 1 - 1 = 0 /\ 0 + 1 = 1
    BY <1>1
  <2>2. g[1] = g[0] + w[1].x
    BY <1>2, <2>1
  <2> QED BY <1>1, <1>2, <1>3, <1>4, <2>1, <2>2
<1>6. ASSUME NEW m \in 0..last, m < last, m \in S PROVE m + 1 \in S
  <2>1. m + 1 \in 1..FilterSize /\ m + 2 \in 1..FilterSize /\ m + 1 < FilterSize
        /\ (m + 1) - 1 = m /\ (m + 2) - 1 = m + 1 /\ (m + 1) + 1 = m + 2
        /\ m \in 0..FilterSize /\ m + 1 \in 0..FilterSize
    BY <1>1, <1>6
  <2>2. h[m + 1] = h[m] + v[m + 1].x /\ v[m + 1].x = w[m + 2].x
    BY <1>3, <2>1
  <2>3. g[m + 2] = g[m + 1] + w[m + 2].x
    BY <1>2, <2>1
  <2>4. h[m] = g[m + 1] - w[1].x
    BY <1>6
  <2>5. g[m + 1] \in Int /\ w[1].x \in Int /\ w[m + 2].x \in Int
    BY <1>1, <1>2, <1>4, <2>1
  <2>6. h[m + 1] = g[(m + 1) + 1] - w[1].x
    BY <2>1, <2>2, <2>3, <2>4, <2>5
  <2> QED BY <1>1, <1>6, <2>1, <2>6
<1>7. last \in Nat /\ last \in 0..last
  BY <1>1
<1> HIDE DEF S
<1>8. last \in S
  BY <1>5, <1>6, <1>7, InductionTo
<1>9. h[last] = g[last + 1] - w[1].x
  BY <1>8 DEF S
<1>10. last + 1 = FilterSize /\ FilterSize \in 1..FilterSize
  BY <1>1
<1>11. h[FilterSize] = h[last] + v[FilterSize].x
  BY <1>3, <1>10
<1>12. g[FilterSize] \in Int /\ w[1].x \in Int /\ v[FilterSize].x \in Int
  BY <1>1, <1>2, <1>4
<1> HIDE DEF last
<1> QED BY <1>2, <1>3, <1>9, <1>10, <1>11, <1>12

\* The sum of a window of one value.
LEMMA SumOfOne ==
  ASSUME Filters!FiltersAssumption, NEW x0 \in Inputs, NEW w \in WindowType,
         \A j \in 1..FilterSize : w[j].x = x0
  PROVE  Filters!WindowSum(w) = x0 * FilterSize
<1>1. FilterSize \in Nat \ {0} /\ x0 \in Int
  BY FilterConstants
<1>2. PICK g : /\ Filters!WindowSum(w) = g[FilterSize] /\ g[0] = 0
               /\ \A n \in 1..FilterSize : g[n] = g[n - 1] + w[n].x
  BY WindowSumIs
<1> DEFINE S == {m \in 0..FilterSize : g[m] = x0 * m}
<1>3. 0 \in S
  BY <1>1, <1>2
<1>4. ASSUME NEW m \in 0..FilterSize, m < FilterSize, m \in S PROVE m + 1 \in S
  <2>1. m + 1 \in 1..FilterSize /\ (m + 1) - 1 = m
    BY <1>1, <1>4
  <2>2. g[m + 1] = g[m] + x0
    BY <1>2, <2>1
  <2>3. g[m] = x0 * m /\ x0 * (m + 1) = x0 * m + x0
    BY <1>1, <1>4
  <2> QED BY <2>1, <2>2, <2>3
<1> HIDE DEF S
<1>5. 0..FilterSize \subseteq S
  BY <1>1, <1>3, <1>4, InductionTo
<1>6. FilterSize \in S
  BY <1>1, <1>5
<1> QED BY <1>2, <1>6 DEF S

\* A window after the value it forgets and the one it takes up.
MovedOn(w, e) == Append(Tail(w), e)

LEMMA Remembered ==
  ASSUME Filters!FiltersAssumption, NEW w \in WindowType,
         NEW e \in [x : Inputs, peak : BOOLEAN]
  PROVE  /\ MovedOn(w, e) \in WindowType /\ MovedOn(w, e)[FilterSize] = e
         /\ \A j \in 1..FilterSize : j < FilterSize => MovedOn(w, e)[j] = w[j + 1]
<1> DEFINE T == [x : Inputs, peak : BOOLEAN]
           v == MovedOn(w, e)
<1>1. FilterSize \in Nat \ {0} /\ e \in T /\ w \in [1..FilterSize -> T]
  BY FilterConstants DEF WindowType
<1> HIDE DEF T
<1>2. w \in Seq(T)
  BY <1>1, SeqDef
<1>3. Len(w) = FilterSize
  BY <1>1, <1>2
<1>4. Tail(w) \in Seq(T) /\ Len(Tail(w)) = FilterSize - 1
      /\ \A j \in 1..(FilterSize - 1) : Tail(w)[j] = w[j + 1]
  BY <1>1, <1>2, <1>3
<1>5. v \in Seq(T) /\ Len(v) = FilterSize /\ v[FilterSize] = e
  BY <1>1, <1>4 DEF MovedOn
<1>6. \A j \in 1..(FilterSize - 1) : v[j] = w[j + 1]
  BY <1>1, <1>4 DEF MovedOn
<1>7. v \in [1..FilterSize -> T]
  BY <1>5, LenProperties
<1> QED BY <1>1, <1>5, <1>6, <1>7 DEF WindowType, T

\* The larger and the smaller of a set of numbers with a bound in it, and that the
\* values of an array have a bound among them.
LEMMA MaxIs ==
  ASSUME NEW V, NEW m \in V, V \subseteq Int, \A x \in V : x <= m
  PROVE  Filters!Max(V) = m
<1>1. \A y \in V : m >= y
  OBVIOUS
<1>2. \A x \in V : (\A y \in V : x >= y) => x = m
  BY <1>1
<1> QED BY <1>1, <1>2 DEF Filters!Max

LEMMA MinIs ==
  ASSUME NEW V, NEW m \in V, V \subseteq Int, \A x \in V : m <= x
  PROVE  Filters!Min(V) = m
<1>1. \A y \in V : m =< y
  OBVIOUS
<1>2. \A x \in V : (\A y \in V : x =< y) => x = m
  BY <1>1
<1> QED BY <1>1, <1>2 DEF Filters!Min

LEMMA LargestExists ==
  ASSUME NEW n \in Nat, NEW a \in [0..n -> Int]
  PROVE  \E i \in 0..n : \A j \in 0..n : a[j] <= a[i]
<1> DEFINE S == {m \in 0..n : \E i \in 0..m : \A j \in 0..m : a[j] <= a[i]}
<1>1. 0 \in S
  OBVIOUS
<1>2. ASSUME NEW m \in 0..n, m < n, m \in S PROVE m + 1 \in S
  <2>1. PICK i \in 0..m : \A j \in 0..m : a[j] <= a[i]
    BY <1>2
  <2>2. /\ \A j \in 0..(m + 1) : a[j] \in Int /\ (j \in 0..m \/ j = m + 1)
        /\ i \in 0..(m + 1) /\ m + 1 \in 0..(m + 1) /\ m + 1 \in 0..n
    BY <1>2
  <2>3. CASE a[m + 1] <= a[i]
    BY <2>1, <2>2, <2>3
  <2>4. CASE ~(a[m + 1] <= a[i])
    <3>1. \A j \in 0..(m + 1) : a[j] <= a[m + 1]
      BY <2>1, <2>2, <2>4
    <3> QED BY <2>2, <3>1
  <2> QED BY <2>3, <2>4
<1> HIDE DEF S
<1>3. 0..n \subseteq S
  BY <1>1, <1>2, InductionTo
<1>4. n \in S
  BY <1>3
<1> QED BY <1>4 DEF S

-----------------------------------------------------------------------------
\* The j-th of the last inputs came to this slot: the oldest is the next to go.
SlotOf(j) == IF at + j - 1 < FilterSize THEN at + j - 1 ELSE at + j - 1 - FilterSize

Kinds == {"average", "max", "LPF", "HPF"}

FilterTyped ==
  /\ kind \in Kinds
  /\ data \in [Filters!Slots -> Inputs] /\ at \in Filters!Slots /\ sum \in Int
  /\ out \in Int /\ lpf \in Int /\ recent \in WindowType

\* A moving average keeps the last inputs, each in its slot.
AverageInv ==
  kind = "average" =>
    /\ \A j \in 1..FilterSize : recent[j].x = data[SlotOf(j)]
    /\ sum = Filters!WindowSum(recent)

\* A moving maximum is the largest value kept, and a new maximum is kept in its slot.
MaximumInv ==
  kind = "max" =>
    /\ \A i \in Filters!Slots : data[i] <= out
    /\ \E i \in Filters!Slots : data[i] = out
    /\ \A j \in 1..FilterSize : recent[j].peak => recent[j].x = data[SlotOf(j)]
    /\ recent[FilterSize].x <= out

\* A pass has seen a least and a largest value, and is between them.
Between(x, low, high) == low <= x /\ x <= high

PassBetween(low, high) ==
  /\ low \in seen /\ high \in seen /\ \A x \in seen : Between(x, low, high)
  /\ Between(lpf, low, high)
  /\ kind = "LPF" => out = 0 \/ Between(out, low, high)
  /\ kind = "HPF" => Between(out, low - high, high - low)

PassInv ==
  IF kind \in {"LPF", "HPF"}
  THEN tc \in Gains /\ seen \subseteq Inputs /\ \E low, high \in Int : PassBetween(low, high)
  ELSE tc = 0

FilterInv == FilterTyped /\ AverageInv /\ MaximumInv /\ PassInv

\* One filling of the window: the constructors and setData().
FullOf(x0) == [i \in 1..FilterSize |-> Filters!Input(x0, FALSE)]

LEMMA Filled ==
  ASSUME Filters!FiltersAssumption, NEW x0 \in Inputs
  PROVE  /\ FullOf(x0) \in WindowType /\ Filters!WindowSum(FullOf(x0)) = x0 * FilterSize
         /\ \A j \in 1..FilterSize : FullOf(x0)[j].x = x0 /\ FullOf(x0)[j].peak = FALSE
<1> DEFINE w == FullOf(x0)
<1>1. Filters!Input(x0, FALSE) \in [x : Inputs, peak : BOOLEAN]
      /\ Filters!Input(x0, FALSE).x = x0 /\ Filters!Input(x0, FALSE).peak = FALSE
  BY DEF Filters!Input
<1>2. w \in WindowType /\ \A j \in 1..FilterSize : w[j].x = x0 /\ w[j].peak = FALSE
  BY <1>1 DEF WindowType, FullOf
<1> HIDE DEF w
<1>3. Filters!WindowSum(w) = x0 * FilterSize
  BY <1>2, SumOfOne
<1> QED BY <1>2, <1>3 DEF w

LEMMA SlotsOf ==
  ASSUME Filters!FiltersAssumption, at \in Filters!Slots
  PROVE  \A j \in 1..FilterSize : SlotOf(j) \in Filters!Slots
BY FilterConstants DEF SlotOf

\* The slots of the inputs, when the next slot has been passed.
LEMMA SlotsMoveOn ==
  ASSUME Filters!FiltersAssumption, at \in Filters!Slots, at' = (at + 1) % FilterSize
  PROVE  /\ at' \in Filters!Slots /\ SlotOf(1) = at /\ SlotOf(FilterSize)' = at
         /\ \A j \in 1..FilterSize : j < FilterSize =>
              SlotOf(j)' = SlotOf(j + 1) /\ SlotOf(j + 1) # at
<1>1. FilterSize \in Nat \ {0} /\ Filters!Slots = 0..(FilterSize - 1)
  BY FilterConstants
<1>2. CASE at + 1 < FilterSize
  <2>1. at + 1 \in 0..(FilterSize - 1)
    BY <1>1, <1>2
  <2>2. at' = at + 1
    BY <1>1, <2>1, ClockBelow
  <2> QED BY <1>1, <1>2, <2>2 DEF SlotOf
<1>3. CASE ~(at + 1 < FilterSize)
  <2>1. at + 1 = FilterSize * 1 + 0 /\ 0 \in 0..(FilterSize - 1)
    BY <1>1, <1>3
  <2>2. at' = 0
    BY <1>1, <2>1, ModUnique
  <2>3. at + 1 = FilterSize
    BY <1>1, <1>3
  <2> QED BY <1>1, <2>2, <2>3 DEF SlotOf
<1> QED BY <1>2, <1>3

LEMMA FilterInit ==
  ASSUME Filters!FiltersAssumption, Filters!Init PROVE FilterInv
<1>1. PICK x0 \in Inputs :
        /\ data = [i \in Filters!Slots |-> x0] /\ sum = x0 * FilterSize
        /\ out = IF kind \in {"LPF", "HPF"} THEN 0 ELSE x0
        /\ lpf = x0 /\ seen = {x0}
        /\ recent = [i \in 1..FilterSize |-> Filters!Input(x0, FALSE)]
  BY DEF Filters!Init
<1>2. kind \in Kinds /\ at = 0
  BY DEF Filters!Init, Kinds
<1>3. FilterSize \in Nat \ {0} /\ Filters!Slots = 0..(FilterSize - 1) /\ x0 \in Int
      /\ Inputs \subseteq Int
  BY FilterConstants
<1>4. recent \in WindowType /\ Filters!WindowSum(recent) = x0 * FilterSize
      /\ \A j \in 1..FilterSize : recent[j].x = x0 /\ recent[j].peak = FALSE
  <2>1. recent = FullOf(x0)
    BY <1>1 DEF FullOf
  <2> QED BY <2>1, Filled
<1>5. sum \in Int /\ out \in Int
  BY <1>1, <1>3
<1>6. FilterTyped
  BY <1>1, <1>2, <1>3, <1>4, <1>5 DEF FilterTyped
<1>7. AverageInv
  BY <1>1, <1>2, <1>4, <1>6, SlotsOf DEF AverageInv, FilterTyped
<1>8. MaximumInv
  <2>1. ASSUME kind = "max" PROVE out = x0 /\ 0 \in Filters!Slots
    BY <1>1, <1>3, <2>1
  <2>2. \A i \in Filters!Slots : data[i] = x0
    BY <1>1
  <2>3. ASSUME kind = "max"
        PROVE  /\ \A i \in Filters!Slots : data[i] <= out
               /\ \E i \in Filters!Slots : data[i] = out
               /\ recent[FilterSize].x <= out
    BY <1>3, <1>4, <2>1, <2>2, <2>3
  <2> QED BY <1>4, <2>3 DEF MaximumInv
<1>9. PassInv
  <2>1. CASE kind \in {"LPF", "HPF"}
    <3>1. tc \in Gains
      BY <2>1 DEF Filters!Init
    <3>2. PassBetween(x0, x0)
      BY <1>1, <1>3, <2>1 DEF PassBetween, Between
    <3> QED BY <1>1, <1>3, <2>1, <3>1, <3>2 DEF PassInv
  <2>2. CASE ~(kind \in {"LPF", "HPF"})
    BY <2>2 DEF Filters!Init, PassInv
  <2> QED BY <2>1, <2>2
<1> QED BY <1>6, <1>7, <1>8, <1>9 DEF FilterInv

\* A call that remembers its input moves the window on.
LEMMA Remembers ==
  ASSUME Filters!FiltersAssumption, recent \in WindowType, NEW xn \in Inputs,
         NEW peak \in BOOLEAN, Filters!Remember(xn, peak)
  PROVE  /\ recent' \in WindowType
         /\ recent'[FilterSize].x = xn /\ recent'[FilterSize].peak = peak
         /\ \A j \in 1..FilterSize : j < FilterSize => recent'[j] = recent[j + 1]
<1> DEFINE e == Filters!Input(xn, peak)
           v == MovedOn(recent, e)
<1>1. e \in [x : Inputs, peak : BOOLEAN] /\ e.x = xn /\ e.peak = peak
  BY DEF Filters!Input
<1>2. recent' = v
  BY DEF Filters!Remember, MovedOn
<1> HIDE DEF e
<1>3. /\ v \in WindowType /\ v[FilterSize] = e
      /\ \A j \in 1..FilterSize : j < FilterSize => v[j] = recent[j + 1]
  BY <1>1, Remembered
<1> HIDE DEF v
<1> QED BY <1>1, <1>2, <1>3

LEMMA FilterFills ==
  ASSUME Filters!FiltersAssumption, FilterInv, NEW x \in Inputs,
         Filters!SetAverage(x) \/ Filters!SetMaximum(x)
  PROVE  FilterInv'
<1>1. /\ data' = [i \in Filters!Slots |-> x] /\ recent' = FullOf(x)
      /\ UNCHANGED <<kind, at, lpf, tc, seen>>
      /\ (kind = "average" /\ sum' = x * FilterSize /\ out' = out)
         \/ (kind = "max" /\ out' = x /\ sum' = sum)
  BY DEF Filters!SetAverage, Filters!SetMaximum, Filters!Forgotten, FullOf
<1>2. FilterSize \in Nat \ {0} /\ Filters!Slots = 0..(FilterSize - 1) /\ x \in Int
      /\ Inputs \subseteq Int
  BY FilterConstants
<1>3. recent' \in WindowType /\ Filters!WindowSum(recent') = x * FilterSize
      /\ \A j \in 1..FilterSize : recent'[j].x = x /\ recent'[j].peak = FALSE
  BY <1>1, Filled
<1>4. sum' \in Int /\ out' \in Int
  BY <1>1, <1>2 DEF FilterInv, FilterTyped
<1>5. FilterTyped'
  BY <1>1, <1>3, <1>4 DEF FilterInv, FilterTyped, Filters!Slots
<1>6. AverageInv'
  <2>1. \A j \in 1..FilterSize : SlotOf(j)' \in Filters!Slots
    <3>1. \A j \in 1..FilterSize : SlotOf(j) \in Filters!Slots
      BY SlotsOf DEF FilterInv, FilterTyped
    <3> QED BY <1>1, <3>1 DEF SlotOf
  <2>2. \A j \in 1..FilterSize : data'[SlotOf(j)'] = x
    BY <1>1, <2>1
  <2>3. kind' = "average" => sum' = Filters!WindowSum(recent')
    BY <1>1, <1>3
  <2>4. kind' = "average" => sum' = Filters!WindowSum(recent)'
    BY <2>3 DEF Filters!WindowSum
  <2> QED BY <1>3, <2>2, <2>4 DEF AverageInv
<1>7. MaximumInv'
  <2>1. 0 \in Filters!Slots /\ \A i \in Filters!Slots : data'[i] = x
    BY <1>1, <1>2
  <2>2. kind' = "max" => out' = x
    BY <1>1
  <2>3. kind' = "max" =>
          /\ \A i \in Filters!Slots : data'[i] <= out'
          /\ \E i \in Filters!Slots : data'[i] = out'
          /\ recent'[FilterSize].x <= out'
    BY <1>2, <1>3, <2>1, <2>2
  <2> QED BY <1>3, <2>3 DEF MaximumInv, Filters!Slots
<1>8. PassInv'
  BY <1>1 DEF FilterInv, PassInv
<1> QED BY <1>5, <1>6, <1>7, <1>8 DEF FilterInv

LEMMA FilterAverages ==
  ASSUME Filters!FiltersAssumption, FilterInv, NEW xn \in Inputs, Filters!MovingAverage(xn)
  PROVE  FilterInv'
<1>1. /\ kind = "average" /\ kind' = kind /\ sum' = sum - data[at] + xn
      /\ data' = [data EXCEPT ![at] = xn] /\ at' = (at + 1) % FilterSize
      /\ out' = Filters!Quotient(sum', FilterSize)
      /\ Filters!Remember(xn, FALSE) /\ UNCHANGED <<lpf, tc, seen>>
  BY DEF Filters!MovingAverage
<1>2. FilterSize \in Nat \ {0} /\ xn \in Int /\ Inputs \subseteq Int
  BY FilterConstants
<1>3. /\ data \in [Filters!Slots -> Inputs] /\ at \in Filters!Slots /\ sum \in Int
      /\ lpf \in Int /\ recent \in WindowType /\ kind \in Kinds
      /\ \A j \in 1..FilterSize : recent[j].x = data[SlotOf(j)]
      /\ sum = Filters!WindowSum(recent)
  BY <1>1 DEF FilterInv, FilterTyped, AverageInv
<1>4. /\ recent' \in WindowType
      /\ recent'[FilterSize].x = xn
      /\ \A j \in 1..FilterSize : j < FilterSize => recent'[j] = recent[j + 1]
  BY <1>1, <1>3, Remembers
<1>5. /\ at' \in Filters!Slots /\ SlotOf(1) = at /\ SlotOf(FilterSize)' = at
      /\ \A j \in 1..FilterSize : j < FilterSize =>
           SlotOf(j)' = SlotOf(j + 1) /\ SlotOf(j + 1) # at
  BY <1>1, <1>3, SlotsMoveOn
<1>6. data' \in [Filters!Slots -> Inputs] /\ data[at] \in Int /\ sum' \in Int
  <2>1. data[at] \in Inputs
    BY <1>3
  <2>2. data' \in [Filters!Slots -> Inputs]
    BY <1>1, <1>3
  <2>3. data[at] \in Int
    BY <1>2, <2>1
  <2> QED BY <1>1, <1>2, <1>3, <2>2, <2>3
<1>7. out' \in Int
  BY <1>1, <1>2, <1>6, DivMod DEF Filters!Quotient
<1>8. FilterTyped'
  BY <1>1, <1>3, <1>4, <1>5, <1>6, <1>7 DEF FilterTyped, Filters!Slots
<1>9. ASSUME NEW j \in 1..FilterSize PROVE recent'[j].x = data'[SlotOf(j)']
  <2>1. CASE j < FilterSize
    <3>1. j + 1 \in 1..FilterSize
      BY <1>2, <2>1
    <3>2. SlotOf(j + 1) \in Filters!Slots
      BY <1>3, <3>1, SlotsOf
    <3>3. data'[SlotOf(j)'] = data[SlotOf(j + 1)]
      BY <1>1, <1>3, <1>5, <2>1, <3>2
    <3> QED BY <1>3, <1>4, <2>1, <3>1, <3>3
  <2>2. CASE ~(j < FilterSize)
    <3>1. j = FilterSize
      BY <1>2, <2>2
    <3> QED BY <1>1, <1>3, <1>4, <1>5, <3>1
  <2> QED BY <2>1, <2>2
<1>10. sum' = Filters!WindowSum(recent')
  <2>1. recent[1].x = data[at]
    BY <1>2, <1>3, <1>5
  <2> DEFINE w == recent
             v == recent'
  <2>2. w \in WindowType /\ v \in WindowType
        /\ \A j \in 1..FilterSize : j < FilterSize => v[j] = w[j + 1]
    BY <1>3, <1>4
  <2>3. Filters!WindowSum(v) = Filters!WindowSum(w) - w[1].x + v[FilterSize].x
    <3> HIDE DEF w, v
    <3> QED BY <2>2, SumMovesOn
  <2> QED BY <1>1, <1>3, <1>4, <2>1, <2>3
<1>11. AverageInv'
  BY <1>9, <1>10 DEF AverageInv, Filters!WindowSum
<1>12. MaximumInv' /\ PassInv'
  BY <1>1 DEF MaximumInv, PassInv, FilterInv
<1> QED BY <1>8, <1>11, <1>12 DEF FilterInv

LEMMA FilterMaximum ==
  ASSUME Filters!FiltersAssumption, FilterInv, NEW xn \in Inputs, Filters!MovingMax(xn)
  PROVE  FilterInv'
<1>1. /\ kind = "max" /\ kind' = kind
      /\ data' = IF xn > out \/ data[at] = out THEN [data EXCEPT ![at] = xn] ELSE data
      /\ out' = IF xn > out THEN xn
                ELSE IF data[at] = out
                     THEN Filters!Max({data'[i] : i \in Filters!Slots}) ELSE out
      /\ at' = (at + 1) % FilterSize
      /\ Filters!Remember(xn, xn > out) /\ UNCHANGED <<sum, lpf, tc, seen>>
  BY DEF Filters!MovingMax
<1>2. FilterSize \in Nat \ {0} /\ Filters!Slots = 0..(FilterSize - 1) /\ xn \in Int
      /\ Inputs \subseteq Int
  BY FilterConstants
<1>3. /\ data \in [Filters!Slots -> Inputs] /\ at \in Filters!Slots /\ sum \in Int
      /\ out \in Int /\ lpf \in Int /\ recent \in WindowType /\ kind \in Kinds
      /\ \A i \in Filters!Slots : data[i] <= out
      /\ \E i \in Filters!Slots : data[i] = out
      /\ \A j \in 1..FilterSize : recent[j].peak => recent[j].x = data[SlotOf(j)]
  BY <1>1 DEF FilterInv, FilterTyped, MaximumInv
<1>4. /\ recent' \in WindowType
      /\ recent'[FilterSize].x = xn /\ recent'[FilterSize].peak = (xn > out)
      /\ \A j \in 1..FilterSize : j < FilterSize => recent'[j] = recent[j + 1]
  <2>1. (xn > out) \in BOOLEAN
    OBVIOUS
  <2> QED BY <1>1, <1>3, <2>1, Remembers
<1>5. /\ at' \in Filters!Slots /\ SlotOf(1) = at /\ SlotOf(FilterSize)' = at
      /\ \A j \in 1..FilterSize : j < FilterSize =>
           SlotOf(j)' = SlotOf(j + 1) /\ SlotOf(j + 1) # at
  BY <1>1, <1>3, SlotsMoveOn
<1>6. data' \in [Filters!Slots -> Inputs]
      /\ \A i \in Filters!Slots : i # at => data'[i] = data[i]
  BY <1>1, <1>3
<1>7. \A i \in Filters!Slots : data[i] \in Int /\ data'[i] \in Int
  BY <1>2, <1>3, <1>6
\* In each case the result is the largest value kept, and no less than the input.
<1>8. /\ out' \in Int /\ xn <= out'
      /\ \A i \in Filters!Slots : data'[i] <= out'
      /\ \E i \in Filters!Slots : data'[i] = out'
  <2>1. CASE xn > out
    <3>1. data' = [data EXCEPT ![at] = xn] /\ out' = xn
      BY <1>1, <2>1
    <3>2. data'[at] = xn
      BY <1>3, <3>1
    <3> QED BY <1>2, <1>3, <1>6, <1>7, <2>1, <3>1, <3>2
  <2>2. CASE ~(xn > out) /\ data[at] = out
    <3> DEFINE V == {data'[i] : i \in Filters!Slots}
    <3>1. data' = [data EXCEPT ![at] = xn] /\ out' = Filters!Max(V)
      BY <1>1, <2>2
    <3>2. data'[at] = xn /\ at \in Filters!Slots
      BY <1>3, <3>1
    <3>3. PICK i \in Filters!Slots : \A j \in Filters!Slots : data'[j] <= data'[i]
      <4> DEFINE n == FilterSize - 1
                 a == data'
      <4>1. n \in Nat /\ a \in [0..n -> Int] /\ Filters!Slots = 0..n
        <5>1. n \in Nat /\ Filters!Slots = 0..n
          BY <1>2
        <5> HIDE DEF n
        <5> QED BY <1>2, <1>6, <5>1
      <4> HIDE DEF n, a
      <4>2. \E i \in 0..n : \A j \in 0..n : a[j] <= a[i]
        BY <4>1, LargestExists
      <4> QED BY <4>1, <4>2 DEF a
    <3>4. V \subseteq Int /\ data'[i] \in V /\ \A x \in V : x <= data'[i]
      BY <1>7, <3>3
    <3> HIDE DEF V
    <3>5. out' = data'[i]
      BY <3>1, <3>4, MaxIs
    <3> QED BY <1>7, <3>2, <3>3, <3>5
  <2>3. CASE ~(xn > out) /\ data[at] # out
    <3>1. data' = data /\ out' = out
      BY <1>1, <2>3
    <3> QED BY <1>2, <1>3, <2>3, <3>1
  <2> QED BY <2>1, <2>2, <2>3
<1>9. FilterTyped'
  BY <1>1, <1>3, <1>4, <1>5, <1>6, <1>8 DEF FilterTyped, Filters!Slots
<1>10. ASSUME NEW j \in 1..FilterSize, recent'[j].peak
       PROVE  recent'[j].x = data'[SlotOf(j)']
  <2>1. CASE j < FilterSize
    <3>1. j + 1 \in 1..FilterSize
      BY <1>2, <2>1
    <3>2. SlotOf(j + 1) \in Filters!Slots
      BY <1>3, <3>1, SlotsOf
    <3>3. data'[SlotOf(j)'] = data[SlotOf(j + 1)]
      BY <1>5, <1>6, <2>1, <3>2
    <3> QED BY <1>3, <1>4, <1>10, <2>1, <3>1, <3>3
  <2>2. CASE ~(j < FilterSize)
    <3>1. j = FilterSize
      BY <1>2, <2>2
    <3>2. data' = [data EXCEPT ![at] = xn]
      BY <1>1, <1>4, <1>10, <3>1
    <3> QED BY <1>3, <1>4, <1>5, <3>1, <3>2
  <2> QED BY <2>1, <2>2
<1>11. MaximumInv'
  BY <1>4, <1>8, <1>10 DEF MaximumInv, Filters!Slots
<1>12. AverageInv' /\ PassInv'
  BY <1>1 DEF AverageInv, PassInv, FilterInv
<1> QED BY <1>9, <1>11, <1>12 DEF FilterInv

\* A step of a pass goes part of the way to its input.
LEMMA PartOfTheWay ==
  ASSUME NEW scale \in Nat \ {0}, NEW gain \in 0..scale, NEW l \in Int, NEW in \in Int,
         NEW m, m = l + (((in - l) * gain) \div scale)
  PROVE  m \in Int /\ ((l <= m /\ m <= in) \/ (in <= m /\ m <= l))
<1> DEFINE d == in - l
           q == (d * gain) \div scale
<1>1. d \in Int /\ d * gain \in Int /\ gain \in Int /\ scale \in Int
  BY SMT
<1>2. CASE d >= 0
  <2>1. scale * 0 <= d * gain
    BY <1>1, <1>2
  <2>2. gain * d <= scale * d
    <3> HIDE DEF d
    <3> QED BY <1>1, <1>2, ProductGrows
  <2>3. d * gain = gain * d
    BY <1>1
  <2>4. 0 <= q /\ q <= d /\ q \in Int
    <3> DEFINE p == d * gain
    <3>1. p \in Int /\ scale * 0 <= p /\ p <= scale * d
      BY <1>1, <2>1, <2>2, <2>3
    <3> HIDE DEF d, p
    <3>2. 0 <= p \div scale /\ p \div scale <= d /\ p \div scale \in Int
      BY <1>1, <3>1, QuotientBetween
    <3> QED BY <3>2 DEF p
  <2>5. m = l + q /\ d = in - l
    OBVIOUS
  <2> HIDE DEF d, q
  <2> QED BY <2>4, <2>5
<1>3. CASE ~(d >= 0)
  <2> DEFINE e == -d
  <2>0. e \in Nat
    BY <1>1, <1>3
  <2>1. d * gain <= scale * 0
    BY <1>1, <1>3
  <2>2. gain * e <= scale * e
    <3> HIDE DEF e
    <3> QED BY <1>1, <2>0, ProductGrows
  <2>3. gain * e = -(d * gain) /\ scale * e = -(scale * d) /\ scale * d \in Int
    BY <1>1
  <2>4. d <= q /\ q <= 0 /\ q \in Int
    <3> DEFINE p == d * gain
               r == scale * d
               s1 == gain * e
               s2 == scale * e
    <3>0. p \in Int /\ r \in Int /\ s1 = -p /\ s2 = -r /\ s1 <= s2 /\ p <= scale * 0
      BY <1>1, <2>1, <2>2, <2>3
    <3>1. p \in Int /\ r <= p /\ p <= scale * 0
      <4> HIDE DEF p, r, s1, s2
      <4> QED BY <3>0
    <3>2. scale * d <= p /\ d \in Int
      BY <1>1, <3>1
    <3> HIDE DEF d, p
    <3>3. d <= p \div scale /\ p \div scale <= 0 /\ p \div scale \in Int
      BY <1>1, <3>1, <3>2, QuotientBetween
    <3> QED BY <3>3 DEF p
  <2>5. m = l + q /\ d = in - l
    OBVIOUS
  <2> HIDE DEF d, q
  <2> QED BY <2>4, <2>5
<1> QED BY <1>2, <1>3

\* A range that takes up one more value.
LEMMA RangeGrows ==
  ASSUME NEW low \in Int, NEW high \in Int, NEW x \in Int, low \in seen, high \in seen,
         \A y \in seen : y \in Int /\ Between(y, low, high), seen' = seen \cup {x}
  PROVE  \E lo, hi \in Int : /\ lo \in seen' /\ hi \in seen'
                             /\ \A y \in seen' : Between(y, lo, hi)
                             /\ lo <= low /\ high <= hi /\ Between(x, lo, hi)
<1> DEFINE lo == IF x < low THEN x ELSE low
           hi == IF x > high THEN x ELSE high
<1>1. lo \in Int /\ hi \in Int /\ lo \in seen' /\ hi \in seen'
  OBVIOUS
<1>2. lo <= low /\ high <= hi /\ Between(x, lo, hi)
  BY DEF Between
<1>3. \A y \in seen' : Between(y, lo, hi)
  BY <1>1, <1>2 DEF Between
<1> HIDE DEF lo, hi
<1> QED BY <1>1, <1>2, <1>3

LEMMA FilterPasses ==
  ASSUME Filters!FiltersAssumption, FilterInv, NEW x \in Inputs,
         Filters!FirstFiltering(x) \/ Filters!SetLPF(x)
  PROVE  FilterInv'
<1>1. /\ kind \in {"LPF", "HPF"} /\ kind' = kind /\ seen' = seen \cup {x}
      /\ UNCHANGED <<data, at, sum, tc, recent>>
  BY DEF Filters!FirstFiltering, Filters!SetLPF, Filters!window
<1>2. FilterScale \in Nat \ {0} /\ Gains \subseteq 0..FilterScale /\ x \in Int
      /\ Inputs \subseteq Int
  BY FilterConstants
<1>3. tc \in Gains /\ seen \subseteq Inputs /\ lpf \in Int /\ out \in Int
  BY <1>1 DEF FilterInv, FilterTyped, PassInv
<1>4. PICK low \in Int, high \in Int : PassBetween(low, high)
  BY <1>1 DEF FilterInv, PassInv
<1>5. PICK lo \in Int, hi \in Int :
        /\ lo \in seen' /\ hi \in seen' /\ \A y \in seen' : Between(y, lo, hi)
        /\ lo <= low /\ high <= hi /\ Between(x, lo, hi)
  <2>1. low \in seen /\ high \in seen /\ \A y \in seen : y \in Int /\ Between(y, low, high)
    BY <1>2, <1>3, <1>4 DEF PassBetween
  <2> QED BY <1>1, <1>2, <2>1, RangeGrows
<1>6. lpf' \in Int /\ Between(lpf', lo, hi)
  <2>1. CASE Filters!FirstFiltering(x)
    <3>1. lpf' = lpf + (((x - lpf) * tc) \div FilterScale)
      BY <2>1 DEF Filters!FirstFiltering
    <3>2. lpf' \in Int /\ ((lpf <= lpf' /\ lpf' <= x) \/ (x <= lpf' /\ lpf' <= lpf))
      <4> DEFINE m == lpf'
      <4>1. m = lpf + (((x - lpf) * tc) \div FilterScale) /\ tc \in 0..FilterScale
        BY <1>2, <1>3, <3>1
      <4> HIDE DEF m
      <4>2. m \in Int /\ ((lpf <= m /\ m <= x) \/ (x <= m /\ m <= lpf))
        BY <1>2, <1>3, <4>1, PartOfTheWay
      <4> QED BY <4>2 DEF m
    <3>3. Between(lpf, low, high)
      BY <1>4 DEF PassBetween
    <3> QED BY <1>2, <1>3, <1>5, <3>2, <3>3 DEF Between
  <2>2. CASE Filters!SetLPF(x)
    BY <1>2, <1>5, <2>2 DEF Filters!SetLPF
  <2> QED BY <2>1, <2>2
<1>7. /\ out' \in Int
      /\ kind = "LPF" => out' = 0 \/ Between(out', lo, hi)
      /\ kind = "HPF" => Between(out', lo - hi, hi - lo)
  <2>1. CASE Filters!FirstFiltering(x)
    <3>1. out' = IF kind = "LPF" THEN lpf' ELSE x - lpf'
      BY <2>1 DEF Filters!FirstFiltering
    <3>2. lo <= x /\ x <= hi /\ lo <= lpf' /\ lpf' <= hi /\ lpf' \in Int
      BY <1>5, <1>6 DEF Between
    <3>3. Between(lpf', lo, hi)
      BY <3>2 DEF Between
    <3>4. x - lpf' \in Int /\ Between(x - lpf', lo - hi, hi - lo)
      <4> DEFINE m == lpf'
      <4>1. lo \in Int /\ hi \in Int
        BY <1>5
      <4>2. lo <= x /\ x <= hi /\ lo <= m /\ m <= hi /\ m \in Int /\ x \in Int
        BY <1>2, <3>2
      <4> HIDE DEF m
      <4>3. x - m \in Int /\ lo - hi <= x - m /\ x - m <= hi - lo
        BY <4>1, <4>2
      <4> QED BY <4>3 DEF Between, m
    <3>5. kind = "HPF" => kind # "LPF"
      OBVIOUS
    <3> QED BY <3>1, <3>2, <3>3, <3>4, <3>5
  <2>2. CASE Filters!SetLPF(x)
    <3>1. out' = out
      BY <2>2 DEF Filters!SetLPF
    <3>2. lo <= low /\ high <= hi
      BY <1>5
    <3>3. /\ kind = "LPF" => out = 0 \/ (low <= out /\ out <= high)
          /\ kind = "HPF" => low - high <= out /\ out <= high - low
      BY <1>4 DEF PassBetween, Between
    <3> QED BY <1>3, <3>1, <3>2, <3>3 DEF Between
  <2> QED BY <2>1, <2>2
<1>8. PassInv'
  <2>1. PassBetween(lo, hi)'
    BY <1>1, <1>5, <1>6, <1>7 DEF PassBetween, Between
  <2> QED BY <1>1, <1>3, <2>1 DEF PassInv
<1>9. FilterTyped'
  BY <1>1, <1>6, <1>7 DEF FilterInv, FilterTyped, Filters!Slots
<1>10. AverageInv' /\ MaximumInv'
  BY <1>1 DEF AverageInv, MaximumInv
<1> QED BY <1>8, <1>9, <1>10 DEF FilterInv

LEMMA FilterStep ==
  ASSUME Filters!FiltersAssumption, FilterInv, [Filters!Next]_(Filters!vars)
  PROVE  FilterInv'
<1>1. CASE Filters!Next
  BY <1>1, FilterFills, FilterAverages, FilterMaximum, FilterPasses DEF Filters!Next
<1>2. CASE UNCHANGED Filters!vars
  BY <1>2 DEF Filters!vars, Filters!window, FilterInv, FilterTyped, AverageInv, MaximumInv,
              PassInv, PassBetween, SlotOf, Filters!WindowSum, Filters!Slots
<1> QED BY <1>1, <1>2

LEMMA FilterIsTrue ==
  ASSUME Filters!FiltersAssumption, FilterInv
  PROVE  /\ Filters!TypeOK
         /\ Filters!SumsWindow /\ Filters!PeaksHold /\ Filters!StaysInRange
<1>1. Filters!TypeOK
  BY DEF FilterInv, FilterTyped, PassInv, Filters!TypeOK
<1>2. Filters!SumsWindow
  BY DEF FilterInv, AverageInv, Filters!SumsWindow
<1>3. Filters!PeaksHold
  <2>1. SUFFICES ASSUME kind = "max" PROVE Filters!PeaksHold
    BY DEF Filters!PeaksHold
  <2>2. /\ \A i \in Filters!Slots : data[i] <= out
        /\ \E i \in Filters!Slots : data[i] = out
        /\ \A j \in 1..FilterSize : recent[j].peak => recent[j].x = data[SlotOf(j)]
        /\ recent[FilterSize].x <= out
        /\ out \in Int /\ recent \in WindowType /\ at \in Filters!Slots
    BY <2>1 DEF FilterInv, FilterTyped, MaximumInv
  <2>3. \A j \in 1..FilterSize : SlotOf(j) \in Filters!Slots /\ recent[j].x \in Int
    BY <2>2, SlotsOf, WindowInputs
  <2>4. FilterSize \in 1..FilterSize
    BY FilterConstants
  <2> QED BY <2>2, <2>3, <2>4 DEF Filters!PeaksHold
<1>4. Filters!StaysInRange
  <2>1. SUFFICES ASSUME kind \in {"LPF", "HPF"} PROVE Filters!StaysInRange
    BY DEF Filters!StaysInRange
  <2>2. PICK low \in Int, high \in Int : PassBetween(low, high)
    BY <2>1 DEF FilterInv, PassInv
  <2>3. seen \subseteq Int /\ lpf \in Int /\ out \in Int
    BY <2>1, FilterConstants DEF FilterInv, FilterTyped, PassInv
  <2>4. low \in seen /\ high \in seen /\ \A x \in seen : low <= x /\ x <= high
    BY <2>2 DEF PassBetween, Between
  <2>5. Filters!Min(seen) = low /\ Filters!Max(seen) = high
    BY <2>3, <2>4, MinIs, MaxIs
  <2> QED BY <2>2, <2>3, <2>5 DEF PassBetween, Between, Filters!StaysInRange
<1> QED BY <1>1, <1>2, <1>3, <1>4

LEMMA FilterAlone ==
  /\ About("filter") /\ Init => Filters!Init
  /\ About("filter") /\ [Next]_vars => [Filters!Next]_(Filters!vars)
<1>1. About("filter") /\ Init => Filters!Init
  BY DEF About, Init
<1>2. About("filter") /\ [Next]_vars => [Filters!Next]_(Filters!vars)
  BY DEF About, Next, Others, vars, filter, Filters!vars, Filters!window
<1> QED BY <1>1, <1>2

LEMMA FilterInductive == Spec => [](About("filter") => FilterInv)
<1>1. About("filter") /\ Init => FilterInv
  BY PartsAssumption, FilterAlone, FilterInit DEF PartsAssumption
<1>2. About("filter") /\ FilterInv /\ [Next]_vars => FilterInv'
  BY PartsAssumption, FilterAlone, FilterStep DEF PartsAssumption
<1>3. About("filter") /\ [Next]_vars => About("filter")'
  BY AboutStays
<1>4. ~About("filter") /\ [Next]_vars => ~About("filter")'
  BY AboutAlways
<1> QED BY <1>1, <1>2, <1>3, <1>4, PTL DEF Spec

\* However long a filter runs and whatever it is given: the sum of a moving average is
\* that of its window, a maximum is held for a whole window, and a first order pass
\* stays within what was put into it.
THEOREM FiltersAreTrue == Spec => []FiltersTrue
<1>1. (About("filter") => FilterInv) => FiltersTrue
  BY PartsAssumption, FilterIsTrue DEF PartsAssumption, About, FiltersTrue
<1> QED BY <1>1, FilterInductive, PTL

-----------------------------------------------------------------------------
\* Every variable of the part a behaviour is about keeps its type: the numbers their
\* width, the arrays their length, the sockets and stores the states they can be in.
THEOREM PartsTyped == Spec => []TypeOK
<1>1. Spec => [](About("timer") => Timer!TypeOK)
  <2>1. Timer!Spec => []Timer!TypeOK
    BY PartsAssumption, TimerTyped DEF PartsAssumption
  <2>2. About("timer") /\ [Next]_vars => About("timer")'
    BY AboutStays
  <2>3. ~About("timer") /\ [Next]_vars => ~About("timer")'
    BY AboutAlways
  <2> QED BY <2>1, <2>2, <2>3, TimerAlone, PTL DEF Spec, Timer!Spec
<1>2. Spec => [](About("client") => Client!TypeOK)
  <2>1. Client!Spec => []Client!TypeOK
    BY PartsAssumption, ClientTypeCorrect DEF PartsAssumption
  <2>2. About("client") /\ [Next]_vars => About("client")'
    BY AboutStays
  <2>3. ~About("client") /\ [Next]_vars => ~About("client")'
    BY AboutAlways
  <2> QED BY <2>1, <2>2, <2>3, ClientAlone, PTL DEF Spec, Client!Spec
<1>3. Spec => [](About("mqtt") => Broker!TypeOK)
  <2>1. Broker!Spec => []Broker!TypeOK
    BY PartsAssumption, BrokerTyped DEF PartsAssumption
  <2>2. About("mqtt") /\ [Next]_vars => About("mqtt")'
    BY AboutStays
  <2>3. ~About("mqtt") /\ [Next]_vars => ~About("mqtt")'
    BY AboutAlways
  <2> QED BY <2>1, <2>2, <2>3, BrokerAlone, PTL DEF Spec, Broker!Spec
<1>4. Spec => [](About("layout") => Layout!TypeOK)
  <2>1. Layout!Spec => []Layout!TypeOK
    BY PartsAssumption, LayoutTyped DEF PartsAssumption
  <2>2. About("layout") /\ [Next]_vars => About("layout")'
    BY AboutStays
  <2>3. ~About("layout") /\ [Next]_vars => ~About("layout")'
    BY AboutAlways
  <2> QED BY <2>1, <2>2, <2>3, LayoutAlone, PTL DEF Spec, Layout!Spec
<1>5. (About("dump") => DumpInv) => (About("dump") => Dump!TypeOK)
  BY PartsAssumption, DumpShows DEF PartsAssumption
<1>6. /\ (About("changer") => ChangerInv) => (About("changer") => Servo!TypeOK)
      /\ (About("servo") => ServoInv) => (About("servo") => Servo!ServoTypeOK)
  BY DEF ChangerInv, ServoInv
<1>7. (About("stores") => StoresInv) => (About("stores") => Stores!TypeOK)
  BY PartsAssumption, StoresApart DEF PartsAssumption
<1>8. (About("filter") => FilterInv) => (About("filter") => Filters!TypeOK)
  BY PartsAssumption, FilterIsTrue DEF PartsAssumption
<1>9. /\ (About("timer") => Timer!TypeOK) /\ (About("client") => Client!TypeOK)
      /\ (About("mqtt") => Broker!TypeOK) /\ (About("layout") => Layout!TypeOK)
      /\ (About("dump") => Dump!TypeOK) /\ (About("changer") => Servo!TypeOK)
      /\ (About("servo") => Servo!ServoTypeOK) /\ (About("stores") => Stores!TypeOK)
      /\ (About("filter") => Filters!TypeOK)
      => TypeOK
  BY DEF About, TypeOK
<1> QED BY <1>1, <1>2, <1>3, <1>4, <1>5, <1>6, <1>7, <1>8, <1>9, DumpInductive,
           MovesInductive, StoresInductive, FilterInductive, PTL
=================================================================================
