------------------------------ MODULE EEPROMStores ------------------------------
(***************************************************************************)
(* Several EEPROMStores in one EEPROM (src/src/EEPROMStore.h and the       *)
(* example MultipleStores), on an ESP32 or ESP8266: they lie one behind    *)
(* the other by nextAddress(), each has a session of its own, and the      *)
(* begin() of each sizes the one buffer for itself.  How a single store    *)
(* fares is EEPROMStore's subject: here begin(), save() and commit() are   *)
(* whole, and neither fails.                                               *)
(*                                                                         *)
(* A cell holds <<store, value>> for a part of the header or the structure *)
(* that this store wrote for this value.                                   *)
(***************************************************************************)
EXTENDS Integers, Sequences

CONSTANTS
  Widths,      \* sizeof(T) of each store, in the order of their addresses
  HeaderSize,  \* sizeof(Header)
  Slack,       \* 64, what storageSizeFor() adds
  A,           \* addresses count modulo A (2^16)
  Values, Default,
  NoValue

Stores == 1..Len(Widths)
Blank  == <<0, NoValue>>

RequiredSize(i) == HeaderSize + Widths[i]

\* nextAddress() of a store at this address.
NextAddress(address, i) == (address + RequiredSize(i)) % A

Address[i \in Stores] == IF i = 1 THEN 0 ELSE NextAddress(Address[i - 1], i - 1)
End(i) == Address[i] + RequiredSize(i)

\* Mutant of StorageSizeFor: every store sizes the buffer as if it lay at zero.
StorageSizeForBare(i) == (RequiredSize(i) + Slack) % A

StorageSizeFor(i) == (Address[i] + RequiredSize(i) + Slack) % A

\* No store lies so high that its size is cut.
StoresAssumption ==
  /\ HeaderSize \in Nat \ {0} /\ Slack \in Nat /\ A \in Nat \ {0}
  /\ Widths \in Seq(Nat \ {0}) /\ \A i \in Stores : End(i) + Slack < A
  /\ Default \in Values /\ NoValue \notin Values

VARIABLES
  size,        \* the size of the buffer, zero before any begin()
  buffer,      \* what get() and put() see below that size
  flash,       \* what commit() has kept
  keeps,       \* the library keeps what lies beyond the buffer
  begun,       \* the stores that begin() has been called on since power-up
  grew,        \* history: no begin() since power-up made the buffer smaller
  saved        \* history: what the program last saved through a buffer that held
               \* the store's whole area

storesVars == <<size, buffer, flash, keeps, begun, grew, saved>>

Cells == 0..(A - 1)

Init ==
  /\ size = 0 /\ keeps \in BOOLEAN
  /\ buffer = [c \in Cells |-> Blank] /\ flash = [c \in Cells |-> Blank]
  /\ begun = {} /\ grew = TRUE
  /\ saved = [i \in Stores |-> NoValue]

-----------------------------------------------------------------------------
\* EEPROM.put(): outside the buffer it does nothing.
Put(mem, limit, first, n, cell) ==
  [c \in Cells |-> IF c >= first /\ c < first + n /\ first + n <= limit
                     THEN cell ELSE mem[c]]

\* Header and structure, as save() and forceSave() put them.
Written(mem, limit, i, v) ==
  Put(Put(mem, limit, Address[i], HeaderSize, <<i, v>>),
      limit, Address[i] + HeaderSize, Widths[i], <<i, v>>)

\* EEPROM.commit() and EEPROM.begin(): what lies beyond the buffer may be lost.
Committed(mem, limit) ==
  [c \in Cells |-> IF c < limit THEN mem[c] ELSE IF keeps THEN flash[c] ELSE Blank]
Kept(limit) ==
  {flash} \cup IF keeps THEN {} ELSE {[c \in Cells |-> IF c < limit THEN flash[c] ELSE Blank]}

\* load(): the header is this store's, and its CRC that of the structure.
Loads(mem, i) ==
  \E v \in Values : \A c \in Cells : c >= Address[i] /\ c < End(i) => mem[c] = <<i, v>>

\* begin(): the buffer is sized and read, and the defaults written if nothing valid
\* was found.
Begin(i) ==
  /\ size' = StorageSizeFor(i)
  /\ grew' = (grew /\ size' >= size)
  /\ begun' = begun \cup {i}
  /\ \E kept \in Kept(size') :
       IF Loads(kept, i) THEN buffer' = kept /\ flash' = kept /\ UNCHANGED saved
       ELSE /\ buffer' = Written(kept, size', i, Default)
            /\ flash' = [c \in Cells |-> IF c < size' THEN buffer'[c]
                                         ELSE IF keeps THEN kept[c] ELSE Blank]
            /\ saved' = [saved EXCEPT ![i] = Default]
  /\ UNCHANGED keeps

\* save() of a changed structure, and reset().  A header beyond the buffer is not
\* read, and may happen to compare equal.
Save(i, v) ==
  /\ i \in begun
  /\ IF Address[i] + HeaderSize <= size
       THEN buffer[Address[i]] # <<i, v>> ELSE TRUE
  /\ buffer' = Written(buffer, size, i, v)
  /\ flash' = Committed(buffer', size)
  /\ saved' = [saved EXCEPT ![i] = IF End(i) <= size THEN v ELSE NoValue]
  /\ UNCHANGED <<size, keeps, begun, grew>>

Restart ==
  /\ size' = 0 /\ begun' = {} /\ grew' = TRUE
  /\ buffer' = [c \in Cells |-> Blank]
  /\ UNCHANGED <<flash, keeps, saved>>

Next ==
  \/ \E i \in Stores : Begin(i) \/ \E v \in Values : Save(i, v)
  \/ Restart

-----------------------------------------------------------------------------
\* The type of the EEPROM's state.
TypeOK ==
  /\ size \in {0} \cup {StorageSizeFor(i) : i \in Stores}
  /\ \A mem \in {buffer, flash} : \A c \in Cells :
       mem[c] = Blank \/ mem[c] \in Stores \X Values
  /\ begun \subseteq Stores /\ keeps \in BOOLEAN /\ grew \in BOOLEAN
  /\ \A i \in Stores : saved[i] \in Values \cup {NoValue}

\* A store whose area every store's buffer covers.
Covered(i) == \A j \in Stores : End(i) <= StorageSizeFor(j)

\* Stores laid out by nextAddress() do not overlap ("構造体ごとに保存領域を重ならないように
\* 配置します", MultipleStores.ino:4): no cell of one is ever written by another, and
\* a program that begins them in the order of their addresses has room for each.
\* What was saved stays, whichever store is begun, saved or reset next; with a
\* library that drops what lies beyond the buffer, only where every buffer reaches.
StoresKeepApart ==
  /\ \A i \in Stores : \A c \in Address[i]..(End(i) - 1) : flash[c][1] \in {0, i}
  /\ grew => \A i \in begun : End(i) <= size
  /\ \A i \in Stores :
       saved[i] # NoValue /\ (keeps \/ Covered(i)) =>
         \A c \in Address[i]..(End(i) - 1) : flash[c] = <<i, saved[i]>>
=============================================================================
