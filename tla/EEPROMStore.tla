------------------------------ MODULE EEPROMStore ------------------------------
(***************************************************************************)
(* EEPROMStore<T> over an EEPROMSession (src/src/EEPROMStore.h): one       *)
(* structure kept in EEPROM behind a header of a magic value and a CRC.    *)
(*                                                                         *)
(* The store is a single-threaded object; what interleaves with it is the  *)
(* power supply, which may go between any two writes, and the flash, which *)
(* may refuse a commit.  Two back ends are modelled by the constant        *)
(* Buffered: on ESP32/ESP8266 put() changes a RAM buffer that commit()     *)
(* makes durable at once; on AVR put() changes the cells themselves, one   *)
(* after the other, and commit() does nothing.                             *)
(*                                                                         *)
(* A cell is one byte of the memory: the magic and the CRC are two cells   *)
(* each, and the structure is a row of Width cells.                        *)
(***************************************************************************)
EXTENDS Integers

CONSTANTS
  Byte,           \* what a byte of the structure holds
  Word,           \* what a byte of the header holds
  Width,          \* sizeof(T)
  Magic,          \* the two bytes of _magic of this store
  CRC,            \* calcCRC: the two bytes it makes of a structure
  Default,        \* _defaults
  Zero,           \* the member data of a global store before begin()
  Factory,        \* what the cells may hold before the first power-up
  Buffered,       \* TRUE: ESP32/ESP8266, FALSE: AVR
  BeginMayFail,   \* EEPROM.begin() may fail (ESP32/ESP8266 only)
  CommitMayFail,  \* EEPROM.commit() may fail (ESP32/ESP8266 only)
  MaxLosses,      \* bound: power losses in a behaviour
  NoValue         \* stands for "no value yet"

Data  == [1..Width -> Byte]
Cells == 1..(Width + 4)

\* Header{magic, crc} at _address, the structure right after it.
Encode(d) == [i \in Cells |-> IF i <= 2 THEN Magic[i]
                              ELSE IF i <= 4 THEN CRC[d][i - 2] ELSE d[i - 4]]

\* The magic, the CRC and the structure that the cells of m hold.
MagicOf(m) == <<m[1], m[2]>>
CRCOf(m)   == <<m[3], m[4]>>
DataOf(m)  == [i \in 1..Width |-> m[i + 4]]

\* Mutants of Loads: the CRC is not compared, or the magic is not.
LoadsAnyCRC(m) == MagicOf(m) = Magic
LoadsAnyMagic(m) == CRC[DataOf(m)] = CRCOf(m)

\* load(): the magic is this store's and the CRC is the structure's.
Loads(m) == MagicOf(m) = Magic /\ CRC[DataOf(m)] = CRCOf(m)

ASSUME StoreAssumption ==
  /\ Width \in Nat \ {0}
  /\ Magic \in Word \X Word /\ CRC \in [Data -> Word \X Word]
  /\ NoValue \notin Data
  /\ Default \in Data /\ Zero \in Data
  /\ Buffered \in BOOLEAN
  /\ BeginMayFail \in BOOLEAN /\ CommitMayFail \in BOOLEAN
  /\ (BeginMayFail \/ CommitMayFail) => Buffered
  /\ MaxLosses \in Nat

\* What the cells may hold together.
Images == {m \in [Cells -> Word \cup Byte] :
             (\A i \in 1..4 : m[i] \in Word) /\ DataOf(m) \in Data}

ASSUME FactoryAssumption == Factory \subseteq Images

VARIABLES
  pc,        \* "idle": no call open, "put", "commit": in the open call
  op,        \* the call that is open, or was last
  k,         \* the next cell put() writes
  data,      \* the public member data
  mounted,   \* EEPROM.begin() has succeeded since the last reset
  image,     \* what EEPROM.get() and put() see
  durable,   \* what survives a power loss
  answer,    \* what the last begin() or save() returned, with data then
  confirmed, \* history: the last value written to the end
  attempts,  \* history: the values whose writing began after that
  losses     \* power losses so far

vars == <<pc, op, k, data, mounted, image, durable, answer,
          confirmed, attempts, losses>>

None == [call |-> "none", result |-> FALSE, value |-> NoValue]

Init ==
  /\ pc = "idle" /\ op = "none" /\ k = 1
  /\ data = Zero
  /\ mounted = FALSE
  /\ durable \in Factory
  /\ image = durable
  /\ answer = None
  /\ confirmed = NoValue
  /\ attempts = {}
  /\ losses = 0

-----------------------------------------------------------------------------
\* What get() reads and put() writes is there: after begin(), and always on AVR,
\* where the cells are.
HasMemory == mounted \/ ~Buffered

\* A call that ends without writing gives its answer in the same step.
Answer(call, result, value) ==
  /\ pc' = "idle"
  /\ op' = call
  /\ answer' = [call |-> call, result |-> result, value |-> value]
  /\ UNCHANGED <<k, losses>>

\* The two puts and the commit that save() and forceSave() end with.
StartWrite(call, value) ==
  /\ pc' = "put"
  /\ op' = call
  /\ k' = 1
  /\ data' = value
  /\ answer' = None
  /\ attempts' = attempts \cup {value}
  /\ UNCHANGED <<durable, confirmed, losses>>

\* Mutant of Fallback: data is not set to anything.
FallbackToNothing == NoValue

\* What begin() sets data to when nothing can be loaded.
Fallback == Default

\* begin() with EEPROM.begin() successful: the buffer is read anew, and the
\* cells are loaded or, when they do not pass load(), set to the defaults.
\* setup() calls it; a program may call others before it, and it again.
Begin ==
  /\ pc = "idle"
  /\ mounted' = TRUE
  /\ image' = durable
  /\ \/ /\ Loads(durable)
        /\ data' = DataOf(durable)
        /\ Answer("begin", TRUE, data')
        /\ UNCHANGED <<durable, confirmed, attempts>>
     \/ /\ ~Loads(durable)
        /\ StartWrite("begin", Fallback)

\* begin() with EEPROM.begin() failing returns before it touches data.
BeginFails ==
  /\ BeginMayFail
  /\ pc = "idle"
  /\ Answer("begin", FALSE, data)
  /\ UNCHANGED <<data, mounted, image, durable, confirmed, attempts>>

\* The program assigns the public member between two calls.
SetData ==
  /\ pc = "idle"
  /\ \E d \in Data \ {data} : data' = d
  /\ UNCHANGED <<pc, op, k, mounted, image, durable, answer,
                 confirmed, attempts, losses>>

\* Mutant of Unchanged: only the magic is compared.
UnchangedMagic == MagicOf(image) = Magic

\* save() compares the new header with the stored one.
Unchanged == MagicOf(image) = Magic /\ CRCOf(image) = CRC[data]

SaveSkips ==
  /\ pc = "idle" /\ HasMemory /\ Unchanged
  /\ Answer("save", FALSE, data)
  /\ UNCHANGED <<data, mounted, image, durable, confirmed, attempts>>

SaveWrites ==
  /\ pc = "idle" /\ HasMemory /\ ~Unchanged
  /\ StartWrite("save", data)
  /\ UNCHANGED <<mounted, image>>

\* Without a buffer get() leaves the header on the stack unset, put() does
\* nothing and commit() fails: the answer depends on what the stack held.
SaveUnmounted ==
  /\ pc = "idle" /\ ~HasMemory
  /\ \E result \in BOOLEAN : Answer("save", result, data)
  /\ UNCHANGED <<data, mounted, image, durable, confirmed, attempts>>

ForceSave ==
  /\ pc = "idle" /\ HasMemory
  /\ StartWrite("forceSave", data)
  /\ UNCHANGED <<mounted, image>>

Reset ==
  /\ pc = "idle" /\ HasMemory
  /\ StartWrite("reset", Default)
  /\ UNCHANGED <<mounted, image>>

ResetUnmounted ==
  /\ pc = "idle" /\ ~HasMemory
  /\ data' = Default
  /\ Answer("reset", FALSE, data')
  /\ UNCHANGED <<mounted, image, durable, confirmed, attempts>>

\* Mutant of LastCell: the structure's length is one too small.
LastCellShort == Width + 3

\* Where the structure ends.
LastCell == Width + 4

\* One byte of put(header) and then of put(data).  On AVR the last one ends the
\* write.
PutCell ==
  /\ pc = "put"
  /\ image' = [image EXCEPT ![k] = Encode(data)[k]]
  /\ durable' = IF Buffered THEN durable ELSE image'
  /\ k' = k + 1
  /\ pc' = IF k = LastCell THEN "commit" ELSE "put"
  /\ IF ~Buffered /\ k = LastCell
       THEN confirmed' = data /\ attempts' = {}
       ELSE UNCHANGED <<confirmed, attempts>>
  /\ UNCHANGED <<op, data, mounted, answer, losses>>

\* What the open call returns once commit() has returned; its result is
\* looked at by none of them.
Returned ==
  /\ pc' = "idle"
  /\ answer' = IF op \in {"begin", "save"}
                 THEN [call |-> op, result |-> op = "save", value |-> data]
                 ELSE None
  /\ UNCHANGED <<op, k, data, mounted, image, losses>>

Commit ==
  /\ pc = "commit"
  /\ Returned
  /\ IF Buffered
       THEN durable' = image /\ confirmed' = data /\ attempts' = {}
       ELSE UNCHANGED <<durable, confirmed, attempts>>

CommitFails ==
  /\ CommitMayFail
  /\ pc = "commit"
  /\ Returned
  /\ UNCHANGED <<durable, confirmed, attempts>>

\* The supply fails; what runs next is setup(), with the globals built anew.
PowerLoss ==
  /\ losses < MaxLosses
  /\ losses' = losses + 1
  /\ pc' = "idle" /\ op' = "none" /\ k' = 1
  /\ data' = Zero
  /\ mounted' = FALSE
  /\ image' = durable
  /\ answer' = None
  /\ UNCHANGED <<durable, confirmed, attempts>>

Store == Begin \/ PutCell \/ Commit \/ CommitFails
Next ==
  \/ Store \/ BeginFails \/ SetData
  \/ SaveSkips \/ SaveWrites \/ SaveUnmounted
  \/ ForceSave \/ Reset \/ ResetUnmounted
  \/ PowerLoss

Spec == Init /\ [][Next]_vars

\* After each reset the program calls begin() in the end, whatever it calls before,
\* and an open call runs to its end: the processor goes on executing it.
FairSpec ==
  /\ Spec
  /\ SF_vars(~mounted /\ Begin)
  /\ WF_vars(PutCell)
  /\ WF_vars(Commit \/ CommitFails)

-----------------------------------------------------------------------------
\* What load() may take for a value when those of K are the ones that were being
\* written.  Behind a buffer that is one of them, or what the cells held at first
\* if it has this store's header.  On AVR it is whatever has a CRC made of bytes of
\* theirs and of what the cells held at first: of a mixture, the two bytes of a CRC
\* tell no more.
CRCBytes(j, K) == {CRC[v][j] : v \in K} \cup {f[j + 2] : f \in Factory}
Alike(d, K) ==
  IF Buffered THEN d \in K \/ Encode(d) \in Factory
              ELSE \A j \in {1, 2} : CRC[d][j] \in CRCBytes(j, K)

\* What save() takes for the value that is there.
SameCRC(d, e) == CRC[d] = CRC[e]

\* The values a power loss may bring back: the last one written to the end, and
\* those whose writing began since.
Known == (attempts \cup {confirmed}) \ {NoValue}

\* The type of the store's state.
TypeOK ==
  /\ pc \in {"idle", "put", "commit"}
  /\ op \in {"none", "begin", "save", "forceSave", "reset"}
  /\ k \in 1..(Width + 5)
  /\ data \in Data
  /\ mounted \in BOOLEAN
  /\ image \in Images /\ durable \in Images
  /\ answer \in [call : {"none", "begin", "save", "reset"},
                 result : BOOLEAN, value : Data \cup {NoValue}]
  /\ confirmed \in Data \cup {NoValue}
  /\ attempts \subseteq Data
  /\ losses \in 0..MaxLosses

\* Whatever the moment of a power loss, what the next begin() would accept is
\* a value this store wrote: the last one written to the end, or one whose
\* writing began since.  Never an older one, and a mixture of two values or what
\* somebody else left in the cells only if the CRC cannot tell it from them.
RecoversKnown == Loads(durable) => Alike(DataOf(durable), Known)

\* A value written to the end stays in the cells until another write begins;
\* behind a RAM buffer it stays until another commit succeeds.
ConfirmedSurvives ==
  (confirmed # NoValue /\ (Buffered \/ attempts = {}))
    => durable = Encode(confirmed)

\* save() answers TRUE, "data was changed and has been written" (line 480):
\* after begin() the structure is in the cells for good.
SavedIsDurable ==
  (answer.call = "save" /\ answer.result /\ mounted)
    => Loads(durable) /\ DataOf(durable) = answer.value

\* Whatever save() answers after begin(), load() accepts what is in the cells, as
\* long as no failed commit has left the buffer different from them: the structure
\* itself when it was written, and when that was left out, one with its CRC.
AnswerHolds ==
  (answer.call = "save" /\ mounted /\ image = durable)
    => /\ Loads(durable)
       /\ SameCRC(DataOf(durable), answer.value)
       /\ answer.result => DataOf(durable) = answer.value

\* Recovery, durability and answers at once: the store recovers a value it was asked
\* to keep, a confirmed one survives, and its answers hold.
KeepsItsPromises == RecoversKnown /\ ConfirmedSurvives /\ AnswerHolds

\* begin() answers TRUE, "valid data was read from EEPROM" (line 460): data is
\* a value this store wrote.
LoadedIsOwn ==
  (answer.call = "begin" /\ answer.result)
    => answer.value \in attempts \cup {confirmed}

\* The cells always come back to a state that begin() accepts, however often
\* the power went in the middle of a write.
CellsComeBack == []<>Loads(durable)

\* The store is a ConfigCell: what load() would accept is the value of the
\* cell, atomic behind a RAM buffer, and an answer of save() after begin() tells
\* the program that its data is there, unless a failed commit left buffer and
\* cells apart.
Cell == INSTANCE ConfigCell WITH
  Atomic  <- Buffered,
  Same    <- SameCRC,
  known   <- Known,
  stored  <- IF Loads(durable) THEN DataOf(durable) ELSE NoValue,
  writing <- IF pc \in {"put", "commit"} THEN data ELSE NoValue,
  told    <- IF answer.call = "save" /\ mounted /\ image = durable
               THEN answer.value ELSE NoValue

ImplementsCell == Cell!Spec
=============================================================================
