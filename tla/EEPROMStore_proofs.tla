--------------------------- MODULE EEPROMStore_proofs ---------------------------
(***************************************************************************)
(* Type correctness of EEPROMStore, the safety of what it recovers after a *)
(* power loss, the truth of what it answers, and that it is a ConfigCell:  *)
(* for structures of any size, any CRC, any cells at first and either back *)
(* end.                                                                    *)
(***************************************************************************)
EXTENDS EEPROMStore, TLAPS

\* The open write: it runs on a mounted store, its value is on record, and
\* the cells before k hold it.
WriteInv ==
  /\ pc = "put" => k \in 1..(Width + 4) /\ data \in attempts
  /\ pc = "commit" => k = Width + 5 /\ (Buffered => data \in attempts)
  /\ pc \in {"put", "commit"} => \A i \in Cells : i < k => image[i] = Encode(data)[i]

\* The durable cells.  Behind a buffer they are the factory's or the confirmed
\* value's; without one, each byte of their CRC is a known value's or the factory's.
CellsInv ==
  /\ ~Buffered => image = durable
  /\ Buffered => \/ confirmed = NoValue /\ durable \in Factory
                 \/ confirmed \in Data /\ durable = Encode(confirmed)
  /\ ~Buffered => \A j \in {1, 2} : durable[j + 2] \in CRCBytes(j, Known)

IInv == TypeOK /\ WriteInv /\ CellsInv /\ ConfirmedSurvives

-----------------------------------------------------------------------------
\* Where the bytes of an encoded structure are.
LEMMA EncodeCells ==
  ASSUME NEW d \in Data
  PROVE  /\ 1 \in Cells /\ 2 \in Cells /\ 3 \in Cells /\ 4 \in Cells
         /\ \A i \in 1..Width : i + 4 \in Cells
         /\ Encode(d)[1] = Magic[1] /\ Encode(d)[2] = Magic[2]
         /\ Encode(d)[3] = CRC[d][1] /\ Encode(d)[4] = CRC[d][2]
         /\ \A i \in 1..Width : Encode(d)[i + 4] = d[i]
<1>1. /\ 1 \in Cells /\ 2 \in Cells /\ 3 \in Cells /\ 4 \in Cells
      /\ \A i \in 1..Width : i + 4 \in Cells /\ ~(i + 4 <= 2) /\ ~(i + 4 <= 4)
                               /\ (i + 4) - 4 = i
  BY StoreAssumption DEF Cells
<1>2. \A i \in Cells : Encode(d)[i] = IF i <= 2 THEN Magic[i]
                        ELSE IF i <= 4 THEN CRC[d][i - 2] ELSE d[i - 4]
  BY DEF Encode
<1>3. 3 - 2 = 1 /\ 4 - 2 = 2 /\ 1 <= 2 /\ ~(3 <= 2) /\ ~(4 <= 2) /\ 3 <= 4
  OBVIOUS
<1> QED BY <1>1, <1>2, <1>3

\* The magic and a CRC are two bytes of a header each.
LEMMA HeaderTypes ==
  ASSUME NEW d \in Data
  PROVE  /\ Magic = <<Magic[1], Magic[2]>> /\ CRC[d] = <<CRC[d][1], CRC[d][2]>>
         /\ Magic[1] \in Word /\ Magic[2] \in Word
         /\ CRC[d][1] \in Word /\ CRC[d][2] \in Word
<1>1. Magic \in Word \X Word /\ CRC[d] \in Word \X Word
  BY StoreAssumption
<1> QED BY <1>1

\* The cells of an encoded structure are an image, and hold that structure.
LEMMA EncodeImage ==
  ASSUME NEW d \in Data
  PROVE  /\ Encode(d) \in Images
         /\ DataOf(Encode(d)) = d
         /\ Loads(Encode(d))
<1>1. DataOf(Encode(d)) = d
  BY EncodeCells DEF DataOf, Data
<1>2. MagicOf(Encode(d)) = Magic /\ CRCOf(Encode(d)) = CRC[d]
  BY EncodeCells, HeaderTypes DEF MagicOf, CRCOf
<1>3. \A i \in 1..4 : Encode(d)[i] \in Word
  <2>1. \A i \in 1..4 : i = 1 \/ i = 2 \/ i = 3 \/ i = 4
    OBVIOUS
  <2> QED BY <2>1, EncodeCells, HeaderTypes
<1>4. \A i \in Cells : Encode(d)[i] \in Word \cup Byte
  <2>1. \A i \in Cells : i \in 1..4 \/ (i - 4 \in 1..Width /\ (i - 4) + 4 = i)
    BY StoreAssumption DEF Cells
  <2>2. \A i \in 1..Width : Encode(d)[i + 4] \in Byte
    BY EncodeCells DEF Data
  <2> QED BY <1>3, <2>1, <2>2
<1>5. Encode(d) \in [Cells -> Word \cup Byte]
  BY <1>4 DEF Encode
<1> QED BY <1>1, <1>2, <1>3, <1>5 DEF Images, Loads

\* Writing one cell of an encoded structure over an image gives an image.
LEMMA PutImage ==
  ASSUME NEW d \in Data, NEW m \in Images, NEW i \in Cells
  PROVE  [m EXCEPT ![i] = Encode(d)[i]] \in Images
<1> DEFINE n == [m EXCEPT ![i] = Encode(d)[i]]
<1>1. /\ m \in [Cells -> Word \cup Byte] /\ \A j \in 1..4 : m[j] \in Word
      /\ DataOf(m) \in Data
  BY DEF Images
<1>2. /\ Encode(d) \in [Cells -> Word \cup Byte]
      /\ \A j \in 1..4 : Encode(d)[j] \in Word
  BY EncodeImage DEF Images
<1>3. (\A j \in 1..4 : j \in Cells) /\ \A j \in 1..Width : j + 4 \in Cells
  BY StoreAssumption DEF Cells
<1>4. \A j \in Cells : n[j] = IF j = i THEN Encode(d)[j] ELSE m[j]
  BY <1>1
<1>5. n \in [Cells -> Word \cup Byte] /\ \A j \in 1..4 : n[j] \in Word
  BY <1>1, <1>2, <1>3, <1>4
<1>6. \A j \in 1..Width : Encode(d)[j + 4] = d[j]
  BY EncodeCells
<1>7. \A j \in 1..Width : m[j + 4] \in Byte /\ d[j] \in Byte
  <2>1. \A j \in 1..Width : DataOf(m)[j] \in Byte
    BY <1>1 DEF Data
  <2> QED BY <2>1 DEF DataOf, Data
<1>8. \A j \in 1..Width : n[j + 4] \in Byte
  BY <1>3, <1>4, <1>6, <1>7
<1>9. DataOf(n) \in Data
  BY <1>8 DEF DataOf, Data
<1> QED BY <1>5, <1>9 DEF Images

\* More values are known, and what could be in the CRC's cells still can.
LEMMA MoreBytes ==
  ASSUME NEW K, NEW L, K \subseteq L, NEW j
  PROVE  CRCBytes(j, K) \subseteq CRCBytes(j, L)
BY DEF CRCBytes

\* What begin() and save() may have answered.
Answers == [call : {"none", "begin", "save", "reset"},
            result : BOOLEAN, value : Data \cup {NoValue}]

LEMMA AnswerTypes ==
  /\ None \in Answers
  /\ \A d \in Data, call \in {"begin", "save"}, result \in BOOLEAN :
       [call |-> call, result |-> result, value |-> d] \in Answers
<1>1. FALSE \in BOOLEAN
  OBVIOUS
<1> QED BY <1>1, Zenon DEF None, Answers

-----------------------------------------------------------------------------
LEMMA InitInv == Init => IInv
<1> SUFFICES ASSUME Init PROVE IInv
  OBVIOUS
<1>1. durable \in Images
  BY FactoryAssumption DEF Init
<1>2. TypeOK
  <2>1. answer \in Answers
    BY AnswerTypes DEF Init
  <2>2. k \in 1..(Width + 5) /\ losses \in 0..MaxLosses
    BY StoreAssumption DEF Init
  <2> QED BY <1>1, <2>1, <2>2, StoreAssumption DEF Init, TypeOK, Answers
<1>3. CellsInv
  BY DEF Init, CellsInv, CRCBytes
<1> QED BY <1>2, <1>3 DEF IInv, Init, WriteInv, ConfirmedSurvives

\* What every call that starts a write leaves.
LEMMA StartWriteInv ==
  ASSUME IInv, NEW call \in {"begin", "save", "forceSave", "reset"},
         NEW d \in Data, StartWrite(call, d),
         mounted' \in BOOLEAN, image' \in {image, durable}
  PROVE  IInv'
<1> USE DEF IInv
<1>1. TypeOK'
  BY StoreAssumption DEF TypeOK, StartWrite, None
<1>2. WriteInv'
  BY StoreAssumption DEF StartWrite, WriteInv, Cells
<1>3. CellsInv'
  <2>1. Known \subseteq Known'
    BY DEF StartWrite, Known
  <2> QED BY <2>1, MoreBytes DEF StartWrite, CellsInv
<1>4. ConfirmedSurvives'
  BY DEF StartWrite, ConfirmedSurvives
<1> QED BY <1>1, <1>2, <1>3, <1>4

\* What every call that writes nothing leaves.
LEMMA AnswerInv ==
  ASSUME IInv, NEW call \in {"begin", "save", "reset"}, NEW result \in BOOLEAN,
         Answer(call, result, data'), data' \in Data,
         mounted' \in BOOLEAN, image' \in {image, durable},
         UNCHANGED <<durable, confirmed, attempts>>
  PROVE  IInv'
<1> USE DEF IInv
<1>1. TypeOK'
  BY DEF TypeOK, Answer
<1>2. WriteInv'
  BY DEF Answer, WriteInv
<1>3. CellsInv'
  BY DEF CellsInv, Known
<1>4. ConfirmedSurvives'
  BY DEF ConfirmedSurvives
<1> QED BY <1>1, <1>2, <1>3, <1>4

\* After the last cell of put(data) the image is the encoded structure.
LEMMA LastPut ==
  ASSUME NEW d \in Data, NEW m \in Images,
         \A i \in Cells : i < Width + 4 => m[i] = Encode(d)[i]
  PROVE  [m EXCEPT ![Width + 4] = Encode(d)[Width + 4]] = Encode(d)
<1>1. m \in [Cells -> Word \cup Byte] /\ Encode(d) \in [Cells -> Word \cup Byte]
  BY EncodeImage DEF Images
<1>2. \A i \in Cells : i # Width + 4 => i < Width + 4
  BY StoreAssumption DEF Cells
<1> QED BY <1>1, <1>2

LEMMA PutCellInv ==
  ASSUME IInv, PutCell PROVE IInv'
<1> USE DEF IInv
<1>1. /\ k \in Cells /\ data \in Data /\ data \in attempts /\ image \in Images
      /\ durable \in Images
      /\ image' = [image EXCEPT ![k] = Encode(data)[k]]
  BY DEF PutCell, LastCell, WriteInv, TypeOK, Cells
<1>2. image' \in Images
  BY <1>1, PutImage
<1>3. durable' \in Images
  BY <1>1, <1>2 DEF PutCell, LastCell
<1>4. k + 1 \in 1..(Width + 5) /\ (k # Width + 4 => k + 1 \in 1..(Width + 4))
  BY <1>1, StoreAssumption DEF Cells
<1>5. TypeOK'
  BY <1>1, <1>2, <1>3, <1>4 DEF TypeOK, PutCell, LastCell
<1>6. \A i \in Cells : image'[i] = IF i = k THEN Encode(data)[i] ELSE image[i]
  BY <1>1 DEF Images
<1>7. \A i \in Cells : i < k + 1 => image'[i] = Encode(data)[i]
  <2>1. \A i \in Cells : i < k + 1 => i = k \/ i < k
    BY <1>1 DEF Cells
  <2> QED BY <2>1, <1>6 DEF WriteInv, PutCell, LastCell
<1>8. WriteInv'
  <2>1. k' = k + 1 /\ pc' \in {"put", "commit"} /\ data' = data
    BY DEF PutCell, LastCell
  <2>2. pc' = "put" => k' \in 1..(Width + 4) /\ data' \in attempts'
    BY <1>1, <1>4, <2>1 DEF PutCell, LastCell
  <2>3. pc' = "commit" => k' = Width + 5 /\ (Buffered => data' \in attempts')
    BY <1>1, <2>1, StoreAssumption DEF PutCell, LastCell, Cells
  <2>4. \A i \in Cells : i < k' => image'[i] = Encode(data')[i]
    BY <1>7, <2>1
  <2> QED BY <2>2, <2>3, <2>4 DEF WriteInv
<1>9. CASE Buffered
  <2>1. CellsInv'
    BY <1>9 DEF CellsInv, PutCell, LastCell
  <2>2. ConfirmedSurvives'
    BY <1>9 DEF ConfirmedSurvives, PutCell, LastCell
  <2> QED BY <1>5, <1>8, <2>1, <2>2
<1>10. CASE ~Buffered
  <2>1. durable' = image' /\ image = durable
    BY <1>10 DEF PutCell, LastCell, CellsInv
  <2>2. data \in Known'
    BY <1>1, <1>10, StoreAssumption DEF PutCell, LastCell, Known
  <2>3. CellsInv'
    <3>1. SUFFICES ASSUME NEW j \in {1, 2}
                   PROVE  durable'[j + 2] \in CRCBytes(j, Known')
      BY <1>10, <2>1 DEF CellsInv
    <3>2. j + 2 \in Cells /\ Encode(data)[j + 2] = CRC[data][j]
      BY <1>1, EncodeCells
    <3>3. CASE j + 2 < k + 1
      <4>1. durable'[j + 2] = CRC[data][j]
        BY <1>7, <2>1, <3>2, <3>3
      <4> QED BY <2>2, <4>1 DEF CRCBytes
    <3>4. CASE ~(j + 2 < k + 1)
      <4>1. j + 2 # k /\ k # Width + 4
        BY <1>1, <3>4, StoreAssumption DEF Cells
      <4>2. durable'[j + 2] = durable[j + 2]
        BY <1>6, <2>1, <3>2, <4>1
      <4>3. Known' = Known
        BY <4>1 DEF PutCell, LastCell, Known
      <4> QED BY <1>10, <4>2, <4>3 DEF CellsInv
    <3> QED BY <3>3, <3>4
  <2>4. CASE k = Width + 4
    <3>1. \A i \in Cells : i < Width + 4 => image[i] = Encode(data)[i]
      BY <2>4 DEF WriteInv, PutCell, LastCell
    <3>2. image' = Encode(data)
      BY <3>1, <2>4, <1>1, LastPut
    <3>3. ConfirmedSurvives'
      BY <3>2, <2>1, <1>10, <2>4 DEF ConfirmedSurvives, PutCell, LastCell
    <3> QED BY <1>5, <1>8, <2>3, <3>3
  <2>5. CASE k # Width + 4
    <3>1. ConfirmedSurvives'
      BY <1>1, <1>10, <2>5 DEF ConfirmedSurvives, PutCell, LastCell
    <3> QED BY <1>5, <1>8, <2>3, <3>1
  <2> QED BY <2>4, <2>5
<1> QED BY <1>9, <1>10

\* The end of a call, with the commit done or refused.
LEMMA CommitInv ==
  ASSUME IInv, Commit \/ CommitFails PROVE IInv'
<1> USE DEF IInv
<1>1. TypeOK'
  <2>1. ASSUME op \in {"begin", "save"} PROVE answer' \in Answers
    <3>1. (op = "save") \in BOOLEAN /\ data \in Data
      BY DEF TypeOK
    <3>2. answer' = [call |-> op, result |-> op = "save", value |-> data]
      BY <2>1 DEF Commit, CommitFails, Returned
    <3> QED BY <2>1, <3>1, <3>2, AnswerTypes, Zenon
  <2>2. ASSUME op \notin {"begin", "save"} PROVE answer' \in Answers
    BY <2>2, AnswerTypes DEF Commit, CommitFails, Returned
  <2>3. answer' \in Answers
    BY <2>1, <2>2
  <2> QED BY <2>3 DEF Commit, CommitFails, Returned, TypeOK, Answers
<1>2. WriteInv'
  BY DEF Commit, CommitFails, Returned, WriteInv
<1>3. CASE CommitFails
  <2>1. CellsInv' /\ ConfirmedSurvives'
    BY <1>3 DEF CommitFails, Returned, CellsInv, Known, ConfirmedSurvives
  <2> QED BY <1>1, <1>2, <2>1
<1>4. CASE Commit /\ ~Buffered
  <2>1. CellsInv' /\ ConfirmedSurvives'
    BY <1>4 DEF Commit, Returned, CellsInv, Known, ConfirmedSurvives
  <2> QED BY <1>1, <1>2, <2>1
<1>5. CASE Commit /\ Buffered
  <2>1. \A i \in Cells : image[i] = Encode(data)[i]
    <3>1. \A i \in Cells : i < Width + 5
      BY StoreAssumption DEF Cells
    <3> QED BY <3>1, <1>5 DEF WriteInv, Commit
  <2>2. /\ image \in [Cells -> Word \cup Byte]
        /\ Encode(data) \in [Cells -> Word \cup Byte]
    BY EncodeImage DEF TypeOK, Images
  <2>3. image = Encode(data)
    BY <2>1, <2>2
  <2>4. durable' = Encode(confirmed') /\ confirmed' \in Data
    BY <2>3, <1>5 DEF Commit, Returned, TypeOK
  <2> QED BY <1>1, <1>2, <1>5, <2>4 DEF CellsInv, ConfirmedSurvives
<1> QED BY <1>3, <1>4, <1>5

LEMMA NextInv == IInv /\ [Next]_vars => IInv'
<1> SUFFICES ASSUME IInv, [Next]_vars PROVE IInv'
  OBVIOUS
<1> USE StoreAssumption DEF IInv
<1>1. data \in Data /\ mounted \in BOOLEAN /\ Default \in Data
  BY DEF TypeOK
<1>2. CASE Begin
  <2>1. CASE Loads(durable)
    <3>1. DataOf(durable) \in Data
      BY DEF TypeOK, Images
    <3> QED BY <1>2, <2>1, <3>1, AnswerInv DEF Begin, Fallback, StartWrite
  <2>2. CASE ~Loads(durable)
    BY <1>1, <1>2, <2>2, StartWriteInv DEF Begin, Fallback
  <2> QED BY <2>1, <2>2
<1>3. CASE BeginFails
  BY <1>1, <1>3, AnswerInv DEF BeginFails
<1>4. CASE SetData
  <2>1. data' \in Data /\ TypeOK'
    BY <1>4 DEF SetData, TypeOK
  <2>2. WriteInv' /\ CellsInv' /\ ConfirmedSurvives'
    BY <1>4 DEF SetData, WriteInv, CellsInv, ConfirmedSurvives, Known
  <2> QED BY <2>1, <2>2
<1>5. CASE SaveSkips
  BY <1>1, <1>5, AnswerInv DEF SaveSkips
<1>6. CASE SaveUnmounted
  BY <1>1, <1>6, AnswerInv DEF SaveUnmounted
<1>7. CASE ResetUnmounted
  BY <1>1, <1>7, AnswerInv DEF ResetUnmounted
<1>8. CASE SaveWrites
  BY <1>1, <1>8, StartWriteInv DEF SaveWrites
<1>9. CASE ForceSave
  BY <1>1, <1>9, StartWriteInv DEF ForceSave
<1>10. CASE Reset
  BY <1>1, <1>10, StartWriteInv DEF Reset
<1>11. CASE PutCell
  BY <1>11, PutCellInv
<1>12. CASE Commit \/ CommitFails
  BY <1>12, CommitInv
<1>13. CASE PowerLoss
  <2>1. TypeOK'
    <3>1. answer' \in Answers
      BY <1>13, AnswerTypes DEF PowerLoss
    <3>2. losses' \in 0..MaxLosses /\ k' \in 1..(Width + 5)
      BY <1>13 DEF PowerLoss, TypeOK
    <3> QED BY <1>13, <3>1, <3>2 DEF PowerLoss, TypeOK, Answers
  <2>2. WriteInv' /\ CellsInv' /\ ConfirmedSurvives'
    BY <1>13 DEF PowerLoss, WriteInv, CellsInv, ConfirmedSurvives, Known
  <2> QED BY <2>1, <2>2
<1>14. CASE UNCHANGED vars
  BY <1>14 DEF vars, TypeOK, WriteInv, CellsInv, Known, ConfirmedSurvives
<1> QED
  BY <1>2, <1>3, <1>4, <1>5, <1>6, <1>7, <1>8, <1>9, <1>10, <1>11, <1>12,
     <1>13, <1>14 DEF Next, Store

\* The inductive invariant holds in every behaviour.
LEMMA Inductive == Spec => []IInv
<1> QED BY InitInv, NextInv, PTL DEF Spec

-----------------------------------------------------------------------------
\* Every variable keeps its type: in particular the cells always hold words of
\* this store or of the factory, and data a structure.
THEOREM TypeCorrect == Spec => []TypeOK
<1>1. IInv => TypeOK
  BY DEF IInv
<1> QED BY <1>1, Inductive, PTL

\* A confirmed value stays in the cells until another write begins (AVR) or
\* succeeds (ESP32/ESP8266), whatever power losses and refused commits occur.
THEOREM ConfirmedSafe == Spec => []ConfirmedSurvives
<1>1. IInv => ConfirmedSurvives
  BY DEF IInv
<1> QED BY <1>1, Inductive, PTL

\* Cells that load() accepts are the cells of the structure there.
LEMMA LoadedCells ==
  ASSUME NEW m \in Images, Loads(m)
  PROVE  \A i \in Cells : Encode(DataOf(m))[i] = m[i]
<1> DEFINE d == DataOf(m)
<1>1. d \in Data
  BY DEF Images
<1>2. Magic[1] = m[1] /\ Magic[2] = m[2] /\ CRC[d][1] = m[3] /\ CRC[d][2] = m[4]
  BY DEF Loads, MagicOf, CRCOf
<1>3. \A i \in 1..Width : d[i] = m[i + 4]
  BY DEF DataOf
<1>4. \A i \in Cells : \/ i = 1 \/ i = 2 \/ i = 3 \/ i = 4
                       \/ i - 4 \in 1..Width /\ (i - 4) + 4 = i
  BY StoreAssumption DEF Cells
<1> QED BY <1>1, <1>2, <1>3, <1>4, EncodeCells

\* What begin() would accept, in any state of the store.
LEMMA LoadsKnown ==
  ASSUME IInv PROVE RecoversKnown
<1> SUFFICES ASSUME Loads(durable) PROVE Alike(DataOf(durable), Known)
  BY DEF RecoversKnown
<1> DEFINE d == DataOf(durable)
<1>1. d \in Data /\ durable \in Images
  BY DEF IInv, TypeOK, Images
<1>2. CASE Buffered
  <2>1. CASE confirmed \in Data /\ durable = Encode(confirmed)
    <3>1. d = confirmed /\ confirmed # NoValue
      BY <2>1, EncodeImage, StoreAssumption
    <3> QED BY <1>2, <3>1 DEF Alike, Known
  <2>2. CASE durable \in Factory
    <3>1. \A i \in Cells : Encode(d)[i] = durable[i]
      BY <1>1, LoadedCells
    <3>2. Encode(d) = durable
      <4>1. /\ Encode(d) \in [Cells -> Word \cup Byte]
            /\ durable \in [Cells -> Word \cup Byte]
        BY <1>1, EncodeImage DEF Images
      <4> QED BY <3>1, <4>1
    <3> QED BY <1>2, <2>2, <3>2 DEF Alike
  <2> QED BY <1>2, <2>1, <2>2 DEF IInv, CellsInv
<1>3. CASE ~Buffered
  <2>1. CRC[d][1] = durable[3] /\ CRC[d][2] = durable[4]
    BY DEF Loads, CRCOf
  <2>2. \A j \in {1, 2} : CRC[d][j] \in CRCBytes(j, Known)
    BY <1>3, <2>1 DEF IInv, CellsInv
  <2> QED BY <1>3, <2>2 DEF Alike
<1> QED BY <1>2, <1>3

\* A power loss at any moment leaves cells from which the next begin() takes the
\* confirmed value or one written since: behind a buffer exactly, or what the cells
\* held at first with this store's header; on AVR as far as the bytes of a CRC tell.
THEOREM Recovery == Spec => []RecoversKnown
<1>1. IInv => RecoversKnown
  BY LoadsKnown
<1> QED BY <1>1, Inductive, PTL

-----------------------------------------------------------------------------
\* No answer is given while a write is open; a store that was mounted has an image
\* that load() accepts between two calls; and the answer of save() is true.
ToldInv ==
  /\ pc \in {"put", "commit"} => answer = None
  /\ pc = "idle" /\ mounted => Loads(image)
  /\ AnswerHolds

\* At the end of the puts the image is the encoded structure.
LEMMA WholeImage ==
  ASSUME IInv, pc = "commit" PROVE image = Encode(data)
<1>1. \A i \in Cells : i < Width + 5
  BY StoreAssumption DEF Cells
<1>2. \A i \in Cells : image[i] = Encode(data)[i]
  BY <1>1 DEF IInv, WriteInv
<1>3. image \in [Cells -> Word \cup Byte] /\ Encode(data) \in [Cells -> Word \cup Byte]
  BY EncodeImage DEF IInv, TypeOK, Images
<1> QED BY <1>2, <1>3

LEMMA ToldInit ==
  ASSUME Init PROVE ToldInv
BY DEF Init, ToldInv, AnswerHolds, None

LEMMA ToldStep ==
  ASSUME IInv, ToldInv, [Next]_vars
  PROVE  ToldInv'
<1> USE DEF ToldInv
<1>1. CASE Begin
  BY <1>1 DEF Begin, Answer, StartWrite, None, AnswerHolds
<1>2. CASE BeginFails \/ SaveUnmounted \/ ResetUnmounted
  BY <1>2 DEF BeginFails, SaveUnmounted, ResetUnmounted, Answer, AnswerHolds, HasMemory
<1>3. CASE SetData
  BY <1>3 DEF SetData, AnswerHolds
<1>4. CASE SaveSkips
  <2>1. /\ pc' = "idle" /\ answer'.call = "save" /\ ~answer'.result
        /\ answer'.value = data /\ UNCHANGED <<image, durable, mounted>>
    BY <1>4 DEF SaveSkips, Answer
  <2>2. ASSUME mounted PROVE Loads(image) /\ CRC[DataOf(image)] = CRC[data]
    BY <1>4, <2>2 DEF SaveSkips, Unchanged, Loads
  <2> QED BY <2>1, <2>2 DEF AnswerHolds, SameCRC
<1>5. CASE SaveWrites \/ ForceSave \/ Reset
  BY <1>5 DEF SaveWrites, ForceSave, Reset, StartWrite, None, AnswerHolds
<1>6. CASE PutCell
  <2>1. pc' \in {"put", "commit"} /\ answer' = None
    BY <1>6 DEF PutCell
  <2> QED BY <2>1 DEF AnswerHolds, None
<1>7. CASE Commit \/ CommitFails
  <2>1. image = Encode(data) /\ data \in Data
    BY <1>7, WholeImage DEF Commit, CommitFails, IInv, TypeOK
  <2>2. Loads(image) /\ DataOf(image) = data
    BY <2>1, EncodeImage
  <2>3. /\ pc' = "idle" /\ image' = image /\ mounted' = mounted
        /\ answer'.call = "save" => answer'.value = data
    BY <1>7 DEF Commit, CommitFails, Returned, None
  <2> QED BY <2>2, <2>3 DEF AnswerHolds, SameCRC
<1>8. CASE PowerLoss
  BY <1>8 DEF PowerLoss, None, AnswerHolds
<1>9. CASE UNCHANGED vars
  BY <1>9 DEF vars, AnswerHolds
<1> QED BY <1>1, <1>2, <1>3, <1>4, <1>5, <1>6, <1>7, <1>8, <1>9 DEF Next, Store

LEMMA ToldInductive == Spec => [](IInv /\ ToldInv)
<1>1. Init => ToldInv
  BY ToldInit
<1>2. IInv /\ ToldInv /\ [Next]_vars => ToldInv'
  BY ToldStep
<1> QED BY <1>1, <1>2, Inductive, PTL DEF Spec

\* What save() answers after begin() is so, unless a refused commit left the buffer
\* and the cells apart: a structure that was written is in the cells, and one that
\* was not has the CRC of the one that is there.
THEOREM AnswersAreTrue == Spec => []AnswerHolds
<1>1. ToldInv => AnswerHolds
  BY DEF ToldInv
<1> QED BY <1>1, ToldInductive, PTL

\* All that the store promises of what is in its cells holds together, for a
\* buffered EEPROM as for one that writes its cells at once.
THEOREM PromisesKept == Spec => []KeepsItsPromises
<1>1. RecoversKnown /\ ConfirmedSurvives /\ AnswerHolds => KeepsItsPromises
  BY DEF KeepsItsPromises
<1> QED BY <1>1, Recovery, ConfirmedSafe, AnswersAreTrue, PTL

-----------------------------------------------------------------------------
\* The variables of the cell that the store is; Known is the fourth.
Stored  == IF Loads(durable) THEN DataOf(durable) ELSE NoValue
Writing == IF pc \in {"put", "commit"} THEN data ELSE NoValue
Told    == IF answer.call = "save" /\ mounted /\ image = durable
             THEN answer.value ELSE NoValue

\* The cell's actions in these terms.
LEMMA CellStart ==
  ASSUME Writing = NoValue, Writing' \in Data, Known' = Known \cup {Writing'},
         Told' = NoValue, Stored' = Stored
  PROVE  Cell!Next
BY DEF Cell!Next, Cell!Start, Stored, Writing, Told

LEMMA CellDamage ==
  ASSUME ~Buffered, Writing # NoValue, Writing' = Writing, Told' = Told,
         Known' = Known, Stored' \in Cell!Shown(Known)
  PROVE  Cell!Next
BY DEF Cell!Next, Cell!Damage, Stored, Writing, Told

LEMMA CellArrive ==
  ASSUME ~Buffered, Writing # NoValue, Writing' = Writing, Told' = Told,
         Known' = {Writing}, Stored' = Writing
  PROVE  Cell!Next
BY DEF Cell!Next, Cell!Arrive, Stored, Writing, Told

LEMMA CellEnd ==
  ASSUME Writing # NoValue, Writing' = NoValue, Stored' = Writing,
         Known' = {Writing}, Told' \in {Writing, NoValue}
  PROVE  Cell!Next
BY DEF Cell!Next, Cell!End, Stored, Writing, Told

LEMMA CellFail ==
  ASSUME Writing # NoValue, Writing' = NoValue, Stored = Writing, Stored' = Stored,
         Known' = Known, Told' \in {Writing, NoValue}
  PROVE  Cell!Next
BY DEF Cell!Next, Cell!FailUnneeded, Stored, Writing, Told

LEMMA CellSkip ==
  ASSUME Writing = NoValue, Writing' = NoValue, Stored # NoValue, Stored' = Stored,
         Known' = Known, Told' \in Data, SameCRC(Stored, Told')
  PROVE  Cell!Next
BY DEF Cell!Next, Cell!Skip, Stored, Writing, Told

LEMMA CellInterrupt ==
  ASSUME Writing' = NoValue, Told' = NoValue, Stored' = Stored, Known' = Known
  PROVE  Cell!Next
BY DEF Cell!Next, Cell!Interrupt, Stored, Writing, Told

LEMMA CellStutters ==
  ASSUME Writing' = Writing, Told' = Told, Stored' = Stored, Known' = Known
  PROVE  [Cell!Next]_(Cell!cell)
BY DEF Cell!cell, Stored, Writing, Told

\* Every step of the store is one of the cell, or changes nothing of it.
LEMMA CellStep ==
  ASSUME IInv, ToldInv, [Next]_vars, IInv', RecoversKnown'
  PROVE  [Cell!Next]_(Cell!cell)
<1>1. /\ data \in Data /\ Default \in Data /\ NoValue \notin Data
      /\ DataOf(durable) \in Data
  BY StoreAssumption DEF IInv, TypeOK, Images
<1>2. UNCHANGED durable => Stored' = Stored
  BY DEF Stored
<1>3. answer'.call # "save" => Told' = NoValue
  BY DEF Told
<1>4. UNCHANGED <<attempts, confirmed>> => Known' = Known
  BY DEF Known
<1>5. ASSUME NEW call, NEW d \in Data, StartWrite(call, d), pc = "idle"
      PROVE  [Cell!Next]_(Cell!cell)
  <2>1. pc' = "put" /\ data' = d /\ answer' = None /\ UNCHANGED durable
    BY <1>5 DEF StartWrite
  <2>2. Writing = NoValue /\ Writing' = d
    BY <1>5, <2>1 DEF Writing
  <2>3. Told' = NoValue
    BY <1>3, <2>1 DEF None
  <2>4. Known' = Known \cup {d}
    BY <1>1, <1>5 DEF StartWrite, Known
  <2> QED BY <1>2, <2>1, <2>2, <2>3, <2>4, CellStart
<1>6. CASE Begin /\ ~Loads(durable)
  BY <1>1, <1>5, <1>6 DEF Begin, Fallback
<1>7. CASE Begin /\ Loads(durable)
  BY <1>2, <1>3, <1>4, <1>7, CellInterrupt DEF Begin, Answer, Writing
<1>8. CASE BeginFails \/ ResetUnmounted
  BY <1>2, <1>3, <1>4, <1>8, CellInterrupt
     DEF BeginFails, ResetUnmounted, Answer, Writing
<1>9. CASE SetData
  <2>1. Told' = Told /\ Writing' = Writing
    BY <1>9 DEF SetData, Told, Writing
  <2> QED BY <1>2, <1>4, <1>9, <2>1, CellStutters DEF SetData
<1>10. CASE SaveSkips
  <2>1. /\ pc = "idle" /\ pc' = "idle" /\ UNCHANGED <<durable, image, mounted>>
        /\ answer'.call = "save" /\ answer'.value = data
        /\ UNCHANGED <<attempts, confirmed>>
    BY <1>10 DEF SaveSkips, Answer
  <2>2. Writing = NoValue /\ Writing' = NoValue
    BY <2>1 DEF Writing
  <2>3. CASE mounted /\ image = durable
    <3>1. Loads(durable) /\ SameCRC(DataOf(durable), data)
      BY <1>10, <2>1, <2>3 DEF ToldInv, SaveSkips, Unchanged, Loads, SameCRC
    <3>2. Stored = DataOf(durable) /\ Told' = data
      BY <2>1, <2>3, <3>1 DEF Stored, Told
    <3> QED BY <1>1, <1>2, <1>4, <2>1, <2>2, <3>1, <3>2, CellSkip
  <2>4. CASE ~(mounted /\ image = durable)
    <3>1. Told' = NoValue
      BY <2>1, <2>4 DEF Told
    <3> QED BY <1>2, <1>4, <2>1, <2>2, <3>1, CellInterrupt
  <2> QED BY <2>3, <2>4
<1>11. CASE SaveUnmounted
  <2>1. /\ Told' = NoValue /\ Writing' = NoValue
        /\ UNCHANGED <<durable, attempts, confirmed>>
    BY <1>11 DEF SaveUnmounted, Answer, Told, Writing, HasMemory
  <2> QED BY <1>2, <1>4, <2>1, CellInterrupt
<1>12. CASE SaveWrites \/ ForceSave \/ Reset
  BY <1>1, <1>5, <1>12 DEF SaveWrites, ForceSave, Reset
<1>13. CASE PutCell
  <2>1. /\ Writing = data /\ Writing' = data
        /\ answer = None /\ answer' = None
    BY <1>13 DEF PutCell, Writing, ToldInv
  <2>2. Told = NoValue /\ Told' = NoValue
    BY <2>1 DEF Told, None
  <2>3. CASE Buffered
    BY <1>2, <1>4, <1>13, <2>1, <2>2, <2>3, CellStutters DEF PutCell
  <2>4. CASE ~Buffered /\ k # LastCell
    <3>1. Known' = Known
      BY <1>4, <1>13, <2>4 DEF PutCell
    <3>2. Loads(durable') => /\ DataOf(durable') \in Data
                            /\ Alike(DataOf(durable'), Known)
      BY <3>1 DEF RecoversKnown, Alike, IInv, TypeOK, Images
    <3>3. Stored' \in Cell!Shown(Known)
      BY <3>2 DEF Stored, Cell!Shown
    <3> QED BY <1>1, <2>1, <2>2, <2>4, <3>1, <3>3, CellDamage
  <2>5. CASE ~Buffered /\ k = LastCell
    <3>1. pc' = "commit" /\ durable' = image' /\ data' = data
      BY <1>13, <2>5 DEF PutCell
    <3>2. image' = Encode(data)
      BY <1>1, <1>13, <2>5, LastPut
         DEF PutCell, LastCell, IInv, TypeOK, WriteInv
    <3>3. Stored' = data
      BY <1>1, <3>1, <3>2, EncodeImage DEF Stored
    <3>4. Known' = {data}
      BY <1>1, <1>13, <2>5 DEF PutCell, Known
    <3> QED BY <1>1, <2>1, <2>2, <2>5, <3>3, <3>4, CellArrive
  <2> QED BY <2>3, <2>4, <2>5
<1>14. CASE Commit \/ CommitFails
  <2>1. /\ Writing = data /\ Writing' = NoValue
        /\ image' = image
        /\ answer'.call = "save" => answer'.value = data
    BY <1>14 DEF Commit, CommitFails, Returned, Writing, None
  <2>2. image = Encode(data)
    BY <1>14, WholeImage DEF Commit, CommitFails
  <2>3. Told' \in {data, NoValue}
    BY <2>1 DEF Told
  <2>4. CASE Commit /\ Buffered
    <3>1. Stored' = data
      BY <1>1, <2>2, <2>4, EncodeImage DEF Commit, Stored
    <3>2. Known' = {data}
      BY <1>1, <2>4 DEF Commit, Known
    <3> QED BY <1>1, <2>1, <2>3, <3>1, <3>2, CellEnd
  <2>5. CASE ~(Commit /\ Buffered)
    <3>1. UNCHANGED durable /\ Known' = Known
      BY <1>4, <1>14, <2>5 DEF Commit, CommitFails
    <3>2. CASE durable = image
      <4>1. Stored = data
        BY <1>1, <2>2, <3>2, EncodeImage DEF Stored
      <4> QED BY <1>1, <1>2, <2>1, <2>3, <3>1, <4>1, CellFail
    <3>3. CASE durable # image
      <4>1. Told' = NoValue
        BY <2>1, <3>1, <3>3 DEF Told
      <4> QED BY <1>2, <2>1, <3>1, <4>1, CellInterrupt
    <3> QED BY <3>2, <3>3
  <2> QED BY <2>4, <2>5
<1>15. CASE PowerLoss
  BY <1>2, <1>3, <1>4, <1>15, CellInterrupt DEF PowerLoss, None, Writing
<1>16. CASE UNCHANGED vars
  <2>1. Told' = Told /\ Writing' = Writing /\ Stored' = Stored /\ Known' = Known
    BY <1>16 DEF vars, Told, Writing, Stored, Known
  <2> QED BY <2>1, CellStutters
<1> QED BY <1>6, <1>7, <1>8, <1>9, <1>10, <1>11, <1>12, <1>13, <1>14, <1>15, <1>16
        DEF Next, Store

\* The store implements the cell: a value replaced by another, in one step behind a
\* RAM buffer and on AVR with at most an empty cell between, or one the CRC cannot
\* tell from those being written, whatever fails and whenever the power goes.
THEOREM StoreIsCell == Spec => ImplementsCell
<1>1. Init => Cell!Init
  <2> SUFFICES ASSUME Init PROVE Cell!Init
    OBVIOUS
  <2>1. Known = {}
    BY DEF Init, Known
  <2>2. Loads(durable) => DataOf(durable) \in Data /\ Alike(DataOf(durable), {})
    <3>1. IInv
      BY InitInv
    <3> QED BY <2>1, <3>1, LoadsKnown DEF RecoversKnown, IInv, TypeOK, Images
  <2> QED BY <2>1, <2>2 DEF Init, Cell!Init, Cell!Shown, None
<1>2. IInv /\ ToldInv /\ IInv' /\ RecoversKnown' /\ [Next]_vars
        => [Cell!Next]_(Cell!cell)
  BY CellStep
<1> QED BY <1>1, <1>2, Recovery, ToldInductive, PTL DEF Spec, ImplementsCell, Cell!Spec
=============================================================================
