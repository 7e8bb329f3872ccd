-------------------------- MODULE MonitorLogProofs --------------------------
(***************************************************************************)
(* Theorems about MonitorLog, for any number of cursors, any length of an  *)
(* encoded picture and of a read, and any bounds on files and versions:    *)
(* they assume ConstantsTyped only.                                        *)
(***************************************************************************)
EXTENDS MonitorLog, Extrema, TLAPS, SequenceTheorems

Bytes(i) == files[i].bytes

Last == Len(files)

Byte == Nat \X (1 .. Units)

-----------------------------------------------------------------------------
(* The log: what the writer is at, and what it has written.                  *)

WriterInv ==
  /\ latest \in Nat /\ listener \in {"unarmed", "armed", "notified"}
  /\ writer \in {"starting", "ready", "rollover", "rolling", "writing", "waiting"}
  /\ encoded \in Int /\ -1 <= encoded /\ encoded <= latest
  /\ left \in 0 .. Units
  /\ writer \in {"starting", "ready"} => encoded = -1
  /\ writer \in {"rollover", "writing", "waiting"} => encoded # -1
  /\ writer \in {"ready", "rollover", "writing", "waiting"} => Last > 0
  /\ writer = "rolling" => (encoded = -1 <=> Last = 0)
  /\ writer = "starting" => Last = 0
  /\ writer = "rollover" => left = Units
  /\ writer = "rolling" => left = IF encoded = -1 THEN 0 ELSE Units
  /\ writer \in {"starting", "ready", "waiting"} => left = 0
  /\ writer = "writing" => left # 0
  /\ listener = "notified" => encoded < latest

FilesType == files \in Seq([bytes : Seq(Byte), start : Nat])

\* Versions never decrease along the log, and increase from record to record.
Ordered ==
  /\ \A i, j \in DOMAIN files : i < j =>
       \A k \in DOMAIN Bytes(i), l \in DOMAIN Bytes(j) : Bytes(i)[k][1] < Bytes(j)[l][1]
  /\ \A i \in DOMAIN files : \A k, l \in DOMAIN Bytes(i) : k < l =>
       /\ Bytes(i)[k][1] <= Bytes(i)[l][1]
       /\ Bytes(i)[k][2] = Units => Bytes(i)[k][1] < Bytes(i)[l][1]

\* A file begins with a record, and goes on with the next byte or record.
InRecords ==
  \A i \in DOMAIN files : \A k \in DOMAIN Bytes(i) :
    /\ k = 1 => Bytes(i)[k][2] = 1
    /\ (k > 1 /\ Bytes(i)[k - 1][2] = Units) => Bytes(i)[k][2] = 1
    /\ (k > 1 /\ Bytes(i)[k - 1][2] # Units) =>
         /\ Bytes(i)[k][1] = Bytes(i)[k - 1][1]
         /\ Bytes(i)[k][2] = Bytes(i)[k - 1][2] + 1

\* It ends with one too, but for what the writer has in hand.
Ends ==
  \A i \in DOMAIN files :
    LET n == Len(Bytes(i)) IN
    /\ (i = Last /\ 0 < left /\ left < Units)
         => n > 0 /\ Bytes(i)[n][1] = encoded /\ Bytes(i)[n][2] = Units - left
    /\ ~(i = Last /\ 0 < left /\ left < Units) /\ n > 0 => Bytes(i)[n][2] = Units

Bounded ==
  \A i \in DOMAIN files : \A k \in DOMAIN Bytes(i) :
    /\ Bytes(i)[k][1] <= encoded
    /\ left = Units => Bytes(i)[k][1] < encoded
    /\ left > 0 /\ (i < Last \/ Bytes(i)[k][2] = Units) => Bytes(i)[k][1] < encoded

\* A file is created after all that is in those before it was published.
Stamped ==
  /\ \A i, j \in DOMAIN files : i < j =>
       \A k \in DOMAIN Bytes(i) : Stamp(Bytes(i)[k][1]) < files[j].start
  /\ \A i \in DOMAIN files : files[i].start <= Now

LogInv ==
  /\ WriterInv /\ FilesType
  /\ Ordered /\ InRecords /\ Ends /\ Bounded /\ Stamped

(* Instants are in the order of the versions they are of. *)
LEMMA Instants ==
  ASSUME NEW v \in Nat, NEW w \in Nat
  PROVE  /\ 2 * v \in Nat /\ 2 * v + 1 \in Nat
         /\ v <= w => 2 * v < 2 * w + 1 /\ 2 * v + 1 <= 2 * w + 1
OBVIOUS

(* What is in the list of files. *)
LEMMA FileTyped ==
  ASSUME NEW fs \in Seq([bytes : Seq(Byte), start : Nat]), NEW i \in 1 .. Len(fs)
  PROVE  /\ fs[i].start \in Nat
         /\ fs[i].bytes \in Seq(Byte) /\ Len(fs[i].bytes) \in Nat
         /\ DOMAIN fs[i].bytes = 1 .. Len(fs[i].bytes)
         /\ \A k \in 1 .. Len(fs[i].bytes) :
              fs[i].bytes[k][1] \in Nat /\ fs[i].bytes[k][2] \in 1 .. Units
<1>1. fs[i] \in [bytes : Seq(Byte), start : Nat]
  BY ElementOfSeq
<1>2. fs[i].start \in Nat /\ fs[i].bytes \in Seq(Byte)
  BY <1>1
<1>3. Len(fs[i].bytes) \in Nat /\ DOMAIN fs[i].bytes = 1 .. Len(fs[i].bytes)
      /\ \A k \in 1 .. Len(fs[i].bytes) : fs[i].bytes[k] \in Byte
  BY <1>2
<1> QED  BY <1>2, <1>3 DEF Byte

LEMMA BytesTyped ==
  ASSUME FilesType
  PROVE  /\ Last \in Nat /\ DOMAIN files = 1 .. Last
         /\ \A i \in 1 .. Last :
              /\ files[i].start \in Nat
              /\ Bytes(i) \in Seq(Byte) /\ Len(Bytes(i)) \in Nat
              /\ DOMAIN Bytes(i) = 1 .. Len(Bytes(i))
              /\ \A k \in 1 .. Len(Bytes(i)) : Bytes(i)[k][1] \in Nat /\ Bytes(i)[k][2] \in 1 .. Units
<1>1. Last \in Nat /\ DOMAIN files = 1 .. Last
  BY DEF FilesType, Last
<1> QED  BY <1>1, FileTyped DEF FilesType, Last, Bytes

(* What one write_at does: n more bytes of the record at the end of the last *)
(* file.                                                                     *)
LEMMA WriteOf ==
  ASSUME WriterInv, FilesType, NEW n \in 1 .. left, Write(n)
  PROVE  /\ FilesType' /\ Last' = Last /\ Last \in 1 .. Last
         /\ \A i \in 1 .. Last : /\ i # Last => files'[i] = files[i]
                                 /\ files'[i].start = files[i].start
         /\ Len(files'[Last].bytes) = Len(Bytes(Last)) + n
         /\ \A k \in 1 .. Len(Bytes(Last)) : files'[Last].bytes[k] = Bytes(Last)[k]
         /\ \A k \in Len(Bytes(Last)) + 1 .. Len(Bytes(Last)) + n :
              /\ files'[Last].bytes[k][1] = encoded
              /\ files'[Last].bytes[k][2] = Units - left + (k - Len(Bytes(Last)))
<1> DEFINE rest == SubSeq(Remaining, 1, n)
           bytes == Bytes(Last)
<1>1. /\ Units \in Nat /\ left \in 1 .. Units /\ n \in Nat /\ encoded \in Nat
      /\ writer = "writing" /\ Last > 0
  BY ConstantsTyped DEF WriterInv, Write
<1>2. /\ Encoding(encoded) \in Seq(Byte) /\ Len(Encoding(encoded)) = Units
      /\ \A x \in 1 .. Units : Encoding(encoded)[x] = <<encoded, x>>
  BY <1>1 DEF Encoding, Byte
<1>3. /\ Remaining \in Seq(Byte) /\ Len(Remaining) = left
      /\ \A x \in 1 .. left : Remaining[x] = <<encoded, Units - left + x>>
  <2> DEFINE e == Encoding(encoded)
  <2> HIDE DEF e
  <2>1. PICK first : first = Units - left + 1
    OBVIOUS
  <2>2. /\ first \in Int /\ Units \in Int /\ first <= Units /\ Units - first + 1 = left
        /\ \A x \in 1 .. left : first + x - 1 = Units - left + x
    BY <1>1, <2>1
  <2>3. \A i \in first .. Units : e[i] \in Byte
    <3>1. \A i \in first .. Units : i \in 1 .. Units
      BY <1>1, <2>1
    <3> QED  BY <1>1, <1>2, <3>1 DEF e, Byte
  <2>4. /\ SubSeq(e, first, Units) \in Seq(Byte)
        /\ Len(SubSeq(e, first, Units)) = Units - first + 1
        /\ \A x \in 1 .. Units - first + 1 : SubSeq(e, first, Units)[x] = e[first + x - 1]
    BY <2>2, <2>3, SubSeqProperties
  <2>5. Remaining = SubSeq(e, first, Units)
    BY <2>1 DEF Remaining, e
  <2>6. \A x \in 1 .. left : e[Units - left + x] = <<encoded, Units - left + x>>
    <3>1. \A x \in 1 .. left : Units - left + x \in 1 .. Units
      BY <1>1
    <3> QED  BY <1>2, <3>1 DEF e
  <2>7. Remaining \in Seq(Byte) /\ Len(Remaining) = left
    BY <2>2, <2>4, <2>5
  <2>8. \A x \in 1 .. left : Remaining[x] = e[Units - left + x]
    BY <2>2, <2>4, <2>5
  <2> QED  BY <2>6, <2>7, <2>8
<1>4. /\ rest \in Seq(Byte) /\ Len(rest) = n
      /\ \A x \in 1 .. n : rest[x] = <<encoded, Units - left + x>>
  <2>1. /\ rest \in Seq(Byte) /\ Len(rest) = n
        /\ \A x \in 1 .. n : rest[x] = Remaining[x]
    BY <1>1, <1>3
  <2> QED  BY <1>1, <1>3, <2>1
<1> HIDE DEF rest
<1>5. /\ Last \in Nat /\ Last \in 1 .. Last /\ DOMAIN files = 1 .. Last
      /\ bytes \in Seq(Byte) /\ Len(bytes) \in Nat
  BY <1>1, BytesTyped
<1>6. files' = [files EXCEPT ![Last] = [files[Last] EXCEPT !.bytes = bytes \o rest]]
  BY <1>1, <1>5 DEF Write, rest, Last, Bytes, FilesType
<1>7. /\ bytes \o rest \in Seq(Byte) /\ Len(bytes \o rest) = Len(bytes) + n
      /\ \A k \in 1 .. Len(bytes) : (bytes \o rest)[k] = bytes[k]
      /\ \A k \in Len(bytes) + 1 .. Len(bytes) + n : (bytes \o rest)[k] = rest[k - Len(bytes)]
  <2> HIDE DEF bytes
  <2>1. bytes \o rest \in Seq(Byte)
    BY <1>4, <1>5
  <2>2. Len(bytes \o rest) = Len(bytes) + n
    BY <1>4, <1>5, ConcatProperties
  <2>3. \A k \in 1 .. Len(bytes) + n :
           (bytes \o rest)[k] = IF k <= Len(bytes) THEN bytes[k] ELSE rest[k - Len(bytes)]
    BY <1>4, <1>5, ConcatProperties
  <2> QED  BY <2>1, <2>2, <2>3, <1>1, <1>5
<1>8. /\ FilesType' /\ Len(files') = Last
      /\ files'[Last].bytes = bytes \o rest /\ files'[Last].start = files[Last].start
      /\ \A i \in 1 .. Last : i # Last => files'[i] = files[i]
  <2> DEFINE rec == [files[Last] EXCEPT !.bytes = bytes \o rest]
             Logs == [bytes : Seq(Byte), start : Nat]
  <2>1. files \in Seq(Logs) /\ Last = Len(files)
    BY DEF FilesType, Last
  <2>2. files[Last] \in Logs
    <3> HIDE DEF Logs
    <3> QED  BY <2>1, <1>5
  <2>3. rec \in Logs /\ rec.bytes = bytes \o rest /\ rec.start = files[Last].start
    BY <2>2, <1>7
  <2> HIDE DEF rec, Logs
  <2>4. files' = [files EXCEPT ![Last] = rec]
    BY <1>6 DEF rec
  <2>5. files' \in Seq(Logs) /\ Len(files') = Last
    BY <2>1, <2>3, <2>4, <1>5
  <2> QED  BY <2>1, <2>3, <2>4, <2>5, <1>5 DEF FilesType, Logs
<1> HIDE DEF bytes
<1>9. Last' = Last
  BY <1>8 DEF Last
<1>10. \A k \in Len(bytes) + 1 .. Len(bytes) + n :
         /\ (bytes \o rest)[k][1] = encoded
         /\ (bytes \o rest)[k][2] = Units - left + (k - Len(bytes))
  BY <1>1, <1>4, <1>5, <1>7
<1>11. /\ Len(files'[Last].bytes) = Len(bytes) + n
       /\ \A k \in 1 .. Len(bytes) : files'[Last].bytes[k] = bytes[k]
       /\ \A k \in Len(bytes) + 1 .. Len(bytes) + n :
            /\ files'[Last].bytes[k][1] = encoded
            /\ files'[Last].bytes[k][2] = Units - left + (k - Len(bytes))
  <2> DEFINE all == bytes \o rest
  <2> HIDE DEF all
  <2>1. files'[Last].bytes = all
    BY <1>8 DEF all
  <2>2. /\ Len(all) = Len(bytes) + n
        /\ \A k \in 1 .. Len(bytes) : all[k] = bytes[k]
        /\ \A k \in Len(bytes) + 1 .. Len(bytes) + n :
             all[k][1] = encoded /\ all[k][2] = Units - left + (k - Len(bytes))
    BY <1>7, <1>10 DEF all
  <2> QED  BY <2>1, <2>2
<1>12. \A i \in 1 .. Last : /\ i # Last => files'[i] = files[i]
                            /\ files'[i].start = files[i].start
  BY <1>8
<1> QED  BY <1>5, <1>8, <1>9, <1>11, <1>12 DEF bytes

LEMMA LogInit == Init => LogInv
BY ConstantsTyped
DEF Init, LogInv, WriterInv, FilesType, Ordered, InRecords, Ends, Bounded, Stamped, Last, Bytes

(* What is written stays in order while nothing is written. *)
LEMMA FilesKept ==
  ASSUME LogInv, files' = files, latest' \in Nat, latest' >= latest
  PROVE  /\ FilesType' /\ Ordered' /\ InRecords' /\ Stamped' /\ Last' = Last
         /\ (encoded' = encoded /\ left' = left => Ends' /\ Bounded')
<1>1. \A i : Bytes(i)' = Bytes(i)
  BY DEF Bytes
<1>2. Last' = Last /\ FilesType' /\ Ordered' /\ InRecords'
  <2>1. Last' = Last /\ FilesType'
    BY DEF LogInv, Last, FilesType
  <2>2. Ordered'
    BY <1>1 DEF LogInv, Ordered
  <2>3. InRecords'
    BY <1>1 DEF LogInv, InRecords
  <2> QED  BY <2>1, <2>2, <2>3
<1>3. Stamped'
  <2> latest \in Nat
    BY DEF LogInv, WriterInv
  <2>1. Now <= Now' /\ Now \in Nat /\ Now' \in Nat
    <3>1. Now \in Nat /\ Now = 2 * latest + 1
      BY DEF Now
    <3>2. Now' = 2 * latest' + 1
      BY DEF Now
    <3> QED  BY <3>1, <3>2, Instants
  <2>2. ASSUME NEW i \in DOMAIN files PROVE files[i].start <= Now'
    BY <2>1, <2>2, BytesTyped DEF LogInv, Stamped
  <2> QED  BY <1>1, <2>2 DEF LogInv, Stamped
<1>4. ASSUME encoded' = encoded, left' = left PROVE Ends' /\ Bounded'
  BY <1>1, <1>2, <1>4 DEF LogInv, Ends, Bounded
<1> QED  BY <1>2, <1>3, <1>4

(* The writer has taken up a picture it has not written any of. *)
LEMMA ObserveStep == LogInv /\ Observe => LogInv'
<1> SUFFICES ASSUME LogInv, Observe PROVE LogInv'
  OBVIOUS
<1>1. Units \in Nat /\ Units > 0
  BY ConstantsTyped
<1>2. /\ encoded < latest /\ left = 0 /\ Last > 0
      /\ encoded' = latest /\ left' = Units /\ files' = files /\ latest' = latest
      /\ writer' \in {"writing", "rollover"} /\ listener' = "armed"
  BY DEF Observe, Caught, LogInv, WriterInv
<1>3. FilesType' /\ Ordered' /\ InRecords' /\ Stamped' /\ Last' = Last
  BY <1>2, FilesKept DEF LogInv, WriterInv
<1>4. WriterInv'
  BY <1>1, <1>2, <1>3 DEF LogInv, WriterInv
<1>5. \A i : Bytes(i)' = Bytes(i)
  BY <1>2 DEF Bytes
<1>6. Ends'
  BY <1>1, <1>2, <1>5 DEF LogInv, Ends
<1>7. ASSUME NEW i \in DOMAIN files, NEW k \in DOMAIN Bytes(i) PROVE Bytes(i)[k][1] < latest
  <2>1. Bytes(i)[k][1] <= encoded /\ Bytes(i)[k][1] \in Nat
    BY BytesTyped DEF LogInv, Bounded
  <2> QED  BY <1>2, <2>1 DEF LogInv, WriterInv
<1>8. Bounded'
  <2>1. ASSUME NEW i \in DOMAIN files, NEW k \in DOMAIN Bytes(i)
        PROVE  Bytes(i)[k][1] <= latest
    <3>1. Bytes(i)[k][1] \in Nat /\ latest \in Nat
      BY BytesTyped DEF LogInv, WriterInv
    <3> QED  BY <1>7, <3>1
  <2> QED  BY <1>2, <1>5, <1>7, <2>1 DEF Bounded
<1> QED  BY <1>3, <1>4, <1>6, <1>8 DEF LogInv

(* A new file is empty, and is made after all that is in the others. *)
LEMMA CreatedOf ==
  ASSUME LogInv, Created
  PROVE  /\ FilesType' /\ Last' = Last + 1
         /\ \A i \in 1 .. Last : files'[i] = files[i] /\ Bytes(i)' = Bytes(i)
         /\ files'[Last + 1].bytes = <<>> /\ files'[Last + 1].start = Now
<1> DEFINE Logs == [bytes : Seq(Byte), start : Nat]
           new == [bytes |-> <<>>, start |-> Now]
<1>1. files \in Seq(Logs) /\ Last = Len(files) /\ Last \in Nat
  BY BytesTyped DEF LogInv, FilesType, Last
<1>2. new \in Logs /\ new.bytes = <<>> /\ new.start = Now
  BY DEF Now, LogInv, WriterInv
<1>3. files' = Append(files, new)
  BY DEF Created
<1> HIDE DEF Logs, new
<1>4. /\ files' \in Seq(Logs) /\ Len(files') = Last + 1
      /\ \A i \in 1 .. Last : files'[i] = files[i]
      /\ files'[Last + 1] = new
  BY <1>1, <1>2, <1>3
<1> QED  BY <1>2, <1>4 DEF FilesType, Last, Bytes, Logs

LEMMA CreatedStep == LogInv /\ Created => LogInv'
<1> SUFFICES ASSUME LogInv, Created PROVE LogInv'
  OBVIOUS
<1> USE DEF LogInv
<1>1. Units \in Nat /\ Units > 0
  BY ConstantsTyped
<1>2. /\ Last \in Nat /\ DOMAIN files = 1 .. Last /\ DOMAIN files' = 1 .. Last + 1
      /\ FilesType' /\ Last' = Last + 1
      /\ \A i \in 1 .. Last : files'[i] = files[i] /\ Bytes(i)' = Bytes(i)
      /\ Bytes(Last)' = <<>> /\ files'[Last + 1].start = Now
  BY CreatedOf, BytesTyped DEF FilesType, Last, Bytes
<1>3. /\ UNCHANGED <<latest, listener, encoded, left>>
      /\ writer = "rolling" /\ writer' = IF encoded = -1 THEN "ready" ELSE "writing"
      /\ left \in {0, Units}
  BY DEF Created, WriterInv
<1>4. WriterInv'
  BY <1>1, <1>2, <1>3 DEF WriterInv
<1>5. ASSUME NEW i \in 1 .. Last + 1, NEW k \in DOMAIN Bytes(i)' PROVE i \in 1 .. Last
  <2>1. CASE i = Last + 1
    BY <1>2, <1>5, <2>1
  <2> QED  BY <1>2, <2>1
<1>6. Ordered'
  BY <1>2, <1>5 DEF Ordered
<1>7. InRecords'
  BY <1>2, <1>5 DEF InRecords
<1>8. Ends'
  <2>1. ~(0 < left' /\ left' < Units) /\ ~(0 < left /\ left < Units)
    BY <1>1, <1>3
  <2>2. ASSUME NEW i \in 1 .. Last + 1, Len(Bytes(i)') > 0
        PROVE  i \in 1 .. Last
    <3>1. CASE i = Last + 1
      BY <1>2, <2>2, <3>1
    <3> QED  BY <1>2, <3>1
  <2> QED  BY <1>2, <2>1, <2>2 DEF Ends
<1>9. Bounded'
  BY <1>1, <1>2, <1>3, <1>5 DEF Bounded
<1>10. Stamped'
  <2>1. ASSUME NEW i \in 1 .. Last, NEW k \in DOMAIN Bytes(i) PROVE Stamp(Bytes(i)[k][1]) < Now
    <3>1. Bytes(i)[k][1] \in Nat /\ Bytes(i)[k][1] <= encoded
      BY <1>2, BytesTyped DEF Bounded
    <3> QED  BY <3>1 DEF WriterInv, Stamp, Now
  <2>2. Now' = Now /\ Now \in Nat
    BY <1>3 DEF Now, WriterInv
  <2>3. \A i \in 1 .. Last + 1 : files'[i].start <= Now'
    BY <1>2, <2>2 DEF Stamped
  <2>4. ASSUME NEW i \in 1 .. Last + 1, NEW j \in 1 .. Last + 1, i < j, NEW k \in DOMAIN Bytes(i)'
        PROVE  Stamp(Bytes(i)'[k][1]) < files'[j].start
    <3>1. i \in 1 .. Last /\ Bytes(i)' = Bytes(i)
      BY <1>2, <1>5
    <3>2. CASE j = Last + 1
      BY <1>2, <2>1, <3>1, <3>2
    <3>3. CASE j \in 1 .. Last
      BY <1>2, <2>4, <3>1, <3>3 DEF Stamped
    <3> QED  BY <1>2, <3>2, <3>3
  <2> QED  BY <1>2, <2>3, <2>4 DEF Stamped, Stamp
<1> QED  BY <1>2, <1>4, <1>6, <1>7, <1>8, <1>9, <1>10

LEMMA WriteStep == ASSUME LogInv, NEW n \in 1 .. left, Write(n) PROVE LogInv'
<1> USE DEF LogInv
<1> DEFINE len == Len(Bytes(Last))
           old(i, k) == i \in 1 .. Last /\ k \in 1 .. Len(Bytes(i))
           new(i, k) == i = Last /\ k \in len + 1 .. len + n
<1>1. /\ Units \in Nat /\ n \in Nat /\ encoded \in Nat /\ left \in 1 .. Units /\ n <= left /\ n > 0
      /\ left' = left - n /\ UNCHANGED <<latest, listener, encoded>>
      /\ writer = "writing" /\ writer' = IF n = left THEN "waiting" ELSE "writing"
  BY ConstantsTyped DEF Write, WriterInv
<1>2. /\ Last \in Nat /\ Last \in 1 .. Last /\ Last' = Last /\ len \in Nat
      /\ DOMAIN files = 1 .. Last /\ DOMAIN files' = 1 .. Last /\ FilesType'
  <2>1. FilesType' /\ Last' = Last /\ Last \in 1 .. Last
    BY WriteOf
  <2>2. Last \in Nat /\ DOMAIN files = 1 .. Last /\ len \in Nat
    BY <2>1, BytesTyped
  <2>3. DOMAIN files' = 1 .. Last
    BY <2>1 DEF FilesType, Last
  <2> QED  BY <2>1, <2>2, <2>3
<1>3. ASSUME NEW i \in 1 .. Last
      PROVE  /\ files'[i].start = files[i].start
             /\ i # Last => Bytes(i)' = Bytes(i)
             /\ DOMAIN Bytes(i) = 1 .. Len(Bytes(i)) /\ Len(Bytes(i)) \in Nat
             /\ DOMAIN Bytes(i)' = 1 .. Len(Bytes(i)')
             /\ Len(Bytes(i)') = IF i = Last THEN len + n ELSE Len(Bytes(i))
  <2>1. /\ files'[i].start = files[i].start /\ (i # Last => Bytes(i)' = Bytes(i))
        /\ i = Last => Len(Bytes(i)') = len + n
    BY <1>2, WriteOf DEF Bytes
  <2>2. DOMAIN Bytes(i) = 1 .. Len(Bytes(i)) /\ Len(Bytes(i)) \in Nat
    BY BytesTyped
  <2>3. DOMAIN Bytes(i)' = 1 .. Len(Bytes(i)')
    <3>1. i \in 1 .. Len(files')
      BY <1>2 DEF Last
    <3> QED  BY <1>2, <3>1, FileTyped DEF FilesType, Bytes
  <2> QED  BY <1>2, <2>1, <2>2, <2>3
<1>4. ASSUME NEW i \in 1 .. Last, NEW k \in DOMAIN Bytes(i)'
      PROVE  \/ old(i, k) /\ Bytes(i)'[k] = Bytes(i)[k]
             \/ /\ new(i, k) /\ Bytes(i)'[k][1] = encoded
                /\ Bytes(i)'[k][2] = Units - left + (k - len)
  <2>1. CASE i # Last
    BY <1>3, <2>1
  <2> DEFINE bytes == files'[Last].bytes
  <2>4. /\ \A x \in 1 .. len : bytes[x] = Bytes(Last)[x]
        /\ \A x \in len + 1 .. len + n : bytes[x][1] = encoded /\ bytes[x][2] = Units - left + (x - len)
    BY WriteOf
  <2>5. i = Last => Bytes(i)' = bytes
    BY DEF Bytes
  <2>6. k \in Nat /\ k >= 1 /\ (i = Last => k <= len + n)
    BY <1>1, <1>2, <1>3
  <2> HIDE DEF bytes, len
  <2>2. CASE i = Last /\ k <= len
    <3>1. k \in 1 .. len
      BY <2>2, <2>6, <1>2
    <3> QED  BY <2>2, <2>4, <2>5, <3>1 DEF len
  <2>3. CASE i = Last /\ k > len
    <3>1. k \in len + 1 .. len + n
      BY <2>3, <2>6, <1>1, <1>2
    <3> QED  BY <2>3, <2>4, <2>5, <3>1
  <2> QED  BY <2>1, <2>2, <2>3, <1>2, <1>3
<1>5. ASSUME NEW i \in 1 .. Last, NEW k \in 1 .. Len(Bytes(i))
      PROVE  /\ Bytes(i)[k][1] \in Nat /\ Bytes(i)[k][2] \in 1 .. Units
             /\ Bytes(i)[k][1] <= encoded
             /\ i # Last \/ Bytes(i)[k][2] = Units \/ left = Units => Bytes(i)[k][1] < encoded
  <2>1. Bytes(i)[k][1] \in Nat /\ Bytes(i)[k][2] \in 1 .. Units
    BY BytesTyped
  <2>2. i \in DOMAIN files /\ k \in DOMAIN Bytes(i) /\ left > 0 /\ (i # Last => i < Last)
    BY <1>1, <1>2, <1>3
  <2> QED  BY <2>1, <2>2 DEF Bounded
<1> HIDE DEF len
<1>6. WriterInv'
  BY <1>1, <1>2 DEF WriterInv
<1>7. Ordered'
  <2>1. ASSUME NEW i \in 1 .. Last, NEW j \in 1 .. Last, i < j,
               NEW k \in DOMAIN Bytes(i)', NEW l \in DOMAIN Bytes(j)'
        PROVE  Bytes(i)'[k][1] < Bytes(j)'[l][1]
    <3>1. i # Last /\ old(i, k) /\ Bytes(i)'[k] = Bytes(i)[k]
      BY <2>1, <1>2, <1>3
    <3>2. CASE old(j, l) /\ Bytes(j)'[l] = Bytes(j)[l]
      BY <2>1, <3>1, <3>2, <1>2, <1>3 DEF Ordered
    <3>3. CASE Bytes(j)'[l][1] = encoded
      BY <3>1, <3>3, <1>5
    <3> QED  BY <3>2, <3>3, <1>4
  <2>2. ASSUME NEW i \in 1 .. Last, NEW k \in DOMAIN Bytes(i)', NEW l \in DOMAIN Bytes(i)', k < l
        PROVE  /\ Bytes(i)'[k][1] <= Bytes(i)'[l][1]
               /\ Bytes(i)'[k][2] = Units => Bytes(i)'[k][1] < Bytes(i)'[l][1]
    <3>1. k \in Nat /\ l \in Nat
      BY <1>3
    <3>2. CASE old(i, l) /\ Bytes(i)'[l] = Bytes(i)[l]
      <4>1. old(i, k) /\ Bytes(i)'[k] = Bytes(i)[k]
        BY <2>2, <3>1, <3>2, <1>2, <1>4 DEF len
      <4> QED  BY <2>2, <3>2, <4>1, <1>2, <1>3 DEF Ordered
    <3>3. CASE new(i, l) /\ Bytes(i)'[l][1] = encoded /\ Bytes(i)'[l][2] = Units - left + (l - len)
      <4>1. CASE old(i, k) /\ Bytes(i)'[k] = Bytes(i)[k]
        BY <3>3, <4>1, <1>5
      <4>2. CASE new(i, k) /\ Bytes(i)'[k][1] = encoded /\ Bytes(i)'[k][2] = Units - left + (k - len)
        BY <2>2, <3>1, <3>3, <4>2, <1>1, <1>2
      <4> QED  BY <4>1, <4>2, <1>4
    <3> QED  BY <3>2, <3>3, <1>4
  <2> QED  BY <2>1, <2>2, <1>2 DEF Ordered
<1>8. InRecords'
  <2>1. ASSUME NEW i \in 1 .. Last, NEW k \in DOMAIN Bytes(i)'
        PROVE  /\ k = 1 => Bytes(i)'[k][2] = 1
               /\ (k > 1 /\ Bytes(i)'[k - 1][2] = Units) => Bytes(i)'[k][2] = 1
               /\ (k > 1 /\ Bytes(i)'[k - 1][2] # Units) =>
                    /\ Bytes(i)'[k][1] = Bytes(i)'[k - 1][1]
                    /\ Bytes(i)'[k][2] = Bytes(i)'[k - 1][2] + 1
    <3>1. k \in Nat /\ (k > 1 => k - 1 \in DOMAIN Bytes(i)')
      BY <1>3
    <3>2. CASE old(i, k) /\ Bytes(i)'[k] = Bytes(i)[k]
      <4>1. k > 1 => old(i, k - 1) /\ Bytes(i)'[k - 1] = Bytes(i)[k - 1]
        BY <3>1, <3>2, <1>2, <1>4 DEF len
      <4>2. i \in DOMAIN files /\ k \in DOMAIN Bytes(i)
        BY <3>2, <1>2, <1>3
      <4> QED  BY <3>2, <4>1, <4>2 DEF InRecords
    <3>3. CASE new(i, k) /\ Bytes(i)'[k][1] = encoded /\ Bytes(i)'[k][2] = Units - left + (k - len)
      <4>1. CASE k = len + 1
        <5>1. Bytes(i)'[k][2] = Units - left + 1
          BY <3>3, <4>1, <1>1, <1>2
        <5>2. CASE left = Units
          <6>1. k > 1 => Bytes(i)'[k - 1][2] = Units
            <7>1. ASSUME k > 1 PROVE Bytes(i)'[k - 1] = Bytes(i)[len] /\ Bytes(i)[len][2] = Units
              <8>1. k - 1 = len /\ len > 0 /\ k - 1 \in DOMAIN Bytes(i)'
                BY <3>1, <4>1, <7>1, <1>2
              <8>2. Bytes(i)'[k - 1] = Bytes(i)[len]
                BY <3>3, <8>1, <1>2, <1>4
              <8>3. Bytes(Last)[Len(Bytes(Last))][2] = Units
                BY <5>2, <8>1, <1>1, <1>2 DEF Ends, len
              <8> QED  BY <3>3, <8>2, <8>3 DEF len
            <7> QED  BY <7>1
          <6> QED  BY <5>1, <5>2, <6>1, <1>1
        <5>3. CASE left # Units
          <6>1. len > 0 /\ Bytes(i)[len][1] = encoded /\ Bytes(i)[len][2] = Units - left
            <7>1. i = Last /\ i \in DOMAIN files /\ 0 < left /\ left < Units
              BY <3>3, <5>3, <1>1, <1>2
            <7>2. Ends
              OBVIOUS
            <7>3. /\ Len(Bytes(i)) > 0 /\ Bytes(i)[Len(Bytes(i))][1] = encoded
                  /\ Bytes(i)[Len(Bytes(i))][2] = Units - left
              <8> HIDE DEF old, new, len
              <8> QED  BY ONLY <7>1, <7>2 DEF Ends
            <7> QED  BY ONLY <7>1, <7>3 DEF len
          <6>2. k > 1 /\ k - 1 = len /\ Bytes(i)'[k - 1] = Bytes(i)[len]
            BY <3>1, <3>3, <4>1, <6>1, <1>2, <1>4
          <6> QED  BY <3>3, <5>1, <5>3, <6>1, <6>2, <1>1
        <5> QED  BY <5>2, <5>3
      <4>2. CASE k # len + 1
        <5>1. k > 1 /\ new(i, k - 1)
          BY <3>1, <3>3, <4>2, <1>1, <1>2
        <5>2. Bytes(i)'[k - 1][1] = encoded /\ Bytes(i)'[k - 1][2] = Units - left + (k - 1 - len)
          BY <3>1, <5>1, <1>2, <1>4 DEF len
        <5>3. /\ Units - left + (k - len) = Units - left + (k - 1 - len) + 1
              /\ Units - left + (k - 1 - len) # Units
          BY <3>1, <3>3, <1>1, <1>2
        <5> QED  BY <3>3, <5>1, <5>2, <5>3
      <4> QED  BY <4>1, <4>2
    <3> QED  BY <3>2, <3>3, <1>4
  <2> QED  BY <2>1, <1>2 DEF InRecords
<1>9. Ends'
  <2>1. ASSUME NEW i \in 1 .. Last, i # Last, Len(Bytes(i)') > 0
        PROVE  Bytes(i)'[Len(Bytes(i)')][2] = Units
    BY <2>1, <1>2, <1>3 DEF Ends
  <2> DEFINE m == Len(files'[Last].bytes)
  <2>2. m = len + n /\ m > 0
    BY <1>1, <1>2, <1>3 DEF Bytes
  <2>3. /\ files'[Last].bytes[m][1] = encoded
        /\ files'[Last].bytes[m][2] = Units - left + n
    <3>1. m - len = n /\ m \in len + 1 .. len + n
      BY <2>2, <1>1, <1>2
    <3> QED  BY <3>1, WriteOf DEF len
  <2>4. Units - left + n = Units - left'
    BY <1>1
  <2>5. ASSUME NEW i \in 1 .. Last
        PROVE  /\ (i = Last /\ 0 < left' /\ left' < Units) =>
                    /\ Len(Bytes(i)') > 0
                    /\ Bytes(i)'[Len(Bytes(i)')][1] = encoded
                    /\ Bytes(i)'[Len(Bytes(i)')][2] = Units - left'
               /\ ~(i = Last /\ 0 < left' /\ left' < Units) /\ Len(Bytes(i)') > 0
                    => Bytes(i)'[Len(Bytes(i)')][2] = Units
    <3>1. CASE i = Last
      <4>1. Bytes(i)' = files'[Last].bytes
        BY <3>1 DEF Bytes
      <4> QED  BY <3>1, <4>1, <2>2, <2>3, <2>4, <1>1
    <3>2. CASE i # Last
      BY <3>2, <2>1
    <3> QED  BY <3>1, <3>2
  <2> QED  BY <2>5, <1>1, <1>2 DEF Ends
<1>10. Bounded'
  <2>1. ASSUME NEW i \in 1 .. Last, NEW k \in DOMAIN Bytes(i)'
        PROVE  /\ Bytes(i)'[k][1] <= encoded
               /\ left' = Units => Bytes(i)'[k][1] < encoded
               /\ left' > 0 /\ (i < Last \/ Bytes(i)'[k][2] = Units) => Bytes(i)'[k][1] < encoded
    <3>1. left' # Units
      BY <1>1
    <3>2. CASE old(i, k) /\ Bytes(i)'[k] = Bytes(i)[k]
      BY <3>1, <3>2, <1>2, <1>5
    <3>3. CASE new(i, k) /\ Bytes(i)'[k][1] = encoded /\ Bytes(i)'[k][2] = Units - left + (k - len)
      BY <3>1, <3>3, <1>1, <1>2
    <3> QED  BY <3>2, <3>3, <1>4
  <2> QED  BY <2>1, <1>1, <1>2 DEF Bounded
<1>11. Stamped'
  <2>1. ASSUME NEW i \in 1 .. Last, NEW j \in 1 .. Last, i < j, NEW k \in DOMAIN Bytes(i)'
        PROVE  Stamp(Bytes(i)'[k][1]) < files'[j].start
    <3>1. i # Last
      BY <2>1, <1>2
    <3> QED  BY <2>1, <3>1, <1>2, <1>3 DEF Stamped
  <2>2. \A i \in 1 .. Last : files'[i].start <= Now'
    BY <1>1, <1>2, <1>3 DEF Stamped, Now
  <2> QED  BY <2>1, <2>2, <1>2 DEF Stamped, Stamp
<1> QED  BY <1>2, <1>6, <1>7, <1>8, <1>9, <1>10, <1>11

\* What a cursor's or a page's step leaves alone.
LEMMA LogKept == ASSUME LogInv, UNCHANGED <<latest, listener, writing>> PROVE LogInv'
BY FilesKept DEF LogInv, WriterInv, writing

LEMMA LogStep == LogInv /\ [Next]_vars => LogInv'
<1> SUFFICES ASSUME LogInv, [Next]_vars PROVE LogInv'
  OBVIOUS
<1>1. CASE Publish
  <2>1. /\ latest' = latest + 1 /\ latest \in Nat /\ UNCHANGED writing
        /\ listener' = IF listener = "armed" THEN "notified" ELSE listener
    BY <1>1 DEF Publish, LogInv, WriterInv
  <2>2. FilesType' /\ Ordered' /\ InRecords' /\ Stamped' /\ Last' = Last /\ Ends' /\ Bounded'
    BY <2>1, FilesKept DEF writing
  <2> QED  BY <2>1, <2>2 DEF LogInv, WriterInv, writing
<1>2. CASE Start \/ RollOver
  <2>1. /\ UNCHANGED <<latest, listener, encoded, left, files>>
        /\ writer \in {"starting", "rollover"} /\ writer' = "rolling"
    BY <1>2 DEF Start, RollOver
  <2>2. FilesType' /\ Ordered' /\ InRecords' /\ Stamped' /\ Last' = Last /\ Ends' /\ Bounded'
    BY <2>1, FilesKept DEF LogInv, WriterInv
  <2>3. Last \in Nat
    BY BytesTyped DEF LogInv
  <2> QED  BY <2>1, <2>2, <2>3 DEF LogInv, WriterInv
<1>3. CASE Observe \/ Created \/ \E n \in 1 .. left : Write(n)
  BY <1>3, ObserveStep, CreatedStep, WriteStep
<1>4. ASSUME NEW c \in Cursors, Replay(c) \/ \E instant \in 0 .. Now : Open(c, instant) PROVE LogInv'
  BY <1>4, LogKept DEF Replay, Skip, Decode, Hold, Clone, AtEnd, Read, Open
<1>5. CASE UNCHANGED vars
  BY <1>5, LogKept DEF vars
<1> QED  BY <1>1, <1>2, <1>3, <1>4, <1>5 DEF Next, LogUpdates

LEMMA LogHolds == Spec => []LogInv
BY LogInit, LogStep, PTL DEF Spec

-----------------------------------------------------------------------------
(* Positions in the log. *)

\* A record starts after the b-th byte of a file.
Boundary(i, b) == b = 0 \/ Bytes(i)[b][2] = Units

(* From where a record starts, its bytes follow in order. *)
LEMMA RecordAt ==
  ASSUME LogInv, NEW i \in 1 .. Last, NEW b \in Nat, b <= Len(Bytes(i)), Boundary(i, b),
         NEW j \in 1 .. Units, b + j <= Len(Bytes(i))
  PROVE  Bytes(i)[b + j] = <<Bytes(i)[b + 1][1], j>>
<1> DEFINE bytes == Bytes(i)
           Right(x) == bytes[b + x][1] = bytes[b + 1][1] /\ bytes[b + x][2] = x
           wrong == {x \in 1 .. j : ~Right(x)}
<1>1. /\ DOMAIN files = 1 .. Last /\ Len(bytes) \in Nat /\ DOMAIN bytes = 1 .. Len(bytes)
      /\ bytes \in Seq(Byte) /\ Units \in Nat /\ j \in Nat
  BY BytesTyped, ConstantsTyped DEF LogInv
<1>2. ASSUME NEW k \in 1 .. Len(bytes)
      PROVE  /\ k = 1 => bytes[k][2] = 1
             /\ (k > 1 /\ bytes[k - 1][2] = Units) => bytes[k][2] = 1
             /\ (k > 1 /\ bytes[k - 1][2] # Units) =>
                  /\ bytes[k][1] = bytes[k - 1][1]
                  /\ bytes[k][2] = bytes[k - 1][2] + 1
  BY <1>1 DEF LogInv, InRecords
<1> HIDE DEF bytes
<1>3. Right(1)
  <2>1. b + 1 \in 1 .. Len(bytes)
    BY <1>1 DEF bytes
  <2>2. b # 0 => b + 1 > 1 /\ bytes[b + 1 - 1][2] = Units
    BY <1>1 DEF Boundary, bytes
  <2>3. bytes[b + 1][2] = 1
    BY <1>1, <1>2, <2>1, <2>2
  <2> QED  BY <2>3
<1>4. ASSUME NEW x \in 2 .. j, Right(x - 1) PROVE Right(x)
  <2>1. b + x \in 1 .. Len(bytes) /\ b + x > 1 /\ b + x - 1 = b + (x - 1) /\ x - 1 # Units
    BY <1>1 DEF bytes
  <2>2. bytes[b + x - 1][1] = bytes[b + 1][1] /\ bytes[b + x - 1][2] = x - 1
    BY <1>4, <2>1
  <2>3. bytes[b + x][1] = bytes[b + x - 1][1] /\ bytes[b + x][2] = bytes[b + x - 1][2] + 1
    BY <1>2, <2>1, <2>2, SMTT(30)
  <2>4. x - 1 + 1 = x
    OBVIOUS
  <2> QED  BY <2>2, <2>3, <2>4
<1>5. wrong = {}
  <2> SUFFICES ASSUME wrong # {} PROVE FALSE
    OBVIOUS
  <2>1. wrong \in SUBSET Nat
    BY <1>1
  <2>2. PICK x \in wrong : \A y \in wrong : x <= y
    <3> HIDE DEF wrong
    <3> QED  BY <2>1, Smallest
  <2>3. x \in 1 .. j /\ ~Right(x)
    BY <2>2
  <2>4. x # 1
    BY <1>3, <2>3
  <2>5. x \in 2 .. j /\ x - 1 \in 1 .. j /\ ~(x <= x - 1)
    BY <1>1, <2>3, <2>4
  <2>6. Right(x - 1)
    BY <2>2, <2>5
  <2> QED  BY <1>4, <2>3, <2>5, <2>6
<1>6. Right(j)
  BY <1>1, <1>5
<1>7. bytes[b + j] \in Byte
  <2>1. b + j \in 1 .. Len(bytes)
    BY <1>1 DEF bytes
  <2> QED  BY <1>1, <2>1, ElementOfSeq
<1> QED  BY <1>6, <1>7 DEF Byte, bytes

-----------------------------------------------------------------------------
(* The cursors: where each is in the log, and what it has returned of it.    *)

CursorTypes ==
  /\ at \in [Cursors -> {"closed", "skipping", "decoding", "holding", "reading", "ended", "done",
                         "failed"}]
  /\ file \in [Cursors -> Nat] /\ begun \in [Cursors -> Nat] /\ pos \in [Cursors -> Nat]
  /\ buffer \in [Cursors -> Seq(Byte)] /\ out \in [Cursors -> Seq(Nat)]
  /\ from \in [Cursors -> Nat] /\ due \in [Cursors -> SUBSET Nat]

\* Where the first byte in its buffer comes from: just behind this one.
Base(c) == pos[c] - Len(buffer[c])

\* The k-th byte of the i-th file is behind the records in the buffer.
Behind(c, i, k) == i < file[c] \/ (i = file[c] /\ k <= Base(c))

Fresh(c) == /\ file[c] = 1 /\ pos[c] = 0 /\ buffer[c] = <<>>
            /\ out[c] = <<>> /\ begun[c] = 1

\* The buffer holds what the file does behind Base, where a record starts.  A
\* cursor with part of a record goes to read a file that has all of it by then:
\* it does not find the end.
Placed(c) ==
  /\ 1 <= begun[c] /\ begun[c] <= file[c]
  /\ at[c] # "failed"
  /\ at[c] \in {"closed", "skipping"} => Fresh(c)
  /\ file[c] > Last =>
       Last = 0 /\ Fresh(c) /\ at[c] \notin {"holding", "reading", "ended"}
  /\ file[c] <= Last =>
       /\ Base(c) >= 0 /\ pos[c] <= Len(Bytes(file[c]))
       /\ \A j \in 1 .. Len(buffer[c]) : buffer[c][j] = Bytes(file[c])[Base(c) + j]
       /\ Boundary(file[c], Base(c))
  /\ at[c] \in {"holding", "reading", "ended"} => Len(buffer[c]) < Units
  /\ at[c] = "reading" /\ buffer[c] # <<>> => pos[c] < Len(Bytes(file[c]))
  /\ at[c] = "ended" => buffer[c] = <<>>

\* Of the i-th file, a cursor that has returned a record has those before it.
FirstOnes(c, i) ==
  \A k, l \in 1 .. Len(Bytes(i)) :
    k < l /\ Bytes(i)[k][2] = Units /\ Bytes(i)[l][2] = Units /\ HasReturned(c, Bytes(i)[l][1])
      => HasReturned(c, Bytes(i)[k][1])

\* Nothing but records behind it: every one of those in the file it is in, and
\* the first ones of each it has left.
Returned(c) ==
  /\ \A m, n \in DOMAIN out[c] : m < n => out[c][m] < out[c][n]
  /\ \A n \in DOMAIN out[c] : \E i \in 1 .. Last : \E k \in 1 .. Len(Bytes(i)) :
       begun[c] <= i /\ Behind(c, i, k) /\ Bytes(i)[k] = <<out[c][n], Units>>
  /\ \A i \in 1 .. Last : \A k \in 1 .. Len(Bytes(i)) :
       i = file[c] /\ k <= Base(c) /\ Bytes(i)[k][2] = Units => HasReturned(c, Bytes(i)[k][1])
  /\ \A i \in 1 .. Last : begun[c] <= i /\ i < file[c] => FirstOnes(c, i)

\* A version is in the b-th file or a later one.
LoggedIn(b, v) == \E i \in 1 .. Last : b <= i /\ InFile(i, v)

\* What it owes has been returned or is in its file or a later one, and at the
\* end of the file, in a later one.
Owed(c) ==
  /\ at[c] = "closed" => due[c] = {}
  /\ \A v \in due[c] : Stamp(v) >= from[c]
  /\ \A v \in due[c] : HasReturned(c, v) \/ LoggedIn(file[c], v)
  /\ at[c] = "ended" => \A v \in due[c] : HasReturned(c, v) \/ LoggedIn(file[c] + 1, v)
  /\ at[c] = "done" => \A v \in due[c] : HasReturned(c, v)

CursorInv(c) == Placed(c) /\ Returned(c) /\ Owed(c)

\* The files have grown, at most: what was in them is where it was.
Grown ==
  /\ Last <= Last' /\ Last \in Nat /\ Last' \in Nat
  /\ \A i \in 1 .. Last : /\ Len(Bytes(i)) <= Len(Bytes(i)')
                          /\ Len(Bytes(i)) \in Nat /\ DOMAIN Bytes(i) = 1 .. Len(Bytes(i))
                          /\ \A k \in 1 .. Len(Bytes(i)) : Bytes(i)'[k] = Bytes(i)[k]
                          /\ i < Last => Bytes(i)' = Bytes(i)
  /\ \A i \in 1 .. Last' : Len(Bytes(i)') \in Nat /\ DOMAIN Bytes(i)' = 1 .. Len(Bytes(i)')
  /\ latest <= latest' /\ latest \in Nat /\ latest' \in Nat

LEMMA GrownByStep == LogInv /\ LogInv' /\ [Next]_vars => Grown
<1> SUFFICES ASSUME LogInv, LogInv', [Next]_vars PROVE Grown
  OBVIOUS
<1>1. latest <= latest' /\ latest \in Nat /\ latest' \in Nat
  <2>1. CASE Publish
    BY <2>1 DEF LogInv, WriterInv, Publish
  <2>2. CASE ~Publish
    <3>1. latest' = latest
      BY <2>2 DEF Next, LogUpdates, Start, Observe, RollOver, Created, Write, Replay, Skip, Decode,
         Hold, Clone, AtEnd, Read, Open, vars
    <3> QED  BY <3>1 DEF LogInv, WriterInv
  <2> QED  BY <2>1, <2>2
<1>2. Last \in Nat /\ Last' \in Nat /\ DOMAIN files = 1 .. Last /\ DOMAIN files' = 1 .. Last'
  BY DEF LogInv, FilesType, Last
<1>3. ASSUME NEW i \in 1 .. Last
      PROVE Len(Bytes(i)) \in Nat /\ DOMAIN Bytes(i) = 1 .. Len(Bytes(i))
  BY BytesTyped DEF LogInv
<1>7. ASSUME NEW i \in 1 .. Last'
      PROVE Len(Bytes(i)') \in Nat /\ DOMAIN Bytes(i)' = 1 .. Len(Bytes(i)')
  <2>1. i \in 1 .. Len(files')
    BY DEF Last
  <2> QED  BY <2>1, FileTyped DEF LogInv, FilesType, Bytes
<1>4. ASSUME files' = files PROVE Grown
  <2>1. \A i : Bytes(i)' = Bytes(i)
    BY <1>4 DEF Bytes
  <2>2. Last' = Last
    BY <1>4 DEF Last
  <2> QED  BY <1>1, <1>2, <1>3, <1>7, <2>1, <2>2 DEF Grown
<1>5. CASE Created
  <2>1. Last' = Last + 1 /\ \A i \in 1 .. Last : Bytes(i)' = Bytes(i)
    BY <1>5, CreatedOf
  <2> QED  BY <1>1, <1>2, <1>3, <1>7, <2>1 DEF Grown
<1>6. ASSUME NEW n \in 1 .. left, Write(n) PROVE Grown
  <2>1. /\ Last' = Last /\ n \in Nat
        /\ \A i \in 1 .. Last : i # Last => files'[i] = files[i]
        /\ Len(files'[Last].bytes) = Len(Bytes(Last)) + n
        /\ \A k \in 1 .. Len(Bytes(Last)) : files'[Last].bytes[k] = Bytes(Last)[k]
    BY <1>6, WriteOf DEF LogInv, WriterInv
  <2>2. ASSUME NEW i \in 1 .. Last
        PROVE  /\ i # Last => Bytes(i)' = Bytes(i)
               /\ i = Last => Bytes(i)' = files'[Last].bytes
    BY <2>1 DEF Bytes
  <2>3. ASSUME NEW i \in 1 .. Last
        PROVE  /\ Len(Bytes(i)) <= Len(Bytes(i)')
               /\ \A k \in 1 .. Len(Bytes(i)) : Bytes(i)'[k] = Bytes(i)[k]
    <3>1. CASE i = Last
      BY <3>1, <2>1, <2>2, <1>3
    <3>2. CASE i # Last
      BY <3>2, <2>2, <1>3
    <3> QED  BY <3>1, <3>2
  <2>4. \A i \in 1 .. Last : i < Last => i # Last
    BY <1>2
  <2> QED  BY <1>1, <1>2, <1>3, <1>7, <2>1, <2>2, <2>3, <2>4 DEF Grown
<1> QED
  BY <1>4, <1>5, <1>6 DEF Next, Publish, LogUpdates, Start, Observe, RollOver, Replay, Skip, Decode,
     Hold, Clone, AtEnd, Read, Open, writing, vars

(* What has been logged stays logged. *)
LEMMA LoggedStays ==
  ASSUME Grown, NEW i \in 1 .. Last, NEW v, InFile(i, v)
  PROVE  InFile(i, v)'
<1>1. PICK k \in 1 .. Len(Bytes(i)) : Bytes(i)[k] = <<v, Units>>
  BY DEF Grown, InFile, Bytes
<1>2. k \in DOMAIN Bytes(i)' /\ Bytes(i)'[k] = <<v, Units>>
  BY <1>1 DEF Grown
<1> QED  BY <1>2 DEF InFile, Bytes

LEMMA LoggedFromGrows ==
  ASSUME Grown, NEW b \in Nat, b >= 1
  PROVE  LoggedFrom(b) \subseteq LoggedFrom(b)'
<1> SUFFICES ASSUME NEW v \in LoggedFrom(b) PROVE v \in LoggedFrom(b)'
  OBVIOUS
<1>1. PICK i \in b .. Last : InFile(i, v)
  BY DEF LoggedFrom, Last
<1>2. i \in 1 .. Last /\ i \in b .. Last' /\ v \in 0 .. latest'
  BY DEF Grown, LoggedFrom
<1> QED  BY <1>1, <1>2, LoggedStays DEF LoggedFrom, Last

LEMMA LoggedInGrows ==
  ASSUME Grown, NEW b, NEW v, LoggedIn(b, v)
  PROVE  LoggedIn(b, v)'
<1>1. PICK i \in 1 .. Last : b <= i /\ InFile(i, v)
  BY DEF LoggedIn
<1>2. i \in 1 .. Last'
  BY DEF Grown
<1> QED  BY <1>1, <1>2, LoggedStays DEF LoggedIn

\* A cursor that another task's step leaves alone.
Untouched(c) ==
  /\ at[c]' = at[c] /\ file[c]' = file[c] /\ pos[c]' = pos[c] /\ buffer[c]' = buffer[c]
  /\ from[c]' = from[c] /\ out[c]' = out[c] /\ begun[c]' = begun[c] /\ due[c]' = due[c]



LEMMA CursorTyped ==
  ASSUME CursorTypes, NEW c \in Cursors
  PROVE  /\ file[c] \in Nat /\ begun[c] \in Nat /\ pos[c] \in Nat
         /\ buffer[c] \in Seq(Byte) /\ Len(buffer[c]) \in Nat
         /\ out[c] \in Seq(Nat) /\ Len(out[c]) \in Nat /\ DOMAIN out[c] = 1 .. Len(out[c])
         /\ from[c] \in Nat /\ due[c] \in SUBSET Nat /\ Base(c) \in Int
BY DEF CursorTypes, Base

(* The writer's steps leave a cursor where it is, *)
LEMMA PlacedKept ==
  ASSUME NEW c \in Cursors, CursorTypes, Placed(c), Grown, Untouched(c)
  PROVE  Placed(c)'
<1>1. /\ file[c] \in Nat /\ begun[c] \in Nat /\ pos[c] \in Nat /\ Len(buffer[c]) \in Nat
      /\ Base(c) \in Int /\ Base(c)' = Base(c)
  BY CursorTyped DEF Untouched, Base
<1>2. /\ at[c]' = at[c] /\ file[c]' = file[c] /\ pos[c]' = pos[c] /\ buffer[c]' = buffer[c]
      /\ out[c]' = out[c] /\ begun[c]' = begun[c]
  BY DEF Untouched
<1>3. Last \in Nat /\ Last' \in Nat /\ Last <= Last'
  BY DEF Grown
<1>4. 1 <= begun[c] /\ begun[c] <= file[c]
  BY DEF Placed
<1>5. CASE file[c] <= Last
  <2> DEFINE bytes == Bytes(file[c])
             bytes2 == Bytes(file[c])'
  <2>1. file[c] \in 1 .. Last
    BY <1>1, <1>4, <1>5
  <2>2. /\ Len(bytes) \in Nat /\ Len(bytes2) \in Nat /\ Len(bytes) <= Len(bytes2)
        /\ \A k \in 1 .. Len(bytes) : bytes2[k] = bytes[k]
    <3>1. ASSUME NEW i \in 1 .. Last, file[c]' = i
          PROVE  Bytes(file[c])' = Bytes(i)'
      BY <3>1 DEF Bytes
    <3>2. file[c] \in 1 .. Last'
      BY <2>1, <1>3
    <3> QED  BY <2>1, <1>2, <3>1, <3>2 DEF Grown
  <2>3. /\ Base(c) >= 0 /\ pos[c] <= Len(bytes) /\ Base(c) + Len(buffer[c]) = pos[c]
        /\ \A j \in 1 .. Len(buffer[c]) : buffer[c][j] = bytes[Base(c) + j]
        /\ Base(c) = 0 \/ bytes[Base(c)][2] = Units
    <3>1. /\ Base(c) >= 0 /\ pos[c] <= Len(bytes) /\ Boundary(file[c], Base(c))
          /\ \A j \in 1 .. Len(buffer[c]) : buffer[c][j] = bytes[Base(c) + j]
      BY <1>5 DEF Placed
    <3>2. Base(c) + Len(buffer[c]) = pos[c]
      BY <1>1 DEF Base
    <3> QED  BY <3>1, <3>2 DEF Boundary
  <2> HIDE DEF bytes, bytes2
  <2>4. pos[c] <= Len(bytes2)
    BY <1>1, <2>2, <2>3
  <2>5. \A j \in 1 .. Len(buffer[c]) : buffer[c][j] = bytes2[Base(c) + j]
    <3>1. \A j \in 1 .. Len(buffer[c]) : Base(c) + j \in 1 .. Len(bytes)
      BY <1>1, <2>2, <2>3
    <3> QED  BY <2>2, <2>3, <3>1
  <2>6. Base(c) = 0 \/ bytes2[Base(c)][2] = Units
    <3>1. Base(c) # 0 => Base(c) \in 1 .. Len(bytes)
      BY <1>1, <2>2, <2>3
    <3> QED  BY <2>2, <2>3, <3>1
  <2>7. /\ at[c] = "reading" /\ buffer[c] # <<>> => pos[c] < Len(bytes2)
        /\ at[c] = "ended" => buffer[c] = <<>>
    <3>1. /\ at[c] = "reading" /\ buffer[c] # <<>> => pos[c] < Len(bytes)
          /\ at[c] = "ended" => buffer[c] = <<>>
      BY DEF Placed, bytes
    <3> QED  BY <3>1, <1>1, <2>2
  <2>8. ~(file[c]' > Last') /\ Fresh(c)' = Fresh(c)
    BY <1>1, <1>2, <1>3, <1>5 DEF Fresh
  <2>9. at[c] # "failed" /\ (at[c] \in {"closed", "skipping"} => Fresh(c))
        /\ (at[c] \in {"holding", "reading", "ended"} => Len(buffer[c]) < Units)
    BY DEF Placed
  <2>10. Boundary(file[c], Base(c))'
    BY <1>1, <1>2, <2>6 DEF Boundary, bytes2
  <2> QED  BY <1>1, <1>2, <1>4, <2>3, <2>4, <2>5, <2>7, <2>8, <2>9, <2>10 DEF Placed, bytes2
<1>6. CASE file[c] > Last
  <2>1. /\ Last = 0 /\ Fresh(c) /\ at[c] \notin {"holding", "reading", "ended", "failed"}
        /\ Fresh(c)' /\ Base(c) = 0 /\ file[c] = 1 /\ Len(buffer[c]) = 0 /\ pos[c] = 0
    BY <1>2, <1>6 DEF Placed, Fresh, Base
  <2>2. CASE Last' = 0
    BY <2>1, <2>2, <1>1, <1>2, <1>4 DEF Placed
  <2>3. CASE Last' > 0
    <3>1. Boundary(file[c], Base(c))'
      BY <2>1, <1>1 DEF Boundary
    <3>2. Len(Bytes(file[c]))' >= 0
      <4>1. file[c]' \in 1 .. Last'
        BY <2>1, <2>3, <1>2, <1>3
      <4>2. ASSUME NEW i \in 1 .. Last', file[c]' = i PROVE Len(Bytes(file[c]))' >= 0
        BY <4>2 DEF Bytes, Grown
      <4> QED  BY <4>1, <4>2
    <3> QED  BY <2>1, <2>3, <3>1, <3>2, <1>1, <1>2, <1>3, <1>4 DEF Placed
  <2> QED  BY <2>2, <2>3, <1>3
<1> QED  BY <1>5, <1>6, <1>1, <1>3

(* and what it has returned is what is behind it still. *)
LEMMA ReturnedKept ==
  ASSUME NEW c \in Cursors, CursorTypes, Placed(c), Returned(c), Grown, Untouched(c)
  PROVE  Returned(c)'
<1>1. /\ file[c] \in Nat /\ begun[c] \in Nat /\ pos[c] \in Nat /\ Len(buffer[c]) \in Nat
      /\ Base(c) \in Int /\ Base(c) <= pos[c]
  BY CursorTyped DEF Base
<1>2. /\ file[c]' = file[c] /\ out[c]' = out[c] /\ begun[c]' = begun[c]
      /\ Base(c)' = Base(c) /\ \A i, k : Behind(c, i, k)' <=> Behind(c, i, k)
  BY DEF Untouched, Behind, Base
<1>3. Last \in Nat /\ Last' \in Nat /\ Last <= Last'
  BY DEF Grown
<1>4. ASSUME NEW i \in 1 .. Last, NEW k \in 1 .. Len(Bytes(i))
      PROVE  i \in 1 .. Last' /\ k \in 1 .. Len(Bytes(i)') /\ Bytes(i)'[k] = Bytes(i)[k]
  <2>1. i \in 1 .. Last' /\ Len(Bytes(i)) \in Nat /\ Len(Bytes(i)) <= Len(Bytes(i)')
        /\ Bytes(i)'[k] = Bytes(i)[k]
    BY <1>3 DEF Grown
  <2>2. Len(Bytes(i)') \in Nat
    BY <2>1 DEF Grown
  <2> QED  BY <2>1, <2>2
<1>5. ASSUME NEW i \in 1 .. Last', NEW k \in 1 .. Len(Bytes(i)'), begun[c] <= i, Behind(c, i, k)
      PROVE  i \in 1 .. Last /\ k \in 1 .. Len(Bytes(i)) /\ Bytes(i)'[k] = Bytes(i)[k]
  <2>1. file[c] <= Last
    <3>1. CASE file[c] > Last
      <4>1. file[c] = 1 /\ Base(c) = 0 /\ begun[c] = 1
        BY <3>1 DEF Placed, Fresh, Base
      <4> QED  BY <4>1, <1>5, <1>3 DEF Behind
    <3> QED  BY <3>1, <1>1, <1>3
  <2>2. i \in 1 .. Last /\ (i < file[c] => i < Last)
    BY <2>1, <1>1, <1>3, <1>5 DEF Behind
  <2>3. CASE i < file[c]
    <3>1. Bytes(i)' = Bytes(i)
      BY <2>2, <2>3 DEF Grown
    <3> QED  BY <2>2, <3>1, <1>5
  <2>4. CASE i = file[c] /\ k <= Base(c)
    <3>1. pos[c] <= Len(Bytes(i)) /\ Len(Bytes(i)) \in Nat
      BY <2>1, <2>2, <2>4 DEF Placed, Grown
    <3>2. k \in 1 .. Len(Bytes(i))
      BY <2>4, <3>1, <1>1
    <3> QED  BY <2>2, <3>2, <1>4
  <2> QED  BY <2>3, <2>4, <1>5 DEF Behind
<1>6. \A m, n \in DOMAIN out[c] : m < n => out[c][m] < out[c][n]
  BY DEF Returned
<1>7. ASSUME NEW n \in DOMAIN out[c]
      PROVE  \E i \in 1 .. Last' : \E k \in 1 .. Len(Bytes(i)') :
               begun[c] <= i /\ Behind(c, i, k) /\ Bytes(i)'[k] = <<out[c][n], Units>>
  <2>1. PICK i \in 1 .. Last : \E k \in 1 .. Len(Bytes(i)) :
          begun[c] <= i /\ Behind(c, i, k) /\ Bytes(i)[k] = <<out[c][n], Units>>
    BY DEF Returned
  <2>2. PICK k \in 1 .. Len(Bytes(i)) :
          begun[c] <= i /\ Behind(c, i, k) /\ Bytes(i)[k] = <<out[c][n], Units>>
    BY <2>1
  <2>3. i \in 1 .. Last' /\ k \in 1 .. Len(Bytes(i)') /\ Bytes(i)'[k] = Bytes(i)[k]
    BY <1>4
  <2> QED  BY <2>2, <2>3
<1>8. ASSUME NEW i \in 1 .. Last', NEW k \in 1 .. Len(Bytes(i)'),
             i = file[c], k <= Base(c), Bytes(i)'[k][2] = Units
      PROVE  HasReturned(c, Bytes(i)'[k][1])
  <2>1. begun[c] <= i /\ Behind(c, i, k)
    BY <1>8 DEF Placed, Behind
  <2>2. i \in 1 .. Last /\ k \in 1 .. Len(Bytes(i)) /\ Bytes(i)'[k] = Bytes(i)[k]
    BY <1>5, <2>1
  <2>3. Bytes(i)[k][2] = Units
    BY <1>8, <2>2
  <2>4. HasReturned(c, Bytes(i)[k][1])
    BY <1>8, <2>2, <2>3 DEF Returned
  <2> QED  BY <2>2, <2>4
<1>12. ASSUME NEW i \in 1 .. Last', begun[c] <= i, i < file[c]
       PROVE  FirstOnes(c, i)'
  <2>1. file[c] <= Last
    <3> SUFFICES ASSUME file[c] > Last PROVE FALSE
      BY <1>1, <1>3
    <3>1. file[c] = 1
      BY DEF Placed, Fresh
    <3> QED  BY <1>12, <3>1
  <2>2. i \in 1 .. Last /\ i < Last
    BY <1>1, <1>3, <1>12, <2>1
  <2>3. Bytes(i)' = Bytes(i) /\ FirstOnes(c, i)
    BY <1>12, <2>2 DEF Grown, Returned
  <2> QED  BY <1>2, <2>3 DEF FirstOnes, HasReturned
<1>9. (\A m, n \in DOMAIN out[c] : m < n => out[c][m] < out[c][n])'
  BY <1>2, <1>6
<1>10. (\A n \in DOMAIN out[c] : \E i \in 1 .. Last : \E k \in 1 .. Len(Bytes(i)) :
          begun[c] <= i /\ Behind(c, i, k) /\ Bytes(i)[k] = <<out[c][n], Units>>)'
  <2> SUFFICES ASSUME NEW n \in DOMAIN out[c]
               PROVE  \E i \in 1 .. Last' : \E k \in 1 .. Len(Bytes(i)') :
                        begun[c] <= i /\ Behind(c, i, k)' /\ Bytes(i)'[k] = <<out[c][n], Units>>
    BY <1>2
  <2>1. PICK i \in 1 .. Last' : \E k \in 1 .. Len(Bytes(i)') :
          begun[c] <= i /\ Behind(c, i, k) /\ Bytes(i)'[k] = <<out[c][n], Units>>
    BY <1>7
  <2>2. PICK k \in 1 .. Len(Bytes(i)') :
          begun[c] <= i /\ Behind(c, i, k) /\ Bytes(i)'[k] = <<out[c][n], Units>>
    BY <2>1
  <2>3. Behind(c, i, k)'
    BY <1>2, <2>2
  <2> QED  BY <2>2, <2>3
<1>11. (\A i \in 1 .. Last : \A k \in 1 .. Len(Bytes(i)) :
          i = file[c] /\ k <= Base(c) /\ Bytes(i)[k][2] = Units
            => HasReturned(c, Bytes(i)[k][1]))'
  <2> SUFFICES ASSUME NEW i \in 1 .. Last', NEW k \in 1 .. Len(Bytes(i)'),
                      i = file[c], k <= Base(c), Bytes(i)'[k][2] = Units
               PROVE  HasReturned(c, Bytes(i)[k][1])'
    BY <1>2
  <2> QED  BY <1>2, <1>8 DEF HasReturned
<1>13. (\A i \in 1 .. Last : begun[c] <= i /\ i < file[c] => FirstOnes(c, i))'
  BY <1>2, <1>12
<1> QED  BY <1>9, <1>10, <1>11, <1>13 DEF Returned

(* What it owes, it owes still. *)
LEMMA OwedKept ==
  ASSUME NEW c \in Cursors, CursorTypes, Placed(c), Owed(c), Grown, Untouched(c)
  PROVE  Owed(c)'
<1>1. /\ at[c]' = at[c] /\ file[c]' = file[c] /\ out[c]' = out[c] /\ begun[c]' = begun[c]
      /\ due[c]' = due[c] /\ from[c]' = from[c]
  BY DEF Untouched
<1>2. PICK f, g : f = file[c] /\ g = file[c] + 1
  OBVIOUS
<1>3. ASSUME NEW v PROVE /\ LoggedIn(f, v) => LoggedIn(f, v)'
                         /\ LoggedIn(g, v) => LoggedIn(g, v)'
  BY LoggedInGrows
<1>4. ASSUME NEW v PROVE /\ LoggedIn(file[c], v)' <=> LoggedIn(f, v)'
                         /\ LoggedIn(file[c] + 1, v)' <=> LoggedIn(g, v)'
                         /\ HasReturned(c, v)' <=> HasReturned(c, v)
  BY <1>1, <1>2 DEF LoggedIn, HasReturned
<1> QED  BY <1>1, <1>2, <1>3, <1>4 DEF Owed, Stamp

LEMMA CursorKept ==
  ASSUME NEW c \in Cursors, CursorTypes, CursorInv(c), Grown, Untouched(c)
  PROVE  CursorInv(c)'
BY PlacedKept, ReturnedKept, OwedKept DEF CursorInv

-----------------------------------------------------------------------------
(* A cursor's own steps. *)

(* skip_to_hour's choice: a file that had started by the instant, if any had. *)
LEMMA TargetOf ==
  ASSUME LogInv, NEW instant \in Nat
  PROVE  /\ Target(instant) \in Nat /\ Target(instant) >= 1
         /\ Target(instant) = 1 \/ (Target(instant) <= Last /\ files[Target(instant)].start <= instant)
<1> DEFINE earlier == {i \in DOMAIN files : files[i].start <= instant}
<1>1. Last \in Nat /\ DOMAIN files = 1 .. Last
  BY BytesTyped DEF LogInv
<1>2. CASE earlier = {}
  BY <1>2 DEF Target
<1>3. CASE earlier # {}
  <2>1. \E v \in earlier : \A w \in earlier : w <= v
    <3>1. earlier \in SUBSET (0 .. Last)
      BY <1>1
    <3> HIDE DEF earlier
    <3> QED  BY <3>1, <1>1, <1>3, Largest
  <2>2. Target(instant) \in earlier
    BY <1>3, <2>1 DEF Target
  <2> QED  BY <1>1, <2>2
<1> QED  BY <1>2, <1>3

LEMMA CursorsInit == Init => CursorTypes /\ \A c \in Cursors : CursorInv(c)
BY ConstantsTyped DEF Init, CursorTypes, CursorInv, Placed, Returned, Owed, Fresh, Behind, Base, Last,
   Boundary, LoggedIn, HasReturned

LEMMA TypesStep == LogInv /\ CursorTypes /\ (\A c \in Cursors : Placed(c)) /\ [Next]_vars => CursorTypes'
<1> SUFFICES ASSUME LogInv, CursorTypes, \A c \in Cursors : Placed(c), [Next]_vars PROVE CursorTypes'
  OBVIOUS
<1>1. ASSUME UNCHANGED cursors PROVE CursorTypes'
  BY <1>1 DEF cursors, CursorTypes
<1>2. ASSUME NEW c \in Cursors, NEW instant \in 0 .. Now, Open(c, instant) PROVE CursorTypes'
  <2>1. instant \in Nat
    BY Instants DEF Now, LogInv, WriterInv
  <2>2. {v \in LoggedFrom(1) \ {0} : Stamp(v) >= instant} \in SUBSET Nat
    BY DEF LoggedFrom, LogInv, WriterInv
  <2> QED  BY <1>2, <2>1, <2>2 DEF Open, CursorTypes
<1>3. ASSUME NEW c \in Cursors, Skip(c) PROVE CursorTypes'
  <2>1. Target(from[c]) \in Nat
    BY TargetOf DEF CursorTypes
  <2> QED  BY <1>3, <2>1 DEF Skip, CursorTypes
<1>4. ASSUME NEW c \in Cursors, Decode(c) PROVE CursorTypes'
  <2>1. buffer[c] \in Seq(Byte) /\ Len(buffer[c]) >= Units /\ Units \in Nat /\ Units >= 1
    BY <1>4, ConstantsTyped DEF Decode, CursorTypes
  <2>2. buffer[c][1] \in Byte
    BY <2>1
  <2>3. buffer[c][1][1] \in Nat
    BY <2>2 DEF Byte
  <2>4. SubSeq(buffer[c], Units + 1, Len(buffer[c])) \in Seq(Byte)
    BY <2>1
  <2>5. Append(out[c], buffer[c][1][1]) \in Seq(Nat)
    BY <2>3 DEF CursorTypes
  <2> QED  BY <1>4, <2>4, <2>5 DEF Decode, CursorTypes
<1>5. ASSUME NEW c \in Cursors, Hold(c) \/ Clone(c) PROVE CursorTypes'
  BY <1>5 DEF Hold, Clone, CursorTypes
<1>6. ASSUME NEW c \in Cursors, NEW n \in 0 .. Chunk, Read(c, n) PROVE CursorTypes'
  <2> DEFINE bytes == Bytes(file[c])
             more == SubSeq(bytes, pos[c] + 1, pos[c] + n)
  <2>1. n \in Nat
    BY ConstantsTyped
  <2>2. file[c] \in 1 .. Last
    BY <1>6, CursorTyped, BytesTyped DEF Read, LogInv, Placed
  <2>3. bytes \in Seq(Byte) /\ Len(bytes) \in Nat
    BY <2>2, BytesTyped DEF LogInv
  <2>4. pos[c] \in Nat /\ pos[c] + n <= Len(bytes)
    BY <1>6, <2>1, <2>3, CursorTyped DEF Read, Ahead, Bytes
  <2>5. more \in Seq(Byte)
    <3> HIDE DEF bytes
    <3>1. \A i \in pos[c] + 1 .. pos[c] + n : bytes[i] \in Byte
      <4> SUFFICES ASSUME NEW i \in pos[c] + 1 .. pos[c] + n PROVE bytes[i] \in Byte
        OBVIOUS
      <4>1. i \in 1 .. Len(bytes)
        BY <2>1, <2>3, <2>4
      <4> QED  BY <2>3, <4>1, ElementOfSeq
    <3> QED  BY <3>1, <2>1, <2>4, SubSeqProperties
  <2>6. buffer[c] \o more \in Seq(Byte)
    <3> HIDE DEF more
    <3> QED  BY <2>5, CursorTyped, ConcatProperties
  <2> HIDE DEF more
  <2>7. buffer' = [buffer EXCEPT ![c] = buffer[c] \o more] /\ pos' = [pos EXCEPT ![c] = pos[c] + n]
    BY <1>6 DEF Read, CursorTypes, more, Bytes
  <2>8. pos[c] + n \in Nat /\ UNCHANGED <<file, from, out, begun, due>>
        /\ at' = [at EXCEPT ![c] = IF n = 0 THEN "ended" ELSE "decoding"]
    BY <1>6, <2>1, <2>4 DEF Read
  <2> QED  BY <2>6, <2>7, <2>8 DEF CursorTypes
<1>7. ASSUME NEW c \in Cursors, AtEnd(c) PROVE CursorTypes'
  <2>1. /\ UNCHANGED <<buffer, from, out, begun, due>>
        /\ \E to \in {"done", "decoding"} : at' = [at EXCEPT ![c] = to]
        /\ file' = file \/ file' = [file EXCEPT ![c] = file[c] + 1]
        /\ pos' = pos \/ pos' = [pos EXCEPT ![c] = 0]
    BY <1>7 DEF AtEnd, NextPos
  <2>2. file[c] + 1 \in Nat
    BY CursorTyped
  <2>3. file' \in [Cursors -> Nat]
    BY <2>1, <2>2 DEF CursorTypes
  <2>4. pos' \in [Cursors -> Nat]
    BY <2>1 DEF CursorTypes
  <2> QED  BY <2>1, <2>3, <2>4 DEF CursorTypes
<1>8. CASE Publish \/ LogUpdates \/ UNCHANGED vars
  BY <1>1, <1>8 DEF Publish, LogUpdates, Start, Observe, RollOver, Created, Write, vars
<1> QED  BY <1>2, <1>3, <1>4, <1>5, <1>6, <1>7, <1>8 DEF Next, Replay

(* A cursor's steps leave the log alone. *)
LEMMA LogStill ==
  ASSUME UNCHANGED <<latest, listener, writing>>
  PROVE  /\ Last' = Last /\ writer' = writer /\ latest' = latest /\ files' = files
         /\ \A i : Bytes(i)' = Bytes(i) /\ \A v : InFile(i, v)' <=> InFile(i, v)
         /\ \A b : LoggedFrom(b)' = LoggedFrom(b)
<1>1. writer' = writer /\ latest' = latest /\ files' = files
  BY DEF writing
<1> QED  BY <1>1 DEF Last, Bytes, InFile, LoggedFrom

LEMMA OthersKept ==
  ASSUME LogInv, CursorTypes, UNCHANGED <<latest, listener, writing>>,
         NEW d \in Cursors, CursorInv(d), Untouched(d)
  PROVE  CursorInv(d)'
<1>1. /\ Last' = Last /\ writer' = writer /\ latest' = latest /\ files' = files
      /\ \A i : Bytes(i)' = Bytes(i)
  BY LogStill
<1>2. Grown
  BY <1>1, BytesTyped DEF Grown, LogInv, WriterInv
<1> QED  BY <1>2, CursorKept

(* Where a cursor is after its step, in terms of the log before it. *)
LEMMA PlacedAt ==
  ASSUME NEW c \in Cursors, UNCHANGED <<latest, listener, writing>>, Last \in Nat,
         NEW f \in 1 .. Last, NEW p \in Nat, NEW b,
         file[c]' = f, pos[c]' = p, buffer[c]' = b,
         1 <= begun[c]', begun[c]' <= f,
         at[c]' # "failed", at[c]' \in {"closed", "skipping"} => Fresh(c)',
         p - Len(b) >= 0, p <= Len(Bytes(f)), Boundary(f, p - Len(b)),
         \A j \in 1 .. Len(b) : b[j] = Bytes(f)[p - Len(b) + j],
         at[c]' \in {"holding", "reading", "ended"} => Len(b) < Units,
         at[c]' = "reading" /\ b # <<>> => p < Len(Bytes(f)),
         at[c]' = "ended" => b = <<>>
  PROVE  Placed(c)'
<1>1. Last' = Last /\ Bytes(f)' = Bytes(f) /\ files' = files
  BY LogStill
<1>2. Bytes(file[c])' = Bytes(f)
  BY <1>1 DEF Bytes
<1>3. Base(c)' = p - Len(b)
  BY DEF Base
<1>4. Boundary(file[c], Base(c))'
  BY <1>2, <1>3 DEF Boundary
<1>5. ~(file[c]' > Last') /\ file[c]' <= Last'
  BY <1>1
<1> QED  BY <1>1, <1>2, <1>3, <1>4, <1>5 DEF Placed

LEMMA PlacedFresh ==
  ASSUME NEW c \in Cursors, UNCHANGED <<latest, listener, writing>>, Last = 0, Fresh(c)',
         at[c]' \in {"skipping", "decoding", "done"}
  PROVE  Placed(c)'
<1>1. Last' = 0
  BY LogStill
<1> QED  BY <1>1 DEF Placed, Fresh

(* What it has returned is still what is behind it. *)
LEMMA ReturnedStill ==
  ASSUME NEW c \in Cursors, UNCHANGED <<latest, listener, writing>>,
         Returned(c), out[c]' = out[c], begun[c]' = begun[c],
         file[c]' = file[c], Base(c)' = Base(c)
  PROVE  Returned(c)'
<1>1. Last' = Last /\ \A i : Bytes(i)' = Bytes(i)
  BY LogStill
<1>0. /\ \A i, k : Behind(c, i, k)' <=> Behind(c, i, k)
      /\ \A v : HasReturned(c, v)' <=> HasReturned(c, v)
  BY DEF Behind, HasReturned
<1>2. (\A m, n \in DOMAIN out[c] : m < n => out[c][m] < out[c][n])'
  BY DEF Returned
<1>3. ASSUME NEW n \in DOMAIN out[c]
      PROVE  \E i \in 1 .. Last : \E k \in 1 .. Len(Bytes(i)) :
               begun[c] <= i /\ Behind(c, i, k)' /\ Bytes(i)[k] = <<out[c][n], Units>>
  <2>1. PICK i \in 1 .. Last : \E k \in 1 .. Len(Bytes(i)) :
          begun[c] <= i /\ Behind(c, i, k) /\ Bytes(i)[k] = <<out[c][n], Units>>
    BY DEF Returned
  <2> QED  BY <1>0, <2>1
<1>4. (\A n \in DOMAIN out[c] : \E i \in 1 .. Last : \E k \in 1 .. Len(Bytes(i)) :
         begun[c] <= i /\ Behind(c, i, k) /\ Bytes(i)[k] = <<out[c][n], Units>>)'
  BY <1>1, <1>3
<1>5. (\A i \in 1 .. Last : \A k \in 1 .. Len(Bytes(i)) :
         i = file[c] /\ k <= Base(c) /\ Bytes(i)[k][2] = Units
           => HasReturned(c, Bytes(i)[k][1]))'
  <2> SUFFICES ASSUME NEW i \in 1 .. Last, NEW k \in 1 .. Len(Bytes(i)),
                      i = file[c], k <= Base(c), Bytes(i)[k][2] = Units
               PROVE  HasReturned(c, Bytes(i)[k][1])'
    BY <1>1 DEF HasReturned
  <2>1. PICK w : w = Bytes(i)[k][1]
    OBVIOUS
  <2>2. HasReturned(c, w)'
    BY <1>0, <2>1 DEF Returned
  <2> QED  BY <1>1, <2>1, <2>2 DEF HasReturned
<1>6. (\A i \in 1 .. Last : begun[c] <= i /\ i < file[c] => FirstOnes(c, i))'
  <2>1. \A i : FirstOnes(c, i)' <=> FirstOnes(c, i)
    BY <1>1 DEF FirstOnes, HasReturned
  <2> QED  BY <1>1, <2>1 DEF Returned
<1> QED  BY <1>2, <1>4, <1>5, <1>6 DEF Returned

(* What it owes, it owes until it is at an end. *)
LEMMA OwedStill ==
  ASSUME NEW c \in Cursors, UNCHANGED <<latest, listener, writing>>,
         Owed(c), from[c]' = from[c], due[c]' = due[c], at[c]' # "closed",
         \A v \in due[c] : HasReturned(c, v) => HasReturned(c, v)',
         \A v \in due[c] : HasReturned(c, v) \/ LoggedIn(file[c]', v),
         at[c]' = "ended" => \A v \in due[c] : HasReturned(c, v) \/ LoggedIn(file[c]' + 1, v),
         at[c]' = "done" => \A v \in due[c] : HasReturned(c, v)
  PROVE  Owed(c)'
<1>1. Last' = Last /\ files' = files
  BY LogStill
<1>2. \A v : /\ LoggedIn(file[c], v)' <=> LoggedIn(file[c]', v)
             /\ LoggedIn(file[c] + 1, v)' <=> LoggedIn(file[c]' + 1, v)
  BY <1>1 DEF LoggedIn, InFile
<1> QED  BY <1>2 DEF Owed, Stamp

LEMMA WhereItIs ==
  ASSUME LogInv, CursorTypes, NEW c \in Cursors, Placed(c)
  PROVE  /\ Last \in Nat /\ file[c] \in Nat /\ pos[c] \in Nat /\ Len(buffer[c]) \in Nat
         /\ 1 <= begun[c] /\ begun[c] <= file[c] /\ begun[c] \in Nat
         /\ Base(c) \in Int /\ pos[c] = Base(c) + Len(buffer[c])
         /\ file[c] <= Last =>
              file[c] \in 1 .. Last /\ Len(Bytes(file[c])) \in Nat /\ Base(c) \in Nat
<1>1. /\ Last \in Nat /\ file[c] \in Nat /\ pos[c] \in Nat /\ Len(buffer[c]) \in Nat
      /\ begun[c] \in Nat /\ 1 <= begun[c] /\ begun[c] <= file[c]
  BY BytesTyped, CursorTyped DEF LogInv, Placed
<1>2. file[c] <= Last => file[c] \in 1 .. Last /\ Base(c) >= 0
  BY <1>1 DEF Placed
<1>3. Base(c) \in Int /\ pos[c] = Base(c) + Len(buffer[c])
  BY <1>1 DEF Base
<1> QED  BY <1>1, <1>2, <1>3, BytesTyped DEF LogInv

LEMMA OpenOwn ==
  ASSUME LogInv, CursorTypes, NEW c \in Cursors, CursorInv(c),
         NEW instant \in 0 .. Now, Open(c, instant)
  PROVE  CursorInv(c)'
<1>1. /\ UNCHANGED <<latest, listener, writing>>
      /\ at[c] = "closed" /\ at[c]' = "skipping" /\ from[c]' = instant
      /\ due[c]' = {v \in LoggedFrom(1) \ {0} : Stamp(v) >= instant}
      /\ file[c]' = file[c] /\ pos[c]' = pos[c] /\ buffer[c]' = buffer[c]
      /\ out[c]' = out[c] /\ begun[c]' = begun[c]
  BY DEF Open, CursorTypes
<1>2. Placed(c) /\ Returned(c) /\ Fresh(c)
  BY <1>1 DEF CursorInv, Placed
<1>3. Fresh(c)'
  BY <1>1, <1>2 DEF Fresh
<1>4. /\ file[c]' = 1 /\ pos[c]' = 0 /\ buffer[c]' = <<>> /\ begun[c]' = 1
      /\ Last \in Nat /\ Len(<<>>) = 0
  BY <1>1, <1>2, BytesTyped DEF Fresh, LogInv
<1>5. Placed(c)'
  <2>1. CASE Last = 0
    BY <1>1, <1>3, <2>1, PlacedFresh
  <2>2. CASE Last > 0
    <3>1. 1 \in 1 .. Last /\ Len(Bytes(1)) \in Nat
      BY <1>4, <2>2, BytesTyped DEF LogInv
    <3>2. Boundary(1, 0)
      BY DEF Boundary
    <3> QED  BY <1>1, <1>3, <1>4, <3>1, <3>2, PlacedAt
  <2> QED  BY <1>4, <2>1, <2>2
<1>6. Returned(c)'
  BY <1>1, <1>2, ReturnedStill DEF Behind, Base
<1>7. Owed(c)'
  <2>1. \A v \in LoggedFrom(1) : LoggedIn(1, v)
    BY DEF LoggedFrom, LoggedIn, Last
  <2>2. \A v : LoggedIn(file[c], v)' <=> LoggedIn(1, v)
    BY <1>1, <1>4, LogStill DEF LoggedIn
  <2> QED  BY <1>1, <2>1, <2>2 DEF Owed, Stamp
<1> QED  BY <1>5, <1>6, <1>7 DEF CursorInv

(* skip_to_hour leaves nothing behind that was published by the instant. *)
LEMMA SkipOwn ==
  ASSUME LogInv, CursorTypes, NEW c \in Cursors, CursorInv(c), Skip(c)
  PROVE  CursorInv(c)'
<1> DEFINE target == Target(from[c])
<1>1. /\ UNCHANGED <<latest, listener, writing>>
      /\ at[c] = "skipping" /\ at[c]' = "decoding"
      /\ file[c]' = target /\ begun[c]' = target
      /\ pos[c]' = pos[c] /\ buffer[c]' = buffer[c]
      /\ out[c]' = out[c] /\ from[c]' = from[c] /\ due[c]' = due[c]
  BY DEF Skip, CursorTypes
<1>2. Placed(c) /\ Returned(c) /\ Owed(c) /\ Fresh(c)
  BY <1>1 DEF CursorInv, Placed
<1>3. /\ pos[c]' = 0 /\ buffer[c]' = <<>> /\ out[c]' = <<>> /\ Len(<<>>) = 0
      /\ Last \in Nat /\ from[c] \in Nat
  BY <1>1, <1>2, BytesTyped, CursorTyped DEF Fresh, LogInv
<1>4. /\ target \in Nat /\ target >= 1
      /\ target = 1 \/ (target <= Last /\ files[target].start <= from[c])
  BY <1>3, TargetOf
<1> HIDE DEF target
<1>5. Placed(c)'
  <2>1. CASE Last = 0
    <3>1. Fresh(c)'
      BY <1>1, <1>3, <1>4, <2>1 DEF Fresh
    <3> QED  BY <1>1, <2>1, <3>1, PlacedFresh
  <2>2. CASE Last > 0
    <3>1. target \in 1 .. Last /\ Len(Bytes(target)) \in Nat
      BY <1>3, <1>4, <2>2, BytesTyped DEF LogInv
    <3>2. Boundary(target, 0)
      BY DEF Boundary
    <3> QED  BY <1>1, <1>3, <3>1, <3>2, PlacedAt
  <2> QED  BY <1>3, <2>1, <2>2
<1>6. Returned(c)'
  <2>1. Base(c)' = 0
    <3>1. Len(buffer[c]') = 0 /\ Base(c)' = pos[c]' - Len(buffer[c]')
      BY <1>3 DEF Base
    <3> QED  BY <1>3, <3>1
  <2>2. \A i \in 1 .. Last' : \A k \in 1 .. Len(Bytes(i)') : k \in Nat /\ k >= 1
    <3>1. Last' = Last /\ \A i : Bytes(i)' = Bytes(i)
      BY <1>1, LogStill
    <3>2. \A i \in 1 .. Last : Len(Bytes(i)) \in Nat
      BY BytesTyped DEF LogInv
    <3> QED  BY <3>1, <3>2
  <2>3. \A i \in 1 .. Last' : ~(begun[c]' <= i /\ i < file[c]')
    BY <1>1, <1>4, <1>3, LogStill
  <2> QED  BY <1>3, <2>1, <2>2, <2>3 DEF Returned
<1>7. \A v \in due[c] : LoggedIn(target, v)
  <2> SUFFICES ASSUME NEW v \in due[c] PROVE LoggedIn(target, v)
    OBVIOUS
  <2>1. LoggedIn(1, v) /\ Stamp(v) >= from[c] /\ v \in Nat /\ 2 * v \in Nat
    BY <1>2, CursorTyped DEF Owed, Fresh, HasReturned
  <2>2. PICK i \in 1 .. Last : InFile(i, v)
    BY <2>1 DEF LoggedIn
  <2>3. i >= target
    <3> SUFFICES ASSUME i < target PROVE FALSE
      BY <1>3, <1>4
    <3>1. target \in 1 .. Last /\ files[target].start <= from[c] /\ files[target].start \in Nat
      BY <1>3, <1>4, BytesTyped DEF LogInv
    <3>2. PICK k \in DOMAIN Bytes(i) : Bytes(i)[k] = <<v, Units>>
      BY <2>2 DEF InFile, Bytes
    <3>3. DOMAIN files = 1 .. Last /\ Bytes(i)[k][1] = v
      BY <3>2, BytesTyped DEF LogInv
    <3>4. Stamp(v) < files[target].start
      BY <3>1, <3>2, <3>3 DEF LogInv, Stamped
    <3> QED  BY <1>3, <2>1, <3>1, <3>4 DEF Stamp
  <2> QED  BY <2>2, <2>3 DEF LoggedIn
<1>8. Owed(c)'
  BY <1>1, <1>2, <1>7, OwedStill DEF HasReturned
<1> QED  BY <1>5, <1>6, <1>8 DEF CursorInv

(* What a cursor at work knows of its buffer. *)
LEMMA InBuffer ==
  ASSUME LogInv, CursorTypes, NEW c \in Cursors, Placed(c), file[c] <= Last,
         NEW j \in 1 .. Units, j <= Len(buffer[c])
  PROVE  /\ Base(c) + j \in 1 .. Len(Bytes(file[c]))
         /\ buffer[c][j] = Bytes(file[c])[Base(c) + j]
         /\ buffer[c][j] = <<buffer[c][1][1], j>>
<1>1. PICK f, base, b : f = file[c] /\ base = Base(c) /\ b = buffer[c]
  OBVIOUS
<1>2. /\ f \in 1 .. Last /\ Len(Bytes(f)) \in Nat /\ base \in Nat
      /\ Len(b) \in Nat /\ pos[c] = base + Len(b)
  BY <1>1, WhereItIs
<1>3. /\ base + Len(b) <= Len(Bytes(f)) /\ Boundary(f, base)
      /\ \A x \in 1 .. Len(b) : b[x] = Bytes(f)[base + x]
  BY <1>1, <1>2 DEF Placed
<1>4. Units \in Nat /\ 1 \in 1 .. Len(b) /\ j \in 1 .. Len(b)
  BY <1>1, <1>2, ConstantsTyped
<1>5. base <= Len(Bytes(f)) /\ base + j <= Len(Bytes(f)) /\ base + j \in 1 .. Len(Bytes(f))
  BY <1>2, <1>3, <1>4
<1>6. Bytes(f)[base + j] = <<Bytes(f)[base + 1][1], j>>
  BY <1>2, <1>3, <1>5, RecordAt
<1>7. b[j] = Bytes(f)[base + j] /\ b[1] = Bytes(f)[base + 1]
  BY <1>3, <1>4
<1> QED  BY <1>1, <1>5, <1>6, <1>7

LEMMA LastOrBefore ==
  ASSUME NEW m \in Nat, NEW n \in 1 .. m + 1
  PROVE  n \in 1 .. m \/ n = m + 1
OBVIOUS

(* What is decoded is a whole record, and the next of those to return. *)
LEMMA DecodeOwn ==
  ASSUME LogInv, CursorTypes, NEW c \in Cursors, CursorInv(c), Decode(c)
  PROVE  CursorInv(c)'
<1>0. PICK f, base, b, size, p, v, rest, o :
        /\ f = file[c] /\ base = Base(c) /\ b = buffer[c] /\ size = Len(b)
        /\ p = pos[c] /\ v = b[1][1] /\ rest = SubSeq(b, Units + 1, Len(b)) /\ o = out[c]
  OBVIOUS
<1>1. /\ UNCHANGED <<latest, listener, writing>>
      /\ at[c] = "decoding" /\ size >= Units
      /\ IF SubSeq(b, 1, Units) = Encoding(v)
           THEN out' = [out EXCEPT ![c] = Append(o, v)] /\ UNCHANGED at
           ELSE at' = [at EXCEPT ![c] = "failed"] /\ UNCHANGED out
      /\ buffer[c]' = rest
      /\ file[c]' = f /\ pos[c]' = p /\ begun[c]' = begun[c]
      /\ from[c]' = from[c] /\ due[c]' = due[c]
  BY <1>0 DEF Decode, CursorTypes
<1>2. /\ Placed(c) /\ Returned(c) /\ Owed(c) /\ Units \in Nat /\ Units >= 1
      /\ b \in Seq(Byte) /\ o \in Seq(Nat) /\ DOMAIN o = 1 .. Len(o)
      /\ Len(o) \in Nat /\ size \in Nat /\ size = Len(b)
  BY <1>0, ConstantsTyped, CursorTyped DEF CursorInv
<1>3. f <= Last
  <2> SUFFICES ASSUME f > Last PROVE FALSE
    BY <1>0, <1>2, WhereItIs
  <2>1. b = <<>>
    BY <1>0, <1>2 DEF Placed, Fresh
  <2> QED  BY <1>1, <1>2, <2>1
<1>4. /\ f \in 1 .. Last /\ Last \in Nat /\ Len(Bytes(f)) \in Nat /\ base \in Nat
      /\ p \in Nat /\ p = base + size /\ begun[c] \in Nat
      /\ 1 <= begun[c] /\ begun[c] <= f
  BY <1>0, <1>2, <1>3, WhereItIs
<1>5. p <= Len(Bytes(f)) /\ \A j \in 1 .. size : b[j] = Bytes(f)[base + j]
  BY <1>0, <1>2, <1>3 DEF Placed
<1>6. \A j \in 1 .. Units : b[j] = <<v, j>> /\ Bytes(f)[base + j] = <<v, j>>
  <2> SUFFICES ASSUME NEW j \in 1 .. Units
               PROVE  b[j] = <<v, j>> /\ Bytes(f)[base + j] = <<v, j>>
    OBVIOUS
  <2>1. j <= size
    BY <1>1, <1>2
  <2> QED  BY <1>0, <1>2, <1>3, <2>1, InBuffer
<1>7. v \in Nat
  <2>1. b[1] \in Byte
    BY <1>1, <1>2
  <2> QED  BY <1>0, <2>1 DEF Byte
<1>8. SubSeq(b, 1, Units) = Encoding(v)
  <2>1. /\ SubSeq(b, 1, Units) \in Seq(Byte) /\ Len(SubSeq(b, 1, Units)) = Units
        /\ \A j \in 1 .. Units : SubSeq(b, 1, Units)[j] = b[1 + j - 1]
    <3>1. \A i \in 1 .. Units : b[i] \in Byte
      BY <1>1, <1>2, ElementOfSeq
    <3> QED  BY <1>1, <1>2, <3>1, SubSeqProperties
  <2>2. SubSeq(b, 1, Units) = [j \in 1 .. Units |-> SubSeq(b, 1, Units)[j]]
    BY <2>1, <1>2
  <2>3. \A j \in 1 .. Units : 1 + j - 1 = j
    BY <1>2
  <2>4. \A j \in 1 .. Units : SubSeq(b, 1, Units)[j] = <<v, j>>
    BY <1>6, <2>1, <2>3
  <2> QED  BY <2>2, <2>4 DEF Encoding
<1>9. out[c]' = Append(o, v) /\ at[c]' = "decoding"
  BY <1>1, <1>8 DEF CursorTypes
<1>10. /\ Len(rest) = size - Units
       /\ \A j \in 1 .. Len(rest) : rest[j] = b[Units + j]
  <2>1. \A i \in Units + 1 .. size : b[i] \in Byte
    BY <1>2, ElementOfSeq
  <2>2. Units + 1 \in Nat /\ Units + 1 >= 1 /\ size >= Units + 1 - 1
    BY <1>1, <1>2
  <2>3. /\ Len(rest) = size - (Units + 1) + 1
        /\ \A j \in 1 .. size - (Units + 1) + 1 : rest[j] = b[Units + 1 + j - 1]
    BY <1>0, <1>1, <1>2
  <2> QED  BY <1>1, <1>2, <2>3
<1>11. p - Len(rest) = base + Units /\ Base(c)' = base + Units
  <2>1. p - Len(rest) = base + Units
    <3>1. Len(rest) = size - Units /\ p = base + size
      BY <1>4, <1>10
    <3>2. base \in Nat /\ Units \in Nat /\ size \in Nat
      BY <1>2, <1>4
    <3> QED  BY <3>1, <3>2
  <2>2. Base(c)' = pos[c]' - Len(buffer[c]')
    BY DEF Base
  <2> QED  BY <1>1, <2>1, <2>2
<1>12. Placed(c)'
  <2>1. Boundary(f, p - Len(rest))
    <3>1. Bytes(f)[base + Units] = <<v, Units>>
      BY <1>2, <1>6
    <3> QED  BY <1>11, <3>1 DEF Boundary
  <2>2. \A j \in 1 .. Len(rest) : rest[j] = Bytes(f)[p - Len(rest) + j]
    <3> SUFFICES ASSUME NEW j \in 1 .. Len(rest)
                 PROVE  rest[j] = Bytes(f)[p - Len(rest) + j]
      OBVIOUS
    <3>1. /\ Units + j \in 1 .. size /\ rest[j] = b[Units + j]
          /\ base + (Units + j) = p - Len(rest) + j
      <4>1. rest[j] = b[Units + j] /\ j \in 1 .. size - Units
        BY <1>10
      <4>2. p - Len(rest) = base + Units
        BY <1>11
      <4>3. base \in Nat /\ Units \in Nat /\ size \in Nat
        BY <1>2, <1>4
      <4> QED  BY <4>1, <4>2, <4>3
    <3> QED  BY <1>5, <3>1
  <2>3. p - Len(rest) >= 0
    BY <1>2, <1>4, <1>11
  <2> QED  BY <1>1, <1>4, <1>5, <1>9, <2>1, <2>2, <2>3, PlacedAt
<1>13. /\ base + Units \in 1 .. Len(Bytes(f)) /\ Bytes(f)[base + Units] = <<v, Units>>
       /\ base < base + Units
  <2>1. base \in Nat /\ Units \in Nat /\ Units >= 1 /\ size \in Nat /\ Units <= size
    BY <1>1, <1>2, <1>4
  <2>2. base + size <= Len(Bytes(f)) /\ Len(Bytes(f)) \in Nat
    BY <1>4, <1>5
  <2>3. Units \in 1 .. Units
    BY <2>1
  <2>4. Bytes(f)[base + Units] = <<v, Units>>
    BY <1>6, <2>3
  <2> QED  BY <2>1, <2>2, <2>4
<1>14. /\ DOMAIN out[c]' = 1 .. Len(o) + 1 /\ out[c]'[Len(o) + 1] = v
       /\ \A n \in 1 .. Len(o) : out[c]'[n] = o[n]
  BY <1>2, <1>7, <1>9
<1>15. Last' = Last /\ \A i : Bytes(i)' = Bytes(i)
  BY <1>1, LogStill
<1>20. ASSUME NEW w PROVE HasReturned(c, w)' <=> HasReturned(c, w) \/ w = v
  <2>1. HasReturned(c, w)' <=> \E n \in 1 .. Len(o) + 1 : out[c]'[n] = w
    BY <1>14 DEF HasReturned
  <2>2. HasReturned(c, w) <=> \E n \in 1 .. Len(o) : o[n] = w
    BY <1>0, <1>2 DEF HasReturned
  <2>3. /\ Len(o) + 1 \in 1 .. Len(o) + 1 /\ \A n \in 1 .. Len(o) : n \in 1 .. Len(o) + 1
        /\ \A n \in 1 .. Len(o) + 1 : n \in 1 .. Len(o) \/ n = Len(o) + 1
    BY <1>2
  <2> QED  BY <1>14, <2>1, <2>2, <2>3
<1>16. /\ \A i, k : Behind(c, i, k)' <=> i < f \/ (i = f /\ k <= base + Units)
       /\ \A i, k : Behind(c, i, k) <=> i < f \/ (i = f /\ k <= base)
  BY <1>0, <1>1, <1>11 DEF Behind
<1>17. \A n \in 1 .. Len(o) : o[n] < v
  <2> SUFFICES ASSUME NEW n \in 1 .. Len(o) PROVE o[n] < v
    OBVIOUS
  <2>1. PICK i \in 1 .. Last : \E k \in 1 .. Len(Bytes(i)) :
          Behind(c, i, k) /\ Bytes(i)[k] = <<o[n], Units>>
    BY <1>0, <1>2 DEF Returned
  <2>2. PICK k \in 1 .. Len(Bytes(i)) : Behind(c, i, k) /\ Bytes(i)[k] = <<o[n], Units>>
    BY <2>1
  <2>3. /\ DOMAIN files = 1 .. Last /\ DOMAIN Bytes(i) = 1 .. Len(Bytes(i))
        /\ DOMAIN Bytes(f) = 1 .. Len(Bytes(f))
    BY <1>4, BytesTyped DEF LogInv
  <2>4. /\ Bytes(i)[k][1] = o[n] /\ Bytes(i)[k][2] = Units
        /\ Bytes(f)[base + Units][1] = v
    BY <1>13, <2>2
  <2>5. CASE i < f
    BY <1>4, <1>13, <2>3, <2>4, <2>5 DEF LogInv, Ordered
  <2>6. CASE i = f /\ k <= base
    <3>1. k < base + Units
      BY <1>2, <1>4, <2>6
    <3> QED  BY <1>4, <1>13, <2>3, <2>4, <2>6, <3>1 DEF LogInv, Ordered
  <2> QED  BY <1>16, <2>2, <2>5, <2>6
<1>18. Returned(c)'
  <2>1. (\A m, n \in DOMAIN out[c] : m < n => out[c][m] < out[c][n])'
    <3> SUFFICES ASSUME NEW m \in 1 .. Len(o) + 1, NEW n \in 1 .. Len(o) + 1, m < n
                 PROVE  out[c]'[m] < out[c]'[n]
      BY <1>14
    <3>1. m \in 1 .. Len(o)
      BY <1>2
    <3>2. CASE n \in 1 .. Len(o)
      BY <1>0, <1>2, <1>14, <3>1, <3>2 DEF Returned
    <3>3. CASE n = Len(o) + 1
      BY <1>14, <1>17, <3>1, <3>3
    <3>4. n \in 1 .. Len(o) \/ n = Len(o) + 1
      BY <1>2, LastOrBefore
    <3> QED  BY <3>2, <3>3, <3>4
  <2>2. (\A n \in DOMAIN out[c] : \E i \in 1 .. Last : \E k \in 1 .. Len(Bytes(i)) :
           begun[c] <= i /\ Behind(c, i, k) /\ Bytes(i)[k] = <<out[c][n], Units>>)'
    <3> SUFFICES ASSUME NEW n \in 1 .. Len(o) + 1
                 PROVE  \E i \in 1 .. Last : \E k \in 1 .. Len(Bytes(i)) :
                          begun[c] <= i /\ Behind(c, i, k)'
                          /\ Bytes(i)[k] = <<out[c]'[n], Units>>
      BY <1>1, <1>14, <1>15
    <3>1. CASE n \in 1 .. Len(o)
      <4>1. PICK i \in 1 .. Last : \E k \in 1 .. Len(Bytes(i)) :
              begun[c] <= i /\ Behind(c, i, k) /\ Bytes(i)[k] = <<o[n], Units>>
        BY <1>0, <1>2, <3>1 DEF Returned
      <4>2. PICK k \in 1 .. Len(Bytes(i)) :
              begun[c] <= i /\ Behind(c, i, k) /\ Bytes(i)[k] = <<o[n], Units>>
        BY <4>1
      <4>3. k \in Nat
        BY <4>1, BytesTyped DEF LogInv
      <4>4. Behind(c, i, k)'
        <5>1. k <= base => k <= base + Units
          BY <1>2, <1>4, <4>3
        <5> QED  BY <1>16, <4>2, <5>1
      <4> QED  BY <1>14, <3>1, <4>2, <4>4
    <3>2. CASE n = Len(o) + 1
      <4>1. \E k \in 1 .. Len(Bytes(f)) :
              Behind(c, f, k)' /\ Bytes(f)[k] = <<v, Units>>
        <5>1. PICK k : k = base + Units
          OBVIOUS
        <5>2. k \in 1 .. Len(Bytes(f)) /\ Bytes(f)[k] = <<v, Units>>
          BY <1>13, <5>1
        <5>3. k <= base + Units
          BY <1>2, <1>4, <5>1
        <5> QED  BY <1>16, <5>2, <5>3
      <4> QED  BY <1>4, <1>14, <3>2, <4>1
    <3>3. n \in 1 .. Len(o) \/ n = Len(o) + 1
      BY <1>2, LastOrBefore
    <3> QED  BY <3>1, <3>2, <3>3
  <2>3. (\A i \in 1 .. Last : \A k \in 1 .. Len(Bytes(i)) :
           i = file[c] /\ k <= Base(c) /\ Bytes(i)[k][2] = Units
             => HasReturned(c, Bytes(i)[k][1]))'
    <3> SUFFICES ASSUME NEW i \in 1 .. Last, NEW k \in 1 .. Len(Bytes(i)),
                        i = f, k <= base + Units, Bytes(i)[k][2] = Units
                 PROVE  HasReturned(c, Bytes(i)[k][1])'
      BY <1>1, <1>11, <1>15 DEF HasReturned
    <3>1. CASE k <= base
      <4>1. PICK w : w = Bytes(i)[k][1]
        OBVIOUS
      <4>2. HasReturned(c, w)'
        BY <1>0, <1>2, <1>20, <3>1, <4>1 DEF Returned
      <4> QED  BY <1>15, <4>1, <4>2 DEF HasReturned
    <3>2. CASE ~(k <= base)
      <4>1. k \in Nat /\ base < k
        BY <1>4, <3>2, BytesTyped DEF LogInv
      <4>2. PICK j \in 1 .. Units : k = base + j
        <5>1. base \in Nat /\ Units \in Nat
          BY <1>2, <1>4
        <5>2. k - base \in 1 .. Units /\ k = base + (k - base)
          BY <4>1, <5>1
        <5> QED  BY <5>2
      <4>3. Bytes(i)[k][1] = v /\ HasReturned(c, v)'
        BY <1>6, <1>20, <4>2
      <4> QED  BY <1>15, <4>3 DEF HasReturned
    <3> QED  BY <3>1, <3>2
  <2>4. ASSUME NEW i \in 1 .. Last, begun[c] <= i, i < f PROVE FirstOnes(c, i)'
    <3> SUFFICES ASSUME NEW k \in 1 .. Len(Bytes(i)), NEW l \in 1 .. Len(Bytes(i)),
                        k < l, Bytes(i)[k][2] = Units, Bytes(i)[l][2] = Units,
                        HasReturned(c, Bytes(i)[l][1])'
                 PROVE  HasReturned(c, Bytes(i)[k][1])'
      BY <1>15 DEF FirstOnes, HasReturned
    <3>1. Bytes(i)[l][1] # v
      <4>1. /\ DOMAIN files = 1 .. Last /\ DOMAIN Bytes(i) = 1 .. Len(Bytes(i))
            /\ DOMAIN Bytes(f) = 1 .. Len(Bytes(f)) /\ Bytes(i)[l][1] \in Nat
        BY <1>4, BytesTyped DEF LogInv
      <4>2. Bytes(i)[l][1] < Bytes(f)[base + Units][1]
        BY <1>4, <1>13, <2>4, <4>1 DEF LogInv, Ordered
      <4> QED  BY <1>7, <1>13, <4>1, <4>2
    <3>2. PICK w, x : w = Bytes(i)[l][1] /\ x = Bytes(i)[k][1]
      OBVIOUS
    <3>3. HasReturned(c, w)'
      BY <1>15, <3>2 DEF HasReturned
    <3>4. HasReturned(c, w)
      BY <1>20, <3>1, <3>2, <3>3
    <3>5. FirstOnes(c, i)
      BY <1>0, <1>2, <2>4 DEF Returned
    <3>6. HasReturned(c, x)
      BY <3>2, <3>4, <3>5 DEF FirstOnes
    <3>7. HasReturned(c, x)'
      BY <1>20, <3>6
    <3> QED  BY <1>15, <3>2, <3>7 DEF HasReturned
  <2>5. (\A i \in 1 .. Last : begun[c] <= i /\ i < file[c] => FirstOnes(c, i))'
    BY <1>1, <1>15, <2>4
  <2> QED  BY <2>1, <2>2, <2>3, <2>5 DEF Returned
<1>19. Owed(c)'
  BY <1>0, <1>1, <1>2, <1>9, <1>20, OwedStill DEF Owed
<1> QED  BY <1>12, <1>18, <1>19 DEF CursorInv

(* A cursor that stays where it is in a file. *)
LEMMA PlacedStill ==
  ASSUME LogInv, CursorTypes, NEW c \in Cursors, Placed(c), UNCHANGED <<latest, listener, writing>>,
         file[c] <= Last,
         file[c]' = file[c], pos[c]' = pos[c], buffer[c]' = buffer[c], begun[c]' = begun[c],
         at[c]' \in {"decoding", "holding", "reading", "done"},
         at[c]' \in {"holding", "reading"} => Len(buffer[c]) < Units,
         at[c]' = "reading" /\ buffer[c] # <<>> => pos[c] < Len(Bytes(file[c]))
  PROVE  Placed(c)'
<1>1. PICK f, p, b, size, g : /\ f = file[c] /\ p = pos[c] /\ b = buffer[c] /\ size = Len(b)
                              /\ g = begun[c]
  OBVIOUS
<1>2. /\ Last \in Nat /\ f \in 1 .. Last /\ p \in Nat /\ Base(c) = p - size
      /\ 1 <= g /\ g <= f
  BY <1>1, WhereItIs DEF Base
<1>3. /\ p - size >= 0 /\ p <= Len(Bytes(f)) /\ Boundary(f, p - size)
      /\ \A j \in 1 .. size : b[j] = Bytes(f)[p - size + j]
  BY <1>1, <1>2 DEF Placed
<1>4. /\ file[c]' = f /\ pos[c]' = p /\ buffer[c]' = b /\ begun[c]' = g
      /\ at[c]' \in {"holding", "reading"} => size < Units
      /\ at[c]' = "reading" /\ b # <<>> => p < Len(Bytes(f))
  BY <1>1
<1> QED  BY <1>1, <1>2, <1>3, <1>4, PlacedAt

LEMMA HoldOwn ==
  ASSUME LogInv, CursorTypes, NEW c \in Cursors, CursorInv(c), Hold(c)
  PROVE  CursorInv(c)'
<1>1. /\ UNCHANGED <<latest, listener, writing>>
      /\ at[c] = "decoding" /\ Len(buffer[c]) < Units
      /\ at[c]' = IF file[c] > Last THEN "done" ELSE "holding"
      /\ file[c]' = file[c] /\ pos[c]' = pos[c] /\ buffer[c]' = buffer[c]
      /\ begun[c]' = begun[c] /\ from[c]' = from[c] /\ out[c]' = out[c] /\ due[c]' = due[c]
  BY DEF Hold, CursorTypes, Last
<1>2. Placed(c) /\ Returned(c) /\ Owed(c)
  BY DEF CursorInv
<1>3. Last \in Nat /\ file[c] \in Nat /\ begun[c] \in Nat /\ 1 <= begun[c]
  BY <1>2, WhereItIs
<1>4. Returned(c)'
  BY <1>1, <1>2, ReturnedStill DEF Behind, Base
<1>5. CASE file[c] > Last
  <2>1. Last = 0 /\ Fresh(c) /\ at[c]' = "done"
    BY <1>1, <1>2, <1>5 DEF Placed
  <2>2. Fresh(c)'
    BY <1>1, <2>1 DEF Fresh
  <2>3. due[c] = {}
    <3>1. \A v : ~LoggedIn(file[c], v) /\ ~HasReturned(c, v)
      BY <2>1 DEF LoggedIn, HasReturned, Fresh
    <3> QED  BY <1>2, <3>1 DEF Owed
  <2>4. Owed(c)'
    BY <1>1, <1>2, <2>1, <2>3, OwedStill
  <2> QED  BY <1>1, <1>4, <2>1, <2>2, <2>4, PlacedFresh DEF CursorInv
<1>6. CASE file[c] <= Last
  <2>1. at[c]' = "holding"
    BY <1>1, <1>3, <1>6
  <2>2. Placed(c)'
    BY <1>1, <1>2, <1>6, <2>1, PlacedStill
  <2>3. Owed(c)'
    BY <1>1, <1>2, <2>1, OwedStill DEF Owed, HasReturned
  <2> QED  BY <1>4, <2>2, <2>3 DEF CursorInv
<1> QED  BY <1>3, <1>5, <1>6

(* A cursor with part of a record that gets the file finds the rest in it:   *)
(* whoever writes to the file has let go of it at the end of a record.       *)
LEMMA RestIsThere ==
  ASSUME LogInv, CursorTypes, NEW c \in Cursors, Placed(c), file[c] <= Last,
         ~(writer = "writing" /\ file[c] = Last), Len(buffer[c]) < Units, buffer[c] # <<>>
  PROVE  pos[c] < Len(Bytes(file[c]))
<1>1. PICK f, base, b, size, p, all :
        /\ f = file[c] /\ base = Base(c) /\ b = buffer[c] /\ size = Len(b) /\ p = pos[c]
        /\ all = Len(Bytes(f))
  OBVIOUS
<1>2. /\ f \in 1 .. Last /\ all \in Nat /\ base \in Nat
      /\ size \in Nat /\ p = base + size /\ Units \in Nat /\ b \in Seq(Byte)
  BY <1>1, WhereItIs, CursorTyped, ConstantsTyped
<1>3. p <= all /\ Boundary(f, base) /\ size < Units
  BY <1>1 DEF Placed
<1>4. size > 0
  <2>1. size # 0
    BY <1>1, <1>2, EmptySeq
  <2> QED  BY <1>2, <2>1
<1>5. SUFFICES ASSUME p = all PROVE FALSE
  BY <1>1, <1>2, <1>3
<1>6. size \in 1 .. Units /\ base <= all /\ base + size <= all /\ all > 0
  BY <1>2, <1>3, <1>4, <1>5
<1>7. Bytes(f)[base + size] = <<Bytes(f)[base + 1][1], size>>
  BY <1>1, <1>2, <1>3, <1>6, RecordAt
<1>8. Bytes(f)[all][2] = size
  BY <1>2, <1>5, <1>7
<1>9. ~(f = Last /\ 0 < left /\ left < Units) /\ f \in DOMAIN files
  BY <1>1, <1>2, BytesTyped DEF LogInv, WriterInv
<1>10. Bytes(f)[all][2] = Units
  BY <1>1, <1>6, <1>9 DEF LogInv, Ends
<1> QED  BY <1>2, <1>3, <1>8, <1>10

LEMMA CloneOwn ==
  ASSUME LogInv, CursorTypes, NEW c \in Cursors, CursorInv(c), Clone(c)
  PROVE  CursorInv(c)'
<1>1. /\ UNCHANGED <<latest, listener, writing>>
      /\ at[c] = "holding" /\ at[c]' = "reading"
      /\ file[c]' = file[c] /\ pos[c]' = pos[c] /\ buffer[c]' = buffer[c]
      /\ begun[c]' = begun[c] /\ from[c]' = from[c] /\ out[c]' = out[c] /\ due[c]' = due[c]
  BY DEF Clone, CursorTypes
<1>2. Placed(c) /\ Returned(c) /\ Owed(c)
  BY DEF CursorInv
<1>3. Last \in Nat /\ file[c] \in Nat /\ begun[c] \in Nat /\ 1 <= begun[c]
  BY <1>2, WhereItIs
<1>4. file[c] <= Last /\ Len(buffer[c]) < Units
  BY <1>1, <1>2, <1>3 DEF Placed
<1>5. Returned(c)'
  BY <1>1, <1>2, ReturnedStill DEF Behind, Base
<1>6. Placed(c)'
  <2>1. buffer[c] # <<>> => pos[c] < Len(Bytes(file[c]))
    BY <1>2, <1>4, RestIsThere DEF Clone, Last
  <2> QED  BY <1>1, <1>2, <1>4, <2>1, PlacedStill
<1>7. Owed(c)'
  BY <1>1, <1>2, OwedStill DEF Owed, HasReturned
<1> QED  BY <1>5, <1>6, <1>7 DEF CursorInv

(* A cursor that finds the end of the file has nothing in its buffer: it has *)
(* returned all that it owes, or has it ahead of it in a later file.         *)
LEMMA ReadOwn ==
  ASSUME LogInv, CursorTypes, NEW c \in Cursors, CursorInv(c), NEW n \in 0 .. Chunk, Read(c, n)
  PROVE  CursorInv(c)'
<1>0. PICK f, base, b, size, p, all, lo, hi, more, b2 :
        /\ f = file[c] /\ base = Base(c) /\ b = buffer[c] /\ size = Len(b) /\ p = pos[c]
        /\ all = Len(Bytes(f)) /\ lo = p + 1 /\ hi = p + n
        /\ more = SubSeq(Bytes(f), lo, hi) /\ b2 = b \o more
  OBVIOUS
<1>1. /\ UNCHANGED <<latest, listener, writing>>
      /\ at[c] = "reading" /\ at[c]' = IF n = 0 THEN "ended" ELSE "decoding"
      /\ n <= all - p /\ (n = 0 => all - p = 0)
      /\ file[c]' = f /\ buffer[c]' = b2 /\ pos[c]' = hi
      /\ begun[c]' = begun[c] /\ from[c]' = from[c] /\ out[c]' = out[c] /\ due[c]' = due[c]
  BY <1>0 DEF Read, CursorTypes, Ahead, Bytes
<1>2. /\ Placed(c) /\ Returned(c) /\ Owed(c) /\ Units \in Nat /\ n \in Nat
  BY ConstantsTyped DEF CursorInv
<1>3. f <= Last
  <2>1. Last \in Nat /\ f \in Nat
    BY <1>0, <1>2, WhereItIs
  <2> QED  BY <1>0, <1>1, <1>2, <2>1 DEF Placed
<1>4. /\ f \in 1 .. Last /\ Last \in Nat /\ all \in Nat /\ base \in Nat /\ size \in Nat
      /\ p \in Nat /\ p = base + size /\ begun[c] \in Nat /\ 1 <= begun[c] /\ begun[c] <= f
      /\ size < Units /\ p <= all
      /\ hi \in Nat /\ hi = p + n /\ lo = p + 1
  <2>1. /\ f \in 1 .. Last /\ Last \in Nat /\ all \in Nat /\ base \in Nat /\ size \in Nat
        /\ p \in Nat /\ p = base + size /\ begun[c] \in Nat /\ 1 <= begun[c] /\ begun[c] <= f
    BY <1>0, <1>2, <1>3, WhereItIs
  <2>2. size < Units /\ p <= all
    BY <1>0, <1>1, <1>2, <1>3 DEF Placed
  <2>3. hi = p + n /\ lo = p + 1
    BY <1>0
  <2>4. hi \in Nat
    BY <1>2, <2>1, <2>3
  <2> QED  BY <2>1, <2>2, <2>3, <2>4
<1>5. Boundary(f, base) /\ \A j \in 1 .. size : b[j] = Bytes(f)[base + j]
  BY <1>0, <1>2, <1>3 DEF Placed
<1>6. /\ Bytes(f) \in Seq(Byte) /\ b \in Seq(Byte) /\ DOMAIN Bytes(f) = 1 .. all
  BY <1>0, <1>4, BytesTyped, CursorTyped DEF LogInv
<1>7. /\ Len(b2) = size + n
      /\ \A j \in 1 .. size + n : b2[j] = Bytes(f)[base + j]
  <2>1. \A i \in lo .. hi : Bytes(f)[i] \in Byte
    <3> SUFFICES ASSUME NEW i \in lo .. hi PROVE Bytes(f)[i] \in Byte
      OBVIOUS
    <3>1. i \in 1 .. all
      BY <1>1, <1>2, <1>4
    <3> QED  BY <1>0, <1>6, <3>1, ElementOfSeq
  <2>2. /\ more \in Seq(Byte)
        /\ Len(more) = IF lo <= hi THEN hi - lo + 1 ELSE 0
        /\ \A j \in 1 .. hi - lo + 1 : more[j] = Bytes(f)[lo + j - 1]
    <3>1. lo \in Int /\ hi \in Int
      BY <1>2, <1>4
    <3>2. /\ SubSeq(Bytes(f), lo, hi) \in Seq(Byte)
          /\ Len(SubSeq(Bytes(f), lo, hi)) = IF lo <= hi THEN hi - lo + 1 ELSE 0
          /\ \A j \in 1 .. hi - lo + 1 : SubSeq(Bytes(f), lo, hi)[j] = Bytes(f)[lo + j - 1]
      BY <2>1, <3>1, SubSeqProperties
    <3>3. more = SubSeq(Bytes(f), lo, hi)
      BY <1>0
    <3> QED  BY <3>2, <3>3, Zenon
  <2>3. Len(more) = n /\ \A j \in 1 .. n : more[j] = Bytes(f)[p + j]
    <3>1. hi - lo + 1 = n /\ (lo <= hi <=> n > 0)
      BY <1>2, <1>4
    <3>2. Len(more) = n
      BY <1>2, <2>2, <3>1
    <3>3. \A j \in 1 .. n : lo + j - 1 = p + j
      BY <1>2, <1>4
    <3> QED  BY <2>2, <3>1, <3>2, <3>3
  <2>4. /\ Len(b2) = size + n
        /\ \A j \in 1 .. size + n : b2[j] = IF j <= size THEN b[j] ELSE more[j - size]
    <3>1. /\ Len(b \o more) = Len(b) + Len(more)
          /\ \A j \in 1 .. Len(b) + Len(more) :
               (b \o more)[j] = IF j <= Len(b) THEN b[j] ELSE more[j - Len(b)]
      BY <1>6, <2>2, ConcatProperties
    <3> QED  BY <1>0, <2>3, <3>1
  <2>5. ASSUME NEW j \in 1 .. size + n PROVE b2[j] = Bytes(f)[base + j]
    <3>1. CASE j <= size
      <4>1. j \in 1 .. size
        BY <1>2, <1>4, <3>1
      <4> QED  BY <1>5, <2>4, <3>1, <4>1
    <3>2. CASE j > size
      <4>1. j - size \in 1 .. n /\ p + (j - size) = base + j
        BY <1>2, <1>4, <3>2
      <4>2. b2[j] = more[j - size]
        BY <1>4, <2>4, <3>2
      <4> QED  BY <2>3, <4>1, <4>2
    <3> QED  BY <1>2, <1>4, <3>1, <3>2
  <2> QED  BY <2>4, <2>5
<1>13. n = 0 => b = <<>>
  <2>1. b # <<>> => p < all
    BY <1>0, <1>1, <1>2 DEF Placed
  <2> QED  BY <1>1, <1>4, <2>1
<1>8. hi - Len(b2) = base /\ Base(c)' = base
  <2>1. hi - Len(b2) = base
    <3>1. Len(b2) = size + n
      BY <1>7
    <3> QED  BY <1>2, <1>4, <3>1
  <2>2. Base(c)' = pos[c]' - Len(buffer[c]')
    BY DEF Base
  <2>3. pos[c]' = hi /\ buffer[c]' = b2
    BY <1>1
  <2> QED  BY <2>1, <2>2, <2>3
<1>9. Placed(c)'
  <2>1. hi <= all
    BY <1>1, <1>2, <1>4
  <2>2. at[c]' = "ended" => Len(b2) < Units /\ b2 = <<>>
    <3> SUFFICES ASSUME n = 0 PROVE Len(b2) < Units /\ b2 = <<>>
      BY <1>1
    <3>1. Len(b2) = size /\ b = <<>>
      <4>1. Len(b2) = size + n /\ size + n = size
        BY <1>4, <1>7
      <4> QED  BY <1>13, <4>1
    <3>2. size = 0 /\ b2 \in Seq(Byte)
      BY <1>0, <1>7, <3>1
    <3> QED  BY <1>2, <1>4, <3>1, <3>2, EmptySeq
  <2>3. \A j \in 1 .. Len(b2) : b2[j] = Bytes(f)[hi - Len(b2) + j]
    BY <1>7, <1>8
  <2>4. hi - Len(b2) >= 0 /\ Boundary(f, hi - Len(b2))
    BY <1>4, <1>5, <1>8
  <2>5. at[c]' \in {"ended", "decoding"} /\ all = Len(Bytes(f))
    BY <1>0, <1>1
  <2> QED  BY <1>1, <1>4, <2>1, <2>2, <2>3, <2>4, <2>5, PlacedAt
<1>10. Returned(c)'
  BY <1>0, <1>1, <1>2, <1>8, ReturnedStill
<1>11. ASSUME n = 0, NEW v \in due[c], ~HasReturned(c, v)
       PROVE  LoggedIn(f + 1, v)
  <2>1. LoggedIn(f, v)
    BY <1>0, <1>2, <1>11 DEF Owed
  <2>2. PICK i \in 1 .. Last : f <= i /\ InFile(i, v)
    BY <2>1 DEF LoggedIn
  <2>3. PICK k \in 1 .. Len(Bytes(i)) : Bytes(i)[k] = <<v, Units>>
    BY <2>2, BytesTyped DEF InFile, Bytes, LogInv
  <2>4. i # f
    <3> SUFFICES ASSUME i = f PROVE FALSE
      OBVIOUS
    <3>1. Bytes(i)[k][1] = v /\ Bytes(i)[k][2] = Units
      BY <2>3
    <3>2. k <= base
      <4>1. size = 0 /\ all = p
        BY <1>1, <1>4, <1>0, <1>11, <1>13
      <4>2. base = all
        BY <1>4, <4>1
      <4>3. k \in 1 .. all
        BY <1>0
      <4> QED  BY <1>4, <4>2, <4>3
    <3> QED  BY <1>0, <1>2, <1>11, <3>1, <3>2 DEF Returned
  <2>5. f + 1 <= i
    BY <1>4, <2>2, <2>4
  <2> QED  BY <2>2, <2>5 DEF LoggedIn
<1>12. Owed(c)'
  <2>1. at[c]' = "ended" => n = 0
    BY <1>1
  <2>2. \A v \in due[c] : HasReturned(c, v) \/ LoggedIn(f, v)
    BY <1>0, <1>2 DEF Owed
  <2> QED  BY <1>1, <1>2, <1>11, <2>1, <2>2, OwedStill DEF HasReturned
<1> QED  BY <1>9, <1>10, <1>12 DEF CursorInv

(* In the file it is in, what a cursor has returned is all up to the last.   *)
LEMMA FirstOnesHere ==
  ASSUME LogInv, CursorTypes, NEW c \in Cursors, Placed(c), Returned(c), file[c] \in 1 .. Last
  PROVE  FirstOnes(c, file[c])
<1>1. PICK f, base : f = file[c] /\ base = Base(c)
  OBVIOUS
<1>2. SUFFICES ASSUME NEW k \in 1 .. Len(Bytes(f)), NEW l \in 1 .. Len(Bytes(f)), k < l,
                      Bytes(f)[k][2] = Units, Bytes(f)[l][2] = Units,
                      HasReturned(c, Bytes(f)[l][1])
               PROVE  HasReturned(c, Bytes(f)[k][1])
  BY <1>1 DEF FirstOnes
<1>3. PICK n \in DOMAIN out[c] : out[c][n] = Bytes(f)[l][1]
  BY <1>2 DEF HasReturned
<1>4. PICK j \in 1 .. Last : \E m \in 1 .. Len(Bytes(j)) :
        Behind(c, j, m) /\ Bytes(j)[m] = <<out[c][n], Units>>
  BY DEF Returned
<1>5. PICK m \in 1 .. Len(Bytes(j)) : Behind(c, j, m) /\ Bytes(j)[m] = <<out[c][n], Units>>
  BY <1>4
<1>6. /\ DOMAIN files = 1 .. Last /\ f \in 1 .. Last /\ base \in Nat /\ Last \in Nat
      /\ DOMAIN Bytes(f) = 1 .. Len(Bytes(f)) /\ Len(Bytes(f)) \in Nat
      /\ DOMAIN Bytes(j) = 1 .. Len(Bytes(j)) /\ Len(Bytes(j)) \in Nat
      /\ Bytes(f)[l][1] \in Nat /\ Bytes(j)[m][1] \in Nat
  BY <1>1, WhereItIs, BytesTyped DEF LogInv
<1>7. Bytes(j)[m][1] = Bytes(f)[l][1]
  BY <1>3, <1>5
<1>8. ~(j < f)
  <2> SUFFICES ASSUME j < f PROVE FALSE
    OBVIOUS
  <2>1. Bytes(j)[m][1] < Bytes(f)[l][1]
    BY <1>6 DEF LogInv, Ordered
  <2> QED  BY <1>6, <1>7, <2>1
<1>9. j = f /\ m <= base
  BY <1>1, <1>5, <1>6, <1>8 DEF Behind
<1>10. ~(m < l)
  <2> SUFFICES ASSUME m < l PROVE FALSE
    OBVIOUS
  <2>1. /\ m \in DOMAIN Bytes(f) /\ l \in DOMAIN Bytes(f)
        /\ Bytes(f)[m][2] = Units /\ Bytes(f)[m][1] = Bytes(f)[l][1]
    BY <1>5, <1>6, <1>7, <1>9
  <2>2. Bytes(f)[m][1] < Bytes(f)[l][1]
    BY <1>6, <2>1 DEF LogInv, Ordered
  <2> QED  BY <1>6, <2>1, <2>2
<1>11. k <= base
  BY <1>2, <1>6, <1>9, <1>10
<1> QED  BY <1>1, <1>2, <1>6, <1>11 DEF Returned

LEMMA AtEndOwn ==
  ASSUME LogInv, CursorTypes, NEW c \in Cursors, CursorInv(c), AtEnd(c)
  PROVE  CursorInv(c)'
<1>1. /\ UNCHANGED <<latest, listener, writing>>
      /\ at[c] = "ended" /\ buffer[c]' = buffer[c]
      /\ begun[c]' = begun[c] /\ from[c]' = from[c] /\ out[c]' = out[c] /\ due[c]' = due[c]
      /\ file[c] = Last => /\ at[c]' = "done" /\ file[c]' = file[c] /\ pos[c]' = pos[c]
      /\ file[c] # Last => /\ at[c]' = "decoding" /\ file[c]' = file[c] + 1 /\ pos[c]' = 0
  BY DEF AtEnd, NextPos, CursorTypes, Last
<1>2. Placed(c) /\ Returned(c) /\ Owed(c)
  BY DEF CursorInv
<1>3. /\ Last \in Nat /\ file[c] \in Nat /\ begun[c] \in Nat /\ 1 <= begun[c]
      /\ begun[c] <= file[c]
  BY <1>2, WhereItIs
<1>4. file[c] \in 1 .. Last
  BY <1>1, <1>2, <1>3 DEF Placed
<1>5. CASE file[c] = Last
  <2>1. Placed(c)'
    BY <1>1, <1>2, <1>4, <1>5, PlacedStill
  <2>2. Returned(c)'
    BY <1>1, <1>2, <1>5, ReturnedStill DEF Behind, Base
  <2>3. ASSUME NEW v \in due[c] PROVE HasReturned(c, v)
    <3>1. ~LoggedIn(file[c] + 1, v)
      BY <1>3, <1>5 DEF LoggedIn
    <3> QED  BY <1>1, <1>2, <3>1 DEF Owed
  <2>4. Owed(c)'
    BY <1>1, <1>2, <1>5, <2>3, OwedStill DEF HasReturned
  <2> QED  BY <2>1, <2>2, <2>4 DEF CursorInv
<1>6. CASE file[c] < Last
  <2>1. PICK f, g : f = file[c] /\ g = file[c] + 1
    OBVIOUS
  <2>2. /\ buffer[c] = <<>> /\ g \in 1 .. Last /\ g = f + 1
        /\ f \in Nat /\ f \in 1 .. Last
    <3>1. buffer[c] = <<>>
      BY <1>1, <1>2 DEF Placed
    <3> QED  BY <1>3, <1>4, <1>6, <2>1, <3>1
  <2>3. /\ at[c]' = "decoding" /\ file[c]' = g /\ pos[c]' = 0 /\ buffer[c]' = <<>>
        /\ Len(<<>>) = 0
    BY <1>1, <1>3, <1>6, <2>1, <2>2
  <2>4. Placed(c)'
    <3>1. Boundary(g, 0) /\ Len(Bytes(g)) >= 0
      BY <2>2, BytesTyped DEF Boundary, LogInv
    <3>2. begun[c]' <= g /\ 1 <= begun[c]'
      BY <1>1, <1>3, <2>1
    <3> QED  BY <1>1, <1>3, <2>2, <2>3, <3>1, <3>2, PlacedAt
  <2>5. Base(c)' = 0
    <3>1. Len(buffer[c]') = 0 /\ Base(c)' = pos[c]' - Len(buffer[c]')
      BY <2>3 DEF Base
    <3> QED  BY <2>3, <3>1
  <2>6. /\ Last' = Last /\ \A i : Bytes(i)' = Bytes(i) /\ (FirstOnes(c, i)' <=> FirstOnes(c, i))
        /\ \A v : HasReturned(c, v)' <=> HasReturned(c, v)
    BY <1>1, LogStill DEF FirstOnes, HasReturned
  <2>7. Returned(c)'
    <3>1. (\A m, n \in DOMAIN out[c] : m < n => out[c][m] < out[c][n])'
      BY <1>1, <1>2 DEF Returned
    <3>2. ASSUME NEW n \in DOMAIN out[c]
          PROVE  \E i \in 1 .. Last : \E k \in 1 .. Len(Bytes(i)) :
                   begun[c] <= i /\ Behind(c, i, k)' /\ Bytes(i)[k] = <<out[c][n], Units>>
      <4>1. PICK i \in 1 .. Last : \E k \in 1 .. Len(Bytes(i)) :
              begun[c] <= i /\ Behind(c, i, k) /\ Bytes(i)[k] = <<out[c][n], Units>>
        BY <1>2 DEF Returned
      <4>2. PICK k \in 1 .. Len(Bytes(i)) :
              begun[c] <= i /\ Behind(c, i, k) /\ Bytes(i)[k] = <<out[c][n], Units>>
        BY <4>1
      <4>3. i < g
        BY <2>1, <2>2, <4>2 DEF Behind
      <4> QED  BY <2>3, <4>2, <4>3 DEF Behind
    <3>3. (\A n \in DOMAIN out[c] : \E i \in 1 .. Last : \E k \in 1 .. Len(Bytes(i)) :
             begun[c] <= i /\ Behind(c, i, k) /\ Bytes(i)[k] = <<out[c][n], Units>>)'
      BY <1>1, <2>6, <3>2
    <3>4. (\A i \in 1 .. Last : \A k \in 1 .. Len(Bytes(i)) :
             i = file[c] /\ k <= Base(c) /\ Bytes(i)[k][2] = Units
               => HasReturned(c, Bytes(i)[k][1]))'
      <4>1. \A i \in 1 .. Last : \A k \in 1 .. Len(Bytes(i)) : ~(k <= 0)
        BY BytesTyped DEF LogInv
      <4> QED  BY <2>5, <2>6, <4>1
    <3>5. ASSUME NEW i \in 1 .. Last, begun[c] <= i, i < g PROVE FirstOnes(c, i)
      <4>1. CASE i < f
        BY <1>2, <2>1, <3>5, <4>1 DEF Returned
      <4>2. CASE i = f
        BY <1>2, <1>4, <2>1, <4>2, FirstOnesHere
      <4> QED  BY <2>2, <3>5, <4>1, <4>2
    <3>6. (\A i \in 1 .. Last : begun[c] <= i /\ i < file[c] => FirstOnes(c, i))'
      BY <1>1, <2>3, <2>6, <3>5
    <3> QED  BY <3>1, <3>3, <3>4, <3>6 DEF Returned
  <2>8. Owed(c)'
    <3>1. \A v \in due[c] : HasReturned(c, v) \/ LoggedIn(g, v)
      BY <1>1, <1>2, <2>1 DEF Owed
    <3> QED  BY <1>1, <1>2, <2>3, <2>6, <3>1, OwedStill
  <2> QED  BY <2>4, <2>7, <2>8 DEF CursorInv
<1> QED  BY <1>3, <1>4, <1>5, <1>6

-----------------------------------------------------------------------------
(* Every step.                                                               *)

LEMMA OwnStep ==
  ASSUME LogInv, CursorTypes, NEW c \in Cursors, \A d \in Cursors : CursorInv(d),
         Replay(c) \/ \E instant \in 0 .. Now : Open(c, instant)
  PROVE  \A d \in Cursors : CursorInv(d)'
<1>1. UNCHANGED <<latest, listener, writing>>
  BY DEF Replay, Skip, Decode, Hold, Clone, AtEnd, Read, Open
<1>2. ASSUME NEW d \in Cursors, d # c PROVE Untouched(d)
  BY <1>2 DEF Replay, Skip, Decode, Hold, Clone, AtEnd, Read, Open, CursorTypes, Untouched
<1>3. CursorInv(c)'
  BY OpenOwn, SkipOwn, DecodeOwn, HoldOwn, CloneOwn, ReadOwn, AtEndOwn DEF Replay
<1> QED  BY <1>1, <1>2, <1>3, OthersKept

LEMMA WriterAlone ==
  ASSUME NEW c \in Cursors, Publish \/ LogUpdates \/ UNCHANGED vars
  PROVE  Untouched(c)
BY DEF Publish, LogUpdates, Start, Observe, RollOver, Created, Write, vars, cursors, Untouched

CursorsInv == CursorTypes /\ \A c \in Cursors : CursorInv(c)

LEMMA CursorsStep == LogInv /\ LogInv' /\ CursorsInv /\ [Next]_vars => CursorsInv'
<1> SUFFICES ASSUME LogInv, LogInv', CursorsInv, [Next]_vars PROVE CursorsInv'
  OBVIOUS
<1>1. CursorTypes /\ \A d \in Cursors : CursorInv(d) /\ Placed(d)
  BY DEF CursorsInv, CursorInv
<1>2. CursorTypes'
  BY <1>1, TypesStep
<1>3. CASE Publish \/ LogUpdates \/ UNCHANGED vars
  BY <1>1, <1>3, GrownByStep, WriterAlone, CursorKept, <1>2 DEF CursorsInv
<1>4. ASSUME NEW c \in Cursors, Replay(c) \/ \E instant \in 0 .. Now : Open(c, instant)
      PROVE  CursorsInv'
  BY <1>1, <1>2, <1>4, OwnStep DEF CursorsInv
<1> QED  BY <1>3, <1>4 DEF Next

LEMMA InvHolds == Spec => [](LogInv /\ CursorsInv)
<1>1. Init => LogInv /\ CursorsInv
  BY LogInit, CursorsInit DEF CursorsInv
<1>2. LogInv /\ CursorsInv /\ [Next]_vars => LogInv' /\ CursorsInv'
  BY LogStep, CursorsStep
<1> QED  BY <1>1, <1>2, PTL DEF Spec

-----------------------------------------------------------------------------
(* Theorems.                                                                 *)

(* Every variable stays in its type, and a file is always at hand to write.  *)
THEOREM TypeCorrect == Spec => []TypeOK
<1>1. ASSUME LogInv, CursorsInv PROVE TypeOK
  <2>1. /\ latest \in Nat /\ listener \in {"unarmed", "armed", "notified"}
        /\ writer \in {"starting", "ready", "rollover", "rolling", "writing", "waiting"}
        /\ encoded \in -1 .. latest /\ left \in 0 .. Units
        /\ writer \in {"writing", "waiting"} => Last > 0
    BY <1>1 DEF LogInv, WriterInv
  <2>2. Last \in Nat /\ DOMAIN files = 1 .. Last
    BY <1>1, BytesTyped DEF LogInv
  <2>3. writer \in {"writing", "waiting"} => files # <<>>
    BY <2>1 DEF Last
  <2>4. ASSUME NEW i \in DOMAIN files
        PROVE  /\ files[i].start \in 0 .. Now
               /\ \A k \in DOMAIN Bytes(i) : Bytes(i)[k] \in (0 .. latest) \X (1 .. Units)
    <3>1. files[i].start \in Nat /\ files[i].start <= Now /\ Now \in Nat
      BY <1>1, <2>1, <2>2, BytesTyped DEF LogInv, Stamped, Now
    <3>2. ASSUME NEW k \in DOMAIN Bytes(i) PROVE Bytes(i)[k] \in (0 .. latest) \X (1 .. Units)
      <4>1. Bytes(i) \in Seq(Byte) /\ k \in 1 .. Len(Bytes(i))
        BY <1>1, <2>2, BytesTyped DEF LogInv
      <4>2. Bytes(i)[k] \in Byte
        BY <4>1, ElementOfSeq
      <4>3. Bytes(i)[k][1] \in Nat /\ Bytes(i)[k][1] <= encoded
        BY <1>1, <4>2 DEF LogInv, Bounded, Byte
      <4>4. Bytes(i)[k][1] \in 0 .. latest
        BY <2>1, <4>3
      <4> QED  BY <4>2, <4>4 DEF Byte
    <3> QED  BY <3>1, <3>2
  <2>5. ASSUME NEW c \in Cursors
        PROVE  /\ at[c] \in {"closed", "skipping", "decoding", "holding", "reading", "ended",
                             "done", "failed"}
               /\ file[c] \in 1 .. Last + 1 /\ pos[c] \in Nat /\ begun[c] \in 1 .. file[c]
    <3>1. Placed(c) /\ CursorTypes
      BY <1>1 DEF CursorsInv, CursorInv
    <3>2. /\ file[c] \in Nat /\ pos[c] \in Nat /\ begun[c] \in Nat
          /\ 1 <= begun[c] /\ begun[c] <= file[c]
      BY <1>1, <3>1, WhereItIs
    <3>3. file[c] > Last => file[c] = 1
      BY <3>1 DEF Placed, Fresh
    <3> QED  BY <2>2, <3>1, <3>2, <3>3 DEF CursorTypes
  <2> QED  BY <2>1, <2>3, <2>4, <2>5 DEF TypeOK, Bytes, Last
<1> QED  BY <1>1, InvHolds, PTL

(* No cursor decodes half of one record with half of another, whatever the   *)
(* sizes of a record and of a read, the writes and the other cursors.        *)
THEOREM NeverTorn == Spec => []NoTornRecord
<1>1. LogInv /\ CursorsInv => NoTornRecord
  BY DEF CursorsInv, CursorInv, Placed, NoTornRecord
<1> QED  BY <1>1, InvHolds, PTL

(* What next() has returned is in order, none of it twice, and of each file  *)
(* the first records, whatever is appended and created meanwhile: a gap can  *)
(* only be at the end of a file the cursor has left.                         *)
THEOREM GapsAtEnds == Spec => []OnlyTailsSkipped
<1>1. ASSUME LogInv, CursorsInv, NEW c \in Cursors, NEW f \in begun[c] .. Last,
             NEW v \in 0 .. latest, NEW w \in 0 .. latest,
             v < w, InFile(f, v), InFile(f, w), HasReturned(c, w)
      PROVE  HasReturned(c, v)
  <2>1. Placed(c) /\ Returned(c) /\ CursorTypes
    BY <1>1 DEF CursorsInv, CursorInv
  <2>2. begun[c] \in Nat /\ 1 <= begun[c] /\ file[c] \in Nat /\ Last \in Nat
    BY <1>1, <2>1, WhereItIs
  <2>3. f \in 1 .. Last /\ begun[c] <= f /\ f \in Nat
    BY <2>2
  <2>4. PICK k \in 1 .. Len(Bytes(f)) : Bytes(f)[k] = <<v, Units>>
    BY <1>1, <2>3, BytesTyped DEF InFile, Bytes, LogInv
  <2>5. PICK l \in 1 .. Len(Bytes(f)) : Bytes(f)[l] = <<w, Units>>
    BY <1>1, <2>3, BytesTyped DEF InFile, Bytes, LogInv
  <2>6. /\ Bytes(f)[k][1] = v /\ Bytes(f)[k][2] = Units
        /\ Bytes(f)[l][1] = w /\ Bytes(f)[l][2] = Units
    BY <2>4, <2>5
  <2>7. /\ DOMAIN files = 1 .. Last /\ DOMAIN Bytes(f) = 1 .. Len(Bytes(f))
        /\ Len(Bytes(f)) \in Nat /\ v \in Int /\ w \in Int
    BY <1>1, <2>3, BytesTyped DEF LogInv
  <2>8. k < l
    <3> SUFFICES ASSUME ~(k < l) PROVE FALSE
      OBVIOUS
    <3>1. l # k
      BY <1>1, <2>6, <2>7
    <3>2. l < k
      BY <2>7, <3>1
    <3>3. w <= v
      BY <1>1, <2>3, <2>6, <2>7, <3>2 DEF LogInv, Ordered
    <3> QED  BY <1>1, <2>7, <3>3
  <2>9. CASE f < file[c]
    BY <1>1, <2>1, <2>3, <2>6, <2>8, <2>9 DEF Returned, FirstOnes
  <2>10. CASE f = file[c]
    BY <1>1, <2>1, <2>3, <2>6, <2>8, <2>10, FirstOnesHere DEF FirstOnes
  <2>11. CASE f > file[c]
    <3>1. PICK n \in DOMAIN out[c] : out[c][n] = w
      BY <1>1 DEF HasReturned
    <3>2. PICK j \in 1 .. Last : \E m \in 1 .. Len(Bytes(j)) :
            Behind(c, j, m) /\ Bytes(j)[m] = <<out[c][n], Units>>
      BY <2>1 DEF Returned
    <3>3. PICK m \in 1 .. Len(Bytes(j)) :
            Behind(c, j, m) /\ Bytes(j)[m] = <<out[c][n], Units>>
      BY <3>2
    <3>4. j < f /\ Bytes(j)[m][1] = w
      BY <2>2, <2>3, <2>11, <3>1, <3>3 DEF Behind
    <3>5. m \in DOMAIN Bytes(j)
      BY <1>1, BytesTyped DEF LogInv
    <3>6. w < w
      BY <1>1, <2>3, <2>6, <2>7, <3>4, <3>5 DEF LogInv, Ordered
    <3> QED  BY <2>7, <3>6
  <2> QED  BY <2>2, <2>3, <2>9, <2>10, <2>11
<1>2. ASSUME LogInv, CursorsInv PROVE OnlyTailsSkipped
  <2>1. \A c \in Cursors : \A i, j \in DOMAIN out[c] : i < j => out[c][i] < out[c][j]
    BY <1>2 DEF CursorsInv, CursorInv, Returned
  <2> QED  BY <1>1, <1>2, <2>1 DEF OnlyTailsSkipped, Last
<1> QED  BY <1>2, InvHolds, PTL

(* Whatever had been logged when a cursor was opened, and is no older than   *)
(* the instant it asked for, has been returned when its history is done.     *)
THEOREM WholeHistory == Spec => []HistoryIsWhole
<1>1. LogInv /\ CursorsInv => HistoryIsWhole
  BY DEF CursorsInv, CursorInv, Owed, HistoryIsWhole
<1> QED  BY <1>1, InvHolds, PTL

-----------------------------------------------------------------------------
(* The log as a follower of the stats.                                       *)

\* The latest version logged is one that was published.
LoggedIsLatest ==
  /\ Logged \in Int /\ -1 <= Logged /\ Logged <= latest
  /\ \A v \in LoggedFrom(1) : v \in Nat /\ v <= Logged
  /\ Logged = -1 \/ Logged \in LoggedFrom(1)

LEMMA LoggedIs == LogInv => LoggedIsLatest
<1> SUFFICES ASSUME LogInv PROVE LoggedIsLatest
  OBVIOUS
<1>1. latest \in Nat /\ LoggedFrom(1) \in SUBSET (0 .. latest)
  BY DEF LogInv, WriterInv, LoggedFrom
<1>2. CASE LoggedFrom(1) = {}
  BY <1>1, <1>2 DEF Logged, LoggedIsLatest
<1>3. CASE LoggedFrom(1) # {}
  <2>1. \E v \in LoggedFrom(1) : \A w \in LoggedFrom(1) : w <= v
    BY <1>1, <1>3, Largest
  <2>2. Logged \in LoggedFrom(1) /\ \A w \in LoggedFrom(1) : w <= Logged
    BY <1>3, <2>1 DEF Logged
  <2> QED  BY <1>1, <1>3, <2>2 DEF LoggedIsLatest
<1> QED  BY <1>2, <1>3

LEMMA LoggedIsNext == LogInv' => LoggedIsLatest'
BY LoggedIs, PTL

(* No more is logged by a picture's being published. *)
LEMMA PublishLogs ==
  ASSUME LogInv, LogInv', Publish
  PROVE  Logged' = Logged
<1>1. files' = files /\ latest' = latest + 1 /\ latest \in Nat
  BY DEF Publish, writing, LogInv, WriterInv
<1>2. ASSUME NEW j \in 1 .. Last, NEW v, InFile(j, v)
      PROVE  v \in Nat /\ v <= latest
  <2>1. PICK k \in DOMAIN Bytes(j) : Bytes(j)[k] = <<v, Units>>
    BY <1>2 DEF InFile, Bytes
  <2>2. DOMAIN files = 1 .. Last /\ Bytes(j)[k][1] = v /\ Bytes(j)[k][1] \in Nat
    BY <2>1, BytesTyped DEF LogInv
  <2>3. v <= encoded
    BY <2>2 DEF LogInv, Bounded
  <2> QED  BY <1>1, <2>2, <2>3 DEF LogInv, WriterInv
<1>3. /\ LoggedFrom(1) = {v \in 0 .. latest : \E j \in 1 .. Last : InFile(j, v)}
      /\ LoggedFrom(1)' = {v \in 0 .. latest + 1 : \E j \in 1 .. Last : InFile(j, v)}
  BY <1>1 DEF LoggedFrom, Last, InFile
<1>4. LoggedFrom(1)' = LoggedFrom(1)
  <2>1. ASSUME NEW v \in 0 .. latest + 1, NEW j \in 1 .. Last, InFile(j, v)
        PROVE  v \in 0 .. latest
    BY <1>1, <1>2, <2>1
  <2>2. ASSUME NEW v \in 0 .. latest PROVE v \in 0 .. latest + 1
    BY <1>1
  <2> QED  BY <1>3, <2>1, <2>2
<1> QED  BY <1>4, LoggedIs, LoggedIsNext DEF LoggedIsLatest

LEMMA FeedStep ==
  ASSUME LogInv, LogInv', [Next]_vars
  PROVE  [Log!Next]_(Log!vars)
<1> DEFINE newest == [k \in {"log"} |-> latest]
           seen == [k \in {"log"} |-> Logged]
<1>1. /\ Logged \in Int /\ Logged' \in Int /\ Logged' <= latest' /\ -1 <= Logged'
      /\ Logged = -1 \/ Logged \in LoggedFrom(1)
      /\ \A v \in LoggedFrom(1)' : v \in Nat /\ v <= Logged'
  BY LoggedIs, LoggedIsNext DEF LoggedIsLatest
<1>2. CASE Publish
  <2>1. latest' = latest + 1 /\ Logged' = Logged
    BY <1>2, PublishLogs DEF Publish
  <2>2. /\ newest' = [k \in {"log"} |-> IF k \in {"log"} THEN newest[k] + 1 ELSE newest[k]]
        /\ seen' = seen
    BY <2>1
  <2>3. {"log"} \in SUBSET {"log"}
    OBVIOUS
  <2>4. Log!Produce
    BY <2>2, <2>3 DEF Log!Produce
  <2> QED  BY <2>4 DEF Log!Next
<1>3. CASE ~Publish
  <2>1. latest' = latest
    BY <1>3 DEF Next, LogUpdates, Start, Observe, RollOver, Created, Write, Replay, Skip, Decode, Hold,
       Clone, AtEnd, Read, Open, vars
  <2>2. Logged <= Logged'
    <3>1. LoggedFrom(1) \subseteq LoggedFrom(1)'
      BY GrownByStep, LoggedFromGrows
    <3> QED  BY <1>1, <3>1
  <2>3. seen' \in [{"log"} -> Int] /\ newest' = newest
    BY <1>1, <2>1
  <2>4. \A k \in {"log"} : seen[k] <= seen'[k] /\ seen'[k] <= newest[k]
    BY <1>1, <2>1, <2>2
  <2>5. Log!Show
    BY <2>3, <2>4 DEF Log!Show
  <2> QED  BY <2>5 DEF Log!Next
<1> QED  BY <1>2, <1>3

(* The log implements Feed: it follows the stats in order, and holds nothing *)
(* that was not published.                                                   *)
THEOREM LogImplementsFeed == Spec => LogIsFeed
<1>1. Init => Log!Init
  <2> SUFFICES ASSUME Init PROVE Log!Init
    OBVIOUS
  <2>1. latest = 0 /\ files = <<>> /\ Len(<<>>) = 0
    BY DEF Init
  <2>2. LoggedFrom(1) = {}
    BY <2>1 DEF LoggedFrom
  <2>3. Logged = -1
    BY <2>2 DEF Logged
  <2> QED  BY <2>1, <2>3 DEF Log!Init
<1> QED  BY <1>1, LogHolds, FeedStep, PTL DEF Spec, LogIsFeed, Log!Safe
=============================================================================
