---------------------------- MODULE EdmaInProofs ----------------------------
(***************************************************************************)
(* Proofs about EdmaIn, for every set of images and every size of buffer.  *)
(* IInv is inductive whatever goes wrong; DataInv speaks of the requests   *)
(* of which no event was missed.                                           *)
(***************************************************************************)
EXTENDS EdmaIn, TLAPS

Waiting == {"setup", "waitFirst", "processPing", "waitPong", "processPong", "waitPing"}
FirstPhase == {"first", "setup", "waitFirst"}
PongPhase == {"startPong", "processPing", "waitPong"}
PingPhase == {"startPing", "processPong", "waitPing"}
Last == {"lastPing", "lastPong"}

(* n rows of rb bytes fit in a buffer.                                     *)
Fits(n, rb) == n * rb <= BufBytes

(* Between a trigger and the wait for it there is a transfer or its        *)
(* completion, and otherwise neither.                                      *)
Busy ==
    \/ engine # "idle" /\ sem = 0 /\ irq = 0 /\ ~missed
    \/ engine = "idle" /\ sem = 1 /\ (missed => irq = -1)
Quiet == engine = "idle" /\ sem = 0 /\ irq = 0 /\ ~missed
HwInv ==
    /\ IF pc \in Waiting THEN Busy ELSE Quiet
    /\ chids = IF pc \in {"idle", "request", "finish"} THEN 0 ELSE 3

(* The request is for one of the images and was not refused. One whose     *)
(* height is below zero is over with its first transfer.                   *)
ImageInv ==
    /\ pc # "idle" => ~Refused(image) /\ image \in Images
    /\ image.height < 0 =>
        /\ pc \in {"idle", "request", "link", "lastPing", "free", "finish"} \union FirstPhase
        /\ pc \in {"link"} \union FirstPhase => height = image.height /\ rows = height
    /\ pc \in {"idle", "request", "link"} \union FirstPhase => src = 0
    /\ pc = "idle" => rows = 0
    /\ spoiled => \E im \in Images : im.height < 0

(* What is left of the image and how it is divided.                        *)
RowsInv ==
  image.height >= 0 =>
    /\ src \in Nat
    /\ pc \in {"link"} \union FirstPhase => src = 0 /\ height = image.height
    /\ pc \in PongPhase \union PingPhase \union Last => src + height = image.height
    /\ pc \in {"link"} \union FirstPhase \union PongPhase \union PingPhase =>
            rows \in 1..height /\ Fits(rows, image.rowBytes)
    /\ pc \in PongPhase =>
            \/ section = "loop" /\ height >= rows * 2
            \/ /\ section = "halves"
               /\ Fits(height - rows, image.rowBytes)
               /\ height > rows
            \/ section = "rest" /\ rows = height
    /\ pc \in PingPhase =>
            \/ section = "loop"
            \/ section = "halves" /\ rows = height
    /\ pc \in Last => height = 0

(* The transfer under way is the one last asked for.                       *)
TransferInv ==
    /\ engine = "triggered" => param.src = src /\ param.rows = Count(rows)
    /\ engine = "moving" => moving.src = src /\ moving.rows = Count(rows)

IInv == TypeOK /\ HwInv /\ ImageInv /\ RowsInv /\ TransferInv

-----------------------------------------------------------------------------
LEMMA FitsSmaller ==
    ASSUME NEW m \in Nat, NEW n \in Nat, NEW rb \in Nat, m <= n, Fits(n, rb)
    PROVE  Fits(m, rb)
<1>1. m * rb <= n * rb
  <2>1. \E d \in Nat : n = m + d
    <3>1. n - m \in Nat /\ n = m + (n - m)
      OBVIOUS
    <3> QED BY <3>1
  <2>2. PICK d \in Nat : n = m + d
    BY <2>1
  <2>3. n * rb = m * rb + d * rb
    BY <2>2
  <2>4. d * rb \in Nat /\ m * rb \in Nat
    OBVIOUS
  <2> QED BY ONLY <2>3, <2>4
<1>2. m * rb \in Nat /\ n * rb \in Nat
  OBVIOUS
<1> QED BY <1>1, <1>2, BufBytesAssumption DEF Fits

LEMMA QuotientFits ==
    ASSUME NEW rb \in Nat, rb >= 1
    PROVE  BufBytes \div rb \in Nat /\ Fits(BufBytes \div rb, rb)
BY BufBytesAssumption, SMTT(30) DEF Fits

(* What fits in a buffer is not cut by the 16 bits of the count.           *)
LEMMA CountWhole ==
    ASSUME NEW n \in Nat, NEW rb \in Nat, rb >= 1, Fits(n, rb)
    PROVE  Count(n) = n
<1>1. n <= n * rb
  <2>1. PICK d \in Nat : rb = 1 + d
    <3>1. rb - 1 \in Nat /\ rb = 1 + (rb - 1)
      OBVIOUS
    <3> QED BY <3>1
  <2>2. n * rb = n + n * d /\ n * d \in Nat
    BY <2>1
  <2> QED BY ONLY <2>2, n \in Nat
<1>2. n * rb \in Nat
  OBVIOUS
<1>3. n < CountMod /\ CountMod \in Nat
  BY ONLY <1>1, <1>2, Fits(n, rb), BufBytesAssumption, CountModAssumption, n \in Nat DEF Fits
<1> QED BY <1>3 DEF Count

LEMMA CountType == ASSUME NEW n \in Int PROVE Count(n) \in Nat
BY CountModAssumption DEF Count

(* The height comes back from unsigned what it was, and only 0 is refused. *)
LEMMA HeightBack ==
    ASSUME NEW im \in Images
    PROVE  /\ im.rowBytes \in Nat /\ im.height \in Int
           /\ Signed(Unsigned(im.height)) = im.height
           /\ ~Refused(im) => im.rowBytes >= 1 /\ im.height # 0 /\ im.rowBytes <= BufBytes
<1>1. /\ im.rowBytes \in Nat /\ im.height \in Int
      /\ -Word <= 2 * im.height /\ 2 * im.height < Word
  BY ImagesAssumption
<1> QED BY <1>1, WordAssumption, BufBytesAssumption DEF Signed, Unsigned, Refused

-----------------------------------------------------------------------------
LEMMA LinkSetType == \A b \in Bufs : LinkSet(b) \in ParamSets
BY DEF LinkSet, ParamSets, Bufs, Other

LEMMA InitIInv == Init => IInv
<1> SUFFICES ASSUME Init PROVE IInv
  OBVIOUS
<1> USE DEF Init, EdmaInit
<1>1. TypeOK
  <2>1. LinkSet("ping") \in ParamSets /\ Torn \in Contents
    BY LinkSetType DEF Bufs, Torn, Contents
  <2>2. None \in [rowBytes : Nat, height : Int]
    BY DEF None
  <2>3. /\ missed \in BOOLEAN /\ erred \in BOOLEAN /\ table \in BOOLEAN
        /\ failed \in BOOLEAN /\ spoiled \in BOOLEAN
    OBVIOUS
  <2>4. content \in [Bufs -> Contents] /\ filled \in [Bufs -> Nat]
    BY <2>1
  <2>5. chids \in 0..3 /\ irq \in {-1, 0, 1} /\ sem \in Nat
    OBVIOUS
  <2>6. EdmaTypeOK
    BY <2>1, <2>3, <2>4, <2>5 DEF EdmaTypeOK
  <2>7. /\ src \in Int /\ height \in Int /\ rows \in Int /\ crc \in Int /\ reply \in Int
        /\ failed \in BOOLEAN /\ spoiled \in BOOLEAN
    BY <2>3
  <2>8. image \in [rowBytes : Nat, height : Int]
    BY <2>2
  <2> QED BY <2>3, <2>4, <2>6, <2>7, <2>8 DEF TypeOK
<1>2. HwInv
  BY DEF HwInv, Quiet, Waiting
<1>3. RowsInv
  BY DEF RowsInv, FirstPhase, PongPhase, PingPhase, Last
<1>4. TransferInv
  BY DEF TransferInv
<1>5. ImageInv
  BY DEF ImageInv, None, FirstPhase
<1> QED BY <1>1, <1>2, <1>3, <1>4, <1>5 DEF IInv

(* Where Blocks and Rest go, with n rows that fit and h rows to go.        *)
LEMMA BlocksRows ==
    ASSUME NEW h \in Nat, NEW n \in Nat \ {0}, NEW rb \in Nat, Fits(n, rb),
           section \in {"loop", "halves", "rest"}, Blocks(h, n)
    PROVE  /\ pc' \in {"startPong", "lastPing"}
           /\ section' \in {"loop", "halves", "rest"}
           /\ rows' \in Nat
           /\ pc' = "lastPing" => h = 0
           /\ pc' = "startPong" =>
                /\ rows' \in 1..h /\ Fits(rows', rb)
                /\ \/ section' = "loop" /\ h >= rows' * 2
                   \/ section' = "halves" /\ Fits(h - rows', rb) /\ h > rows'
                   \/ section' = "rest" /\ rows' = h
<1>1. CASE h >= n * 2
  BY <1>1 DEF Blocks, Goto
<1>2. CASE h < n * 2 /\ h > n
  <2> DEFINE m == h \div 2
  <2>1. m \in 1..h /\ m <= n /\ h - m \in Nat /\ h - m <= n /\ h > m
    BY <1>2
  <2>2. Fits(m, rb) /\ Fits(h - m, rb)
    BY <2>1, FitsSmaller
  <2>3. pc' = "startPong" /\ section' = "halves" /\ rows' = m
    BY <1>2 DEF Blocks, Goto
  <2> HIDE DEF m
  <2> QED BY <2>1, <2>2, <2>3
<1>3. CASE h <= n
  <2>1. Fits(h, rb)
    BY <1>3, FitsSmaller
  <2>2. Rest(h, n)
    BY <1>3 DEF Blocks
  <2> QED BY <2>1, <2>2 DEF Rest, Goto
<1> QED BY <1>1, <1>2, <1>3

LEMMA CallIInv == IInv /\ Call => IInv'
<1> SUFFICES ASSUME IInv, Call PROVE IInv'
  OBVIOUS
<1> USE DEF IInv, Call, NextImage, locals
<1>1. TypeOK'
  <2>1. /\ erred' \in BOOLEAN /\ missed' \in BOOLEAN /\ table' \in BOOLEAN
        /\ failed' \in BOOLEAN /\ spoiled' \in BOOLEAN
    BY DEF TypeOK, EdmaTypeOK
  <2>2. content' \in [Bufs -> Contents]
    BY DEF Contents, Torn
  <2>3. EdmaTypeOK'
    BY <2>1, <2>2 DEF TypeOK, EdmaTypeOK
  <2>4. image' \in [rowBytes : Nat, height : Int]
    BY ImagesAssumption
  <2> QED BY <2>1, <2>3, <2>4 DEF TypeOK
<1>2. HwInv'
  BY DEF HwInv, Quiet, Waiting
<1>3. RowsInv'
  BY DEF RowsInv, ImageInv, FirstPhase, PongPhase, PingPhase, Last
<1>4. TransferInv'
  BY DEF TransferInv, HwInv, Quiet, Waiting
<1>5. ImageInv'
  BY DEF ImageInv, FirstPhase
<1> QED BY <1>1, <1>2, <1>3, <1>4, <1>5

LEMMA RequestIInv == IInv /\ Request => IInv'
<1> SUFFICES ASSUME IInv, Request PROVE IInv'
  OBVIOUS
<1> USE DEF IInv
<1> DEFINE rb == image.rowBytes
           q == BufBytes \div rb
<1>1. /\ image \in Images /\ ~Refused(image) /\ pc = "request"
      /\ UNCHANGED <<engineVars, param, image, filled, section, table, crc, reply, spoiled>>
  BY DEF Request, ImageInv
<1>2. /\ rb \in Nat /\ rb >= 1 /\ rb <= BufBytes
      /\ image.height \in Int /\ image.height # 0
      /\ Signed(Unsigned(image.height)) = image.height
  BY <1>1, HeightBack
<1>3. q \in Nat /\ Fits(q, rb) /\ Fits(1, rb)
  BY <1>2, QuotientFits DEF Fits
<1> HIDE DEF q
<1>4. \/ image.height < 0 /\ RowsPerDma(q, image.height) = image.height
      \/ image.height < 0 /\ RowsPerDma(q, image.height) = 1
      \/ /\ image.height >= 1 /\ RowsPerDma(q, image.height) \in 1..image.height
         /\ Fits(RowsPerDma(q, image.height), rb)
  BY <1>2, <1>3, FitsSmaller DEF RowsPerDma
<1>5. image.height < 0 => RowsPerDma(q, image.height) = image.height
  <2>1. q >= 1
    BY <1>2, BufBytesAssumption DEF q
  <2> QED BY <1>2, <1>3, <2>1 DEF RowsPerDma
<1>6. CASE /\ RequestChannels /\ pc' = "link" /\ src' = 0 /\ UNCHANGED failed
           /\ height' = Signed(Unsigned(image.height)) /\ rows' = RowsPerDma(q, height')
  <2>0. height' = image.height /\ rows' = RowsPerDma(q, image.height)
    BY <1>2, <1>6
  <2>1. TypeOK'
    BY <1>1, <1>2, <1>4, <1>6, <2>0 DEF RequestChannels, TypeOK, EdmaTypeOK, engineVars
  <2>2. HwInv'
    BY <1>1, <1>6 DEF RequestChannels, HwInv, Quiet, Waiting, engineVars
  <2>3. RowsInv'
    BY <1>1, <1>2, <1>4, <1>6, <2>0 DEF RowsInv, FirstPhase, PongPhase, PingPhase, Last
  <2>4. TransferInv'
    BY <1>1, <1>6 DEF TransferInv, HwInv, Quiet, Waiting, engineVars
  <2>5. ImageInv'
    BY <1>1, <1>5, <1>6, <2>0 DEF ImageInv, FirstPhase, Refused
  <2> QED BY <2>1, <2>2, <2>3, <2>4, <2>5
<1>7. CASE /\ RequestFails /\ pc' = "finish" /\ failed' = TRUE
           /\ UNCHANGED <<src, height, rows>>
  <2>1. TypeOK'
    BY <1>1, <1>7 DEF RequestFails, TypeOK, EdmaTypeOK, engineVars
  <2>2. HwInv'
    BY <1>1, <1>7 DEF RequestFails, HwInv, Quiet, Waiting, engineVars
  <2>3. RowsInv'
    BY <1>1, <1>7 DEF RowsInv, FirstPhase, PongPhase, PingPhase, Last
  <2>4. TransferInv'
    BY <1>1, <1>7 DEF TransferInv, HwInv, Quiet, Waiting, engineVars
  <2>5. ImageInv'
    BY <1>1, <1>7 DEF ImageInv, FirstPhase, Refused
  <2> QED BY <2>1, <2>2, <2>3, <2>4, <2>5
<1> QED BY <1>6, <1>7 DEF Request, q

LEMMA LinkIInv == IInv /\ Link => IInv'
<1> SUFFICES ASSUME IInv, Link PROVE IInv'
  OBVIOUS
<1> USE DEF IInv, Link, taskVars, locals, engineVars
<1>1. TypeOK'
  <2>1. param' \in ParamSets
    BY LinkSetType DEF SetParamLink, Bufs, TypeOK, EdmaTypeOK
  <2>2. failed' \in BOOLEAN
    BY DEF TypeOK
  <2> QED BY <2>1, <2>2 DEF TypeOK, EdmaTypeOK
<1>2. HwInv'
  BY DEF HwInv, Quiet, Waiting
<1>3. RowsInv'
  BY DEF RowsInv, FirstPhase, PongPhase, PingPhase, Last
<1>4. TransferInv'
  BY DEF TransferInv, HwInv, Quiet, Waiting
<1>5. ImageInv'
  BY DEF ImageInv, FirstPhase, Refused
<1> QED BY <1>1, <1>2, <1>3, <1>4, <1>5

(* Starting a transfer into either buffer.                                 *)
LEMMA FillIInv == IInv /\ (StartFirst \/ StartPong \/ StartPing) => IInv'
<1> SUFFICES ASSUME IInv, NEW b \in Bufs, Fill(b),
                    \/ pc = "first" /\ pc' = "setup"
                    \/ pc = "startPong" /\ pc' = "processPing"
                    \/ pc = "startPing" /\ pc' = "processPong"
             PROVE  IInv'
  BY DEF StartFirst, StartPong, StartPing, Bufs
<1> USE DEF IInv, Fill, Start
<1>0. src \in Nat /\ rows \in Int /\ Count(rows) \in Nat
  <2>1. image.height >= 0 \/ image.height < 0
    BY DEF TypeOK
  <2>2. CASE image.height < 0
    BY <2>2, CountType DEF ImageInv, FirstPhase, TypeOK
  <2>3. CASE image.height >= 0
    BY <2>3, CountType
    DEF ImageInv, RowsInv, FirstPhase, PongPhase, PingPhase, TypeOK
  <2> QED BY <2>1, <2>2, <2>3
<1>1. TypeOK'
  BY <1>0 DEF TypeOK, EdmaTypeOK, ParamSets
<1>2. HwInv'
  BY DEF HwInv, Quiet, Busy, Waiting
<1>3. RowsInv'
  BY DEF RowsInv, FirstPhase, PongPhase, PingPhase, Last
<1>4. TransferInv'
  BY <1>0 DEF TransferInv, TypeOK, EdmaTypeOK, ParamSets
<1>5. Overruns(rows) => image.height < 0
  <2>1. SUFFICES ASSUME image.height >= 0 PROVE ~Overruns(rows)
    BY DEF TypeOK
  <2>2. rows \in Nat /\ image.rowBytes \in Nat /\ Fits(rows, image.rowBytes)
    BY <2>1 DEF RowsInv, FirstPhase, PongPhase, PingPhase, TypeOK
  <2>3. image.rowBytes >= 1
    BY HeightBack DEF ImageInv
  <2>4. Count(rows) = rows
    BY <2>2, <2>3, CountWhole
  <2>5. rows * image.rowBytes \in Nat /\ BufBytes \in Nat
    BY <2>2, BufBytesAssumption
  <2> QED BY <2>2, <2>4, <2>5 DEF Overruns, Fits
<1>6. ImageInv'
  BY <1>5 DEF ImageInv, FirstPhase, Refused
<1> QED BY <1>1, <1>2, <1>3, <1>4, <1>6

(* The steps that touch neither the engine nor the rows to go.             *)
LEMMA ProcessIInv == IInv /\ (Setup \/ ProcessPing \/ ProcessPong) => IInv'
<1> SUFFICES ASSUME IInv, Setup \/ ProcessPing \/ ProcessPong PROVE IInv'
  OBVIOUS
<1>0. /\ UNCHANGED <<edmaVars, locals, image, reply, histories>>
      /\ table' \in BOOLEAN /\ crc' \in Int
      /\ \/ pc = "setup" /\ pc' = "waitFirst"
         \/ pc = "processPing" /\ pc' = "waitPong"
         \/ pc = "processPong" /\ pc' = "waitPing"
  <2>1. \A b \in Bufs : Digests(b, filled[b]) \subseteq Int
    BY DEF Digests, Digest, IInv, TypeOK, Wrong
  <2> QED BY <2>1 DEF Setup, ProcessPing, ProcessPong, Process, IInv, TypeOK, Bufs
<1> USE <1>0 DEF IInv, edmaVars, locals, histories
<1>1. TypeOK'
  BY DEF TypeOK, EdmaTypeOK
<1>2. HwInv'
  BY DEF HwInv, Quiet, Busy, Waiting
<1>3. RowsInv'
  BY DEF RowsInv, FirstPhase, PongPhase, PingPhase, Last
<1>4. TransferInv'
  BY DEF TransferInv
<1>5. ImageInv'
  BY DEF ImageInv, FirstPhase, Refused
<1> QED BY <1>1, <1>2, <1>3, <1>4, <1>5

LEMMA ProcessLastIInv == IInv /\ ProcessLast => IInv'
<1> SUFFICES ASSUME IInv, ProcessLast PROVE IInv'
  OBVIOUS
<1>0. /\ UNCHANGED <<edmaVars, locals, image, table, reply, histories>>
      /\ crc' \in Int
      /\ pc \in Last /\ pc' = "free"
  <2>1. \A b \in Bufs : Digests(b, filled[b]) \subseteq Int
    BY DEF Digests, Digest, IInv, TypeOK, Wrong
  <2> QED BY <2>1 DEF ProcessLast, Process, Bufs, Last
<1> USE <1>0 DEF IInv, edmaVars, locals, histories, Last
<1>1. TypeOK'
  BY DEF TypeOK, EdmaTypeOK
<1>2. HwInv'
  BY DEF HwInv, Quiet, Busy, Waiting
<1>3. RowsInv'
  BY DEF RowsInv, FirstPhase, PongPhase, PingPhase, Refused
<1>4. TransferInv'
  BY DEF TransferInv
<1>5. ImageInv'
  BY DEF ImageInv, FirstPhase, Refused
<1> QED BY <1>1, <1>2, <1>3, <1>4, <1>5

(* A wait: what AwaitDma and the arithmetic after it leave, whatever the   *)
(* task does next, provided it does not wait again at once.                *)
LEMMA WaitLeaves ==
    ASSUME IInv, Wait, pc \in Waiting
    PROVE  /\ EdmaTypeOK' /\ Quiet'
           /\ chids = 3 /\ chids' = 3
           /\ image' = image /\ filled' = filled /\ table' = table
           /\ crc' = crc /\ reply' = reply /\ failed' = failed /\ spoiled' = spoiled
           /\ src' = src + rows /\ height' = height - rows
           /\ TransferInv'
<1> USE DEF IInv, Wait, AwaitDma, histories
<1>1. Busy
  BY DEF HwInv
<1>2. engine = "idle" /\ sem = 1 /\ (missed => irq = -1)
  BY <1>1 DEF Busy
<1>3. EdmaTypeOK'
  <2>1. missed' \in BOOLEAN /\ erred' \in BOOLEAN
    BY DEF TypeOK, EdmaTypeOK
  <2>2. sem' = 0 /\ irq' = 0
    BY <1>2
  <2> QED BY <2>1, <2>2 DEF TypeOK, EdmaTypeOK
<1>4. Quiet'
  <2>1. ~missed'
    <3>1. missed => ~(irq >= 0)
      BY <1>2
    <3>2. missed' = (missed /\ irq >= 0)
      OBVIOUS
    <3> QED BY ONLY <3>1, <3>2, Zenon
  <2>2. sem' = 0
    BY <1>2
  <2> QED BY <1>2, <2>1, <2>2 DEF Quiet
<1>5. chids = 3
  BY DEF HwInv, Waiting
<1>6. TransferInv'
  BY <1>2 DEF TransferInv
<1> QED BY <1>3, <1>4, <1>5, <1>6

LEMMA WaitFirstIInv == IInv /\ WaitFirst /\ image.height >= 0 => IInv'
<1> SUFFICES ASSUME IInv, WaitFirst, image.height >= 0 PROVE IInv'
  OBVIOUS
<1> DEFINE h == height - rows
<1>1. /\ Wait /\ pc \in Waiting
      /\ src \in Nat /\ rows \in Nat \ {0} /\ h \in Nat
      /\ Fits(rows, image.rowBytes) /\ image.rowBytes \in Nat
      /\ src = 0 /\ height = image.height
      /\ image \in [rowBytes : Nat, height : Int]
      /\ section \in {"loop", "halves", "rest"}
  BY DEF WaitFirst, Waiting, IInv, TypeOK, RowsInv, FirstPhase
<1>2. Quiet' /\ EdmaTypeOK' /\ TransferInv' /\ chids' = 3
  BY <1>1, WaitLeaves
<1>3. /\ image' = image /\ filled' = filled /\ table' = table
      /\ crc' = crc /\ reply' = reply /\ failed' = failed /\ spoiled' = spoiled
      /\ src' = src + rows /\ height' = h
  BY <1>1, WaitLeaves
<1>4. /\ pc' \in {"startPong", "lastPing"}
      /\ section' \in {"loop", "halves", "rest"}
      /\ rows' \in Nat
      /\ pc' = "lastPing" => h = 0
      /\ pc' = "startPong" =>
            /\ rows' \in 1..h /\ Fits(rows', image.rowBytes)
            /\ \/ section' = "loop" /\ h >= rows' * 2
               \/ section' = "halves" /\ Fits(h - rows', image.rowBytes) /\ h > rows'
               \/ section' = "rest" /\ rows' = h
  <2>1. CASE h < 1
    BY <1>1, <2>1 DEF WaitFirst, Goto
  <2>2. CASE ~(h < 1)
    <3>1. Blocks(h, rows)
      BY <2>2 DEF WaitFirst
    <3> HIDE DEF h
    <3> QED BY <1>1, <3>1, BlocksRows
  <2> QED BY <2>1, <2>2
<1> HIDE DEF h
<1>5. TypeOK'
  BY <1>1, <1>2, <1>3, <1>4 DEF IInv, TypeOK
<1>6. HwInv'
  BY <1>2, <1>4 DEF HwInv, Waiting
<1>7. src' + height' = image'.height /\ src' \in Nat
  BY <1>1, <1>3 DEF h, IInv, TypeOK
<1>8. RowsInv'
  BY <1>1, <1>3, <1>4, <1>7
  DEF RowsInv, FirstPhase, PongPhase, PingPhase, Last
<1>9. ImageInv'
  BY <1>1, <1>3, <1>4 DEF IInv, ImageInv, FirstPhase, Refused
<1> QED BY <1>2, <1>5, <1>6, <1>8, <1>9 DEF IInv

(* The first transfer of an image whose height is below zero is the last.  *)
LEMMA WaitShortIInv == IInv /\ WaitFirst /\ image.height < 0 => IInv'
<1> SUFFICES ASSUME IInv, WaitFirst, image.height < 0 PROVE IInv'
  OBVIOUS
<1>1. /\ Wait /\ pc \in Waiting
      /\ height \in Int /\ rows = height /\ src = 0
  BY DEF WaitFirst, Waiting, IInv, TypeOK, ImageInv, FirstPhase
<1>2. Quiet' /\ EdmaTypeOK' /\ TransferInv' /\ chids' = 3
  BY <1>1, WaitLeaves
<1>3. /\ image' = image /\ filled' = filled /\ table' = table
      /\ crc' = crc /\ reply' = reply /\ failed' = failed /\ spoiled' = spoiled
      /\ src' = src + rows /\ height' = height - rows
  BY <1>1, WaitLeaves
<1>4. pc' = "lastPing" /\ section' = section /\ rows' = rows
  BY <1>1 DEF WaitFirst, Goto
<1>5. TypeOK'
  BY <1>1, <1>2, <1>3, <1>4 DEF IInv, TypeOK
<1>6. HwInv'
  BY <1>2, <1>4 DEF HwInv, Waiting
<1>7. RowsInv'
  BY <1>3 DEF RowsInv, IInv, TypeOK
<1>8. ImageInv'
  BY <1>3, <1>4 DEF IInv, ImageInv, FirstPhase, Refused, WaitFirst
<1> QED BY <1>2, <1>5, <1>6, <1>7, <1>8 DEF IInv

LEMMA WaitPingIInv == IInv /\ WaitPing => IInv'
<1> SUFFICES ASSUME IInv, WaitPing PROVE IInv'
  OBVIOUS
<1> DEFINE h == height - rows
<1>1. /\ Wait /\ pc \in Waiting
      /\ src \in Nat /\ rows \in Nat \ {0} /\ h \in Nat
      /\ Fits(rows, image.rowBytes) /\ image.rowBytes \in Nat
      /\ src + height = image.height /\ image.height >= 0
      /\ image \in [rowBytes : Nat, height : Int]
      /\ section = "loop" \/ (section = "halves" /\ h = 0)
  <2>1. Wait /\ pc = "waitPing" /\ TypeOK /\ RowsInv
    BY DEF WaitPing, IInv
  <2>0. image.height >= 0
    BY <2>1 DEF IInv, ImageInv, TypeOK, FirstPhase
  <2>2. /\ src \in Nat /\ height \in Int /\ image \in [rowBytes : Nat, height : Int]
        /\ rows \in 1..height /\ Fits(rows, image.rowBytes)
        /\ src + height = image.height /\ image.height >= 0
        /\ section = "loop" \/ (section = "halves" /\ rows = height)
    BY <2>0, <2>1 DEF TypeOK, RowsInv, PingPhase
  <2> QED BY <2>1, <2>2 DEF Waiting
<1>2. Quiet' /\ EdmaTypeOK' /\ TransferInv' /\ chids' = 3
  BY <1>1, WaitLeaves
<1>3. /\ image' = image /\ filled' = filled /\ table' = table
      /\ crc' = crc /\ reply' = reply /\ failed' = failed /\ spoiled' = spoiled
      /\ src' = src + rows /\ height' = h
  BY <1>1, WaitLeaves
<1>4. /\ pc' \in {"startPong", "lastPing"}
      /\ section' \in {"loop", "halves", "rest"}
      /\ rows' \in Nat
      /\ pc' = "lastPing" => h = 0
      /\ pc' = "startPong" =>
            /\ rows' \in 1..h /\ Fits(rows', image.rowBytes)
            /\ \/ section' = "loop" /\ h >= rows' * 2
               \/ section' = "halves" /\ Fits(h - rows', image.rowBytes) /\ h > rows'
               \/ section' = "rest" /\ rows' = h
  <2>1. CASE section = "loop"
    <3>1. Blocks(h, rows)
      BY <2>1 DEF WaitPing
    <3> HIDE DEF h
    <3> QED BY <1>1, <2>1, <3>1, BlocksRows
  <2>2. CASE section = "halves" /\ h = 0
    BY <1>1, <2>2 DEF WaitPing, Rest, Goto
  <2> QED BY <1>1, <2>1, <2>2
<1> HIDE DEF h
<1>5. TypeOK'
  BY <1>1, <1>2, <1>3, <1>4 DEF IInv, TypeOK
<1>6. HwInv'
  BY <1>2, <1>4 DEF HwInv, Waiting
<1>7. src' + height' = image'.height /\ src' \in Nat
  BY <1>1, <1>3 DEF h, IInv, TypeOK
<1>8. RowsInv'
  BY <1>1, <1>3, <1>4, <1>7
  DEF RowsInv, FirstPhase, PongPhase, PingPhase, Last
<1>9. ImageInv'
  BY <1>1, <1>3, <1>4 DEF IInv, ImageInv, FirstPhase, Refused
<1> QED BY <1>2, <1>5, <1>6, <1>8, <1>9 DEF IInv

LEMMA WaitPongIInv == IInv /\ WaitPong => IInv'
<1> SUFFICES ASSUME IInv, WaitPong PROVE IInv'
  OBVIOUS
<1> DEFINE h == height - rows
<1>1. /\ Wait /\ pc \in Waiting
      /\ src \in Nat /\ rows \in Nat \ {0} /\ h \in Nat
      /\ Fits(rows, image.rowBytes) /\ image.rowBytes \in Nat
      /\ src + height = image.height /\ image.height >= 0
      /\ image \in [rowBytes : Nat, height : Int]
      /\ \/ section = "loop" /\ h >= rows
         \/ section = "halves" /\ Fits(h, image.rowBytes) /\ h >= 1
         \/ section = "rest" /\ h = 0
  <2>1. image.height >= 0 /\ pc = "waitPong" /\ Wait
    BY DEF WaitPong, IInv, ImageInv, TypeOK, FirstPhase
  <2> QED BY <2>1 DEF Waiting, IInv, TypeOK, RowsInv, PongPhase
<1>2. Quiet' /\ EdmaTypeOK' /\ TransferInv' /\ chids' = 3
  BY <1>1, WaitLeaves
<1>3. /\ image' = image /\ filled' = filled /\ table' = table
      /\ crc' = crc /\ reply' = reply /\ failed' = failed /\ spoiled' = spoiled
      /\ src' = src + rows /\ height' = h
  BY <1>1, WaitLeaves
<1>4. /\ section' = section
      /\ \/ /\ pc' = "startPing"
            /\ rows' \in 1..h /\ Fits(rows', image.rowBytes)
            /\ section = "loop" \/ (section = "halves" /\ rows' = h)
         \/ /\ pc' = "lastPong"
            /\ rows' \in Nat
            /\ h = 0
  <2>1. CASE section = "loop" /\ h >= rows
    <3>1. Goto("startPing", section, rows)
      BY <2>1 DEF WaitPong
    <3> QED BY <1>1, <2>1, <3>1 DEF Goto
  <2>2. CASE section = "halves" /\ Fits(h, image.rowBytes) /\ h >= 1
    <3>1. Goto("startPing", section, h)
      BY <2>2 DEF WaitPong
    <3> HIDE DEF h
    <3> QED BY <1>1, <2>2, <3>1 DEF Goto
  <2>3. CASE section = "rest" /\ h = 0
    <3>1. Goto("lastPong", section, rows)
      BY <2>3 DEF WaitPong
    <3> QED BY <1>1, <2>3, <3>1 DEF Goto
  <2> QED BY <1>1, <2>1, <2>2, <2>3
<1> HIDE DEF h
<1>5. TypeOK'
  BY <1>1, <1>2, <1>3, <1>4 DEF IInv, TypeOK
<1>6. HwInv'
  BY <1>2, <1>4 DEF HwInv, Waiting
<1>7. src' + height' = image'.height /\ src' \in Nat
  BY <1>1, <1>3 DEF h, IInv, TypeOK
<1>8. RowsInv'
  BY <1>1, <1>3, <1>4, <1>7
  DEF RowsInv, FirstPhase, PongPhase, PingPhase, Last
<1>9. ImageInv'
  BY <1>1, <1>3, <1>4 DEF IInv, ImageInv, FirstPhase, Refused
<1> QED BY <1>2, <1>5, <1>6, <1>8, <1>9 DEF IInv

LEMMA FreeIInv == IInv /\ (Free \/ Finish) => IInv'
<1> SUFFICES ASSUME IInv, Free \/ Finish PROVE IInv'
  OBVIOUS
<1> USE DEF IInv, Free, Finish, FreeChannels, edmaVars, engineVars,
            taskVars, locals, histories
<1>1. TypeOK'
  <2>1. LinkSet("ping") \in ParamSets
    BY LinkSetType DEF Bufs
  <2>2. EdmaTypeOK'
    BY <2>1 DEF TypeOK, EdmaTypeOK
  <2> QED BY <2>2 DEF TypeOK
<1>2. HwInv'
  BY DEF HwInv, Quiet, Waiting
<1>3. RowsInv'
  BY DEF RowsInv, FirstPhase, PongPhase, PingPhase, Last
<1>4. TransferInv'
  BY DEF TransferInv, HwInv, Quiet, Waiting
<1>5. ImageInv'
  BY DEF ImageInv, FirstPhase, Refused
<1> QED BY <1>1, <1>2, <1>3, <1>4, <1>5

LEMMA EngineIInv == IInv /\ Engine => IInv'
<1> SUFFICES ASSUME IInv, Engine PROVE IInv'
  OBVIOUS
<1> USE DEF IInv, taskVars, locals, histories
<1>1. engine # "idle" /\ pc \in Waiting /\ sem = 0 /\ irq = 0 /\ ~missed
  BY DEF Engine, EngineActs, EngineSubmit, EngineComplete, EngineMisses, HwInv, Quiet, Busy
<1>2. EdmaTypeOK'
  <2>1. CASE EngineSubmit
    <3>1. LinkSet(param.link) \in ParamSets /\ Torn \in Contents
      BY LinkSetType DEF TypeOK, EdmaTypeOK, ParamSets, Torn, Contents
    <3> QED BY <2>1, <3>1 DEF EngineSubmit, TypeOK, EdmaTypeOK
  <2>2. CASE EngineComplete
    <3>1. LinkSet("ping") \in ParamSets
      BY LinkSetType DEF Bufs
    <3>2. [first |-> moving.src, rows |-> moving.rows] \in Contents
      BY DEF TypeOK, EdmaTypeOK, ParamSets, Contents
    <3>3. sem' \in Nat /\ irq' \in {-1, 0, 1} /\ missed' \in BOOLEAN /\ erred' \in BOOLEAN
      BY <2>2 DEF EngineComplete, TypeOK, EdmaTypeOK
    <3> QED BY <2>2, <3>1, <3>2, <3>3 DEF EngineComplete, TypeOK, EdmaTypeOK
  <2>3. CASE EngineMisses
    BY <2>3 DEF EngineMisses, TypeOK, EdmaTypeOK
  <2> QED BY <2>1, <2>2, <2>3 DEF Engine, EngineActs
<1>7. TypeOK'
  BY <1>2 DEF Engine, TypeOK
<1>3. Busy'
  BY <1>1 DEF Engine, EngineActs, EngineSubmit, EngineComplete, EngineMisses, Busy
<1>4. HwInv'
  BY <1>1, <1>3 DEF Engine, EngineActs, EngineSubmit, EngineComplete, EngineMisses, HwInv
<1>5. RowsInv'
  BY DEF Engine, RowsInv, FirstPhase, PongPhase, PingPhase, Last
<1>6. TransferInv'
  BY <1>1 DEF Engine, EngineActs, EngineSubmit, EngineComplete, EngineMisses, TransferInv
<1>8. ImageInv'
  BY DEF Engine, ImageInv, FirstPhase, Refused
<1> QED BY <1>7, <1>4, <1>5, <1>6, <1>8

LEMMA NextIInv == IInv /\ [Next]_vars => IInv'
<1>1. IInv /\ UNCHANGED vars => IInv'
  BY DEF IInv, vars, edmaVars, taskVars, locals, histories, TypeOK, EdmaTypeOK, HwInv, Quiet,
         Busy, ImageInv, RowsInv, TransferInv, Refused
<1>2. IInv => image.height >= 0 \/ image.height < 0
  BY DEF IInv, TypeOK
<1> QED BY <1>1, <1>2, CallIInv, RequestIInv, LinkIInv, FillIInv, ProcessIInv,
           ProcessLastIInv, WaitFirstIInv, WaitShortIInv, WaitPingIInv, WaitPongIInv,
           FreeIInv, EngineIInv
        DEF Next, Transfers

LEMMA Inductive == Spec => []IInv
<1> QED BY InitIInv, NextIInv, PTL DEF Spec

(* Every variable keeps its type.                                          *)
THEOREM TypeCorrect == Spec => []TypeOK
<1>1. IInv => TypeOK
  BY DEF IInv
<1> QED BY <1>1, Inductive, PTL

(* The engine is never given more rows than a buffer of any size holds of  *)
(* an image of any size, whatever fails, unless its height is below zero:  *)
(* process_dma_in.                                                         *)
THEOREM NoOverrun == Spec => []TransfersFit
<1>1. IInv => TransfersFit
  <2> SUFFICES ASSUME IInv PROVE TransfersFit
    OBVIOUS
  <2>1. spoiled => \E im \in Images : im.height < 0
    BY DEF IInv, ImageInv
  <2>2. SUFFICES ASSUME image.height >= 0, engine # "idle"
                 PROVE  Count(rows) * image.rowBytes <= BufBytes
    BY <2>1 DEF TransfersFit, IInv, TransferInv
  <2>3. pc \in Waiting
    BY <2>2 DEF IInv, HwInv, Quiet
  <2>4. /\ rows \in Nat /\ image.rowBytes \in Nat /\ Fits(rows, image.rowBytes)
        /\ pc # "idle"
    BY <2>2, <2>3
    DEF IInv, TypeOK, RowsInv, Waiting, FirstPhase, PongPhase, PingPhase
  <2>5. image.rowBytes >= 1
    BY <2>4, HeightBack DEF IInv, ImageInv
  <2> QED BY <2>4, <2>5, CountWhole DEF Fits
<1> QED BY <1>1, Inductive, PTL

(* A request leaves no channel, transfer, completion or error bit behind,  *)
(* whatever failed: the early returns of request_channels, process_dma_in. *)
THEOREM NothingLeftBehind == Spec => []LeavesClean
<1>1. IInv => LeavesClean
  BY DEF IInv, HwInv, Quiet, Waiting, LeavesClean
<1> QED BY <1>1, Inductive, PTL

-----------------------------------------------------------------------------
(* What the buffers hold, as long as no event of the request is missed.    *)

(* The channel's next transfer goes to b.                                  *)
Toward(b) == param.dst = b /\ param.link = Other(b)

(* Buffer b holds the rows that follow those of the CRC, and no rows were  *)
(* transferred but these and those.                                        *)
Full(b) ==
    /\ content[b].first = crc /\ content[b].rows = filled[b]
    /\ src = crc + filled[b]

(* The rows from src on are on their way to b or have come.                *)
Coming(b) ==
    /\ filled[b] = rows
    /\ \/ engine = "triggered" /\ Toward(b)
       \/ engine = "moving" /\ moving.dst = b /\ Toward(Other(b))
       \/ /\ engine = "idle" /\ Toward(Other(b))
          /\ content[b].first = src /\ content[b].rows = rows

Data ==
    /\ crc \in Nat
    /\ pc \in {"request", "link"} \union FirstPhase => crc = 0
    /\ pc = "first" => Toward("ping")
    /\ pc \in {"setup", "waitFirst"} => Coming("ping")
    /\ pc \in {"waitFirst"} \union PongPhase \union PingPhase \union Last => table
    /\ pc \in {"startPong", "processPing", "lastPing"} => Full("ping")
    /\ pc \in {"startPing", "processPong", "lastPong"} => Full("pong")
    /\ pc = "startPong" => Toward("pong")
    /\ pc = "startPing" => Toward("ping")
    /\ pc \in {"processPing", "waitPong"} => Coming("pong")
    /\ pc \in {"processPong", "waitPing"} => Coming("ping")
    /\ pc \in {"waitPong", "waitPing"} => crc = src
    /\ pc \in {"free", "finish"} => crc = IF failed THEN 0 ELSE image.height
    /\ pc \notin {"idle", "free", "finish"} => ~failed
    /\ pc = "idle" => reply = IF Refused(image) \/ failed THEN 0 ELSE image.height

(* An image that has rows, and no transfer that ran over a buffer before.  *)
Sound == image.height >= 0 /\ ~spoiled

DataInv == erred \/ ~Sound \/ Data

LEMMA InitData == Init => Data
BY DEF Init, EdmaInit, Data, FirstPhase, PongPhase, PingPhase, Last, Refused, None

LEMMA RowsCounted ==
    ASSUME IInv, Sound, pc \in FirstPhase \union PongPhase \union PingPhase
    PROVE  rows \in Nat /\ Count(rows) = rows
<1>1. /\ rows \in Nat /\ image.rowBytes \in Nat /\ Fits(rows, image.rowBytes)
      /\ pc # "idle"
  BY DEF IInv, TypeOK, RowsInv, FirstPhase, PongPhase, PingPhase, Sound
<1>2. image.rowBytes >= 1
  BY <1>1, HeightBack DEF IInv, ImageInv
<1> QED BY <1>1, <1>2, CountWhole

(* A request starts afresh, whatever became of the one before.             *)
LEMMA CallData == IInv /\ Call => Data'
<1> SUFFICES ASSUME IInv, Call PROVE Data'
  OBVIOUS
<1>1. /\ pc' \in {"idle", "request"} /\ crc' = 0 /\ reply' = 0 /\ failed' = FALSE
      /\ pc' = "idle" => Refused(image')
  BY DEF Call
<1> QED BY <1>1 DEF Data, FirstPhase, PongPhase, PingPhase, Last, Refused

LEMMA RequestData == IInv /\ Data /\ Sound /\ (Request \/ Link) => Data'
<1> SUFFICES ASSUME IInv, Data, Sound, Request \/ Link PROVE Data'
  OBVIOUS
<1>1. crc = 0 /\ crc' = 0 /\ image' = image /\ pc \in {"request", "link"} /\ ~failed
  BY DEF Request, Link, Data, taskVars, locals
<1>2. CASE pc' = "link" /\ failed' = failed
  BY <1>1, <1>2 DEF Data, FirstPhase, PongPhase, PingPhase, Last, Refused
<1>3. CASE pc' = "first" /\ SetParamLink /\ failed' = failed
  BY <1>1, <1>3
  DEF Data, FirstPhase, PongPhase, PingPhase, Last, Refused, SetParamLink,
      LinkSet, Toward
<1>4. CASE pc' \in {"free", "finish"} /\ failed' = TRUE
  BY <1>1, <1>4 DEF Data, FirstPhase, PongPhase, PingPhase, Last, Refused
<1> QED BY <1>2, <1>3, <1>4 DEF Request, RequestFails, Link

LEMMA FillData == IInv /\ Data /\ Sound /\ (StartFirst \/ StartPong \/ StartPing) => Data'
<1> SUFFICES ASSUME IInv, Data, Sound, NEW b \in Bufs, Fill(b),
                    \/ pc = "first" /\ pc' = "setup" /\ b = "ping"
                    \/ pc = "startPong" /\ pc' = "processPing" /\ b = "pong"
                    \/ pc = "startPing" /\ pc' = "processPong" /\ b = "ping"
             PROVE  Data'
  BY DEF StartFirst, StartPong, StartPing, Bufs
<1>1. Toward(b)
  BY DEF Data
<1>2. Coming(b)'
  BY <1>1 DEF Fill, Start, Coming, Toward, IInv, TypeOK, EdmaTypeOK, ParamSets
<1>3. \A a \in Bufs : a # b /\ Full(a) => Full(a)'
  BY DEF Full, Fill, Start, IInv, TypeOK
<1>4. UNCHANGED <<image, src, height, rows, section, table, crc, reply, content, failed>>
  BY DEF Fill, Start
<1> QED BY <1>2, <1>3, <1>4
        DEF Data, Bufs, FirstPhase, PongPhase, PingPhase, Last, Refused

LEMMA DigestFull ==
    ASSUME IInv, Sound, NEW b \in Bufs, Full(b), table
    PROVE  Digests(b, filled[b]) = {src}
<1>1. filled[b] \in Nat
  BY DEF IInv, TypeOK, EdmaTypeOK, Contents, Full
<1> QED BY <1>1 DEF Full, Digest, Digests, Sound

LEMMA ProcessData ==
    IInv /\ Data /\ Sound /\ (Setup \/ ProcessPing \/ ProcessPong \/ ProcessLast) => Data'
<1> SUFFICES ASSUME IInv, Data, Sound PROVE
        (Setup \/ ProcessPing \/ ProcessPong \/ ProcessLast) => Data'
  OBVIOUS
<1>0. src \in Nat
  BY DEF IInv, RowsInv, Sound
<1>1. ASSUME Setup PROVE Data'
  BY <1>1 DEF Setup, Data, edmaVars, locals, histories, Coming, Toward, FirstPhase, PongPhase,
              PingPhase, Last, Refused
<1>2. ASSUME ProcessPing \/ ProcessPong PROVE Data'
  <2>1. /\ UNCHANGED <<edmaVars, locals, image, table, reply, histories>>
        /\ crc' = src /\ table
        /\ \/ pc = "processPing" /\ pc' = "waitPong"
           \/ pc = "processPong" /\ pc' = "waitPing"
    BY <1>2, DigestFull
    DEF ProcessPing, ProcessPong, Process, Data, PongPhase, PingPhase, Bufs
  <2> QED BY <1>0, <2>1 DEF Data, edmaVars, locals, histories, Coming, Toward, FirstPhase, PongPhase,
              PingPhase, Last, Refused
<1>3. ASSUME ProcessLast PROVE Data'
  <2>1. /\ UNCHANGED <<edmaVars, locals, image, table, reply, histories>>
        /\ crc' = src /\ pc \in Last /\ pc' = "free" /\ ~failed /\ failed' = failed
    BY <1>3, DigestFull DEF ProcessLast, Process, Data, Last, Bufs, histories
  <2>2. src = image.height
    <3>1. height = 0 /\ src + height = image.height
      BY <2>1 DEF IInv, RowsInv, Last, Sound
    <3> QED BY <1>0, <3>1
  <2> QED BY <1>0, <2>1, <2>2 DEF Data, FirstPhase, PongPhase, PingPhase, Last, Refused
<1> QED BY <1>1, <1>2, <1>3

LEMMA WaitData == IInv /\ Data /\ Sound /\ (WaitFirst \/ WaitPong \/ WaitPing) => Data'
<1> SUFFICES ASSUME IInv, Data, Sound, WaitFirst \/ WaitPong \/ WaitPing PROVE Data'
  OBVIOUS
<1> SUFFICES ASSUME NEW b \in Bufs, Wait, Coming(b), crc = src, table,
                    \/ /\ pc \in {"waitFirst", "waitPing"} /\ b = "ping"
                       /\ pc' \in {"startPong", "lastPing"}
                    \/ /\ pc = "waitPong" /\ b = "pong"
                       /\ pc' \in {"startPing", "lastPong"}
             PROVE  Data'
  <2>0. \A h, n : Blocks(h, n) \/ Rest(h, n) => pc' \in {"startPong", "lastPing"}
    BY DEF Blocks, Rest, Goto
  <2>1. pc = "waitFirst" => crc = src /\ table /\ Coming("ping")
    BY DEF Data, IInv, ImageInv, FirstPhase
  <2>2. pc = "waitPing" => crc = src /\ table /\ Coming("ping")
    BY DEF Data, PingPhase
  <2>3. pc = "waitPong" => crc = src /\ table /\ Coming("pong")
    BY DEF Data, PongPhase
  <2>4. WaitFirst => pc = "waitFirst" /\ Wait /\ pc' \in {"startPong", "lastPing"}
    BY <2>0 DEF WaitFirst, Goto
  <2>5. WaitPing => pc = "waitPing" /\ Wait /\ pc' \in {"startPong", "lastPing"}
    BY <2>0 DEF WaitPing
  <2>6. WaitPong => pc = "waitPong" /\ Wait /\ pc' \in {"startPing", "lastPong"}
    <3>1. section \in {"loop", "halves", "rest"}
      BY DEF IInv, TypeOK
    <3>2. WaitPong => pc' \in {"startPing", "lastPong"}
      <4>1. CASE section = "loop"
        BY <4>1 DEF WaitPong, Goto
      <4>2. CASE section = "halves"
        BY <4>2 DEF WaitPong, Goto
      <4>3. CASE section = "rest"
        BY <4>3 DEF WaitPong, Goto
      <4> QED BY <3>1, <4>1, <4>2, <4>3
    <3> QED BY <3>2 DEF WaitPong
  <2> QED BY <2>1, <2>2, <2>3, <2>4, <2>5, <2>6 DEF Bufs
<1>1. engine = "idle"
  BY DEF Wait, AwaitDma, IInv, HwInv, Busy, Waiting
<1>2. /\ UNCHANGED <<param, content, filled, crc, table, image, reply, failed>>
      /\ src' = src + rows
  BY DEF Wait, AwaitDma, histories
<1>3. Full(b)'
  BY <1>1, <1>2 DEF Coming, Full
<1>4. Toward(Other(b))'
  BY <1>1, <1>2 DEF Coming, Toward
<1> QED BY <1>2, <1>3, <1>4
        DEF Data, Bufs, Other, FirstPhase, PongPhase, PingPhase, Last, Refused

LEMMA FreeData == IInv /\ Data /\ Sound /\ (Free \/ Finish) => Data'
<1> SUFFICES ASSUME IInv, Data, Sound, Free \/ Finish PROVE Data'
  OBVIOUS
<1>1. /\ UNCHANGED <<image, crc, failed>>
      /\ \/ pc' = "finish" /\ pc = "free" /\ reply' = reply
         \/ pc' = "idle" /\ pc = "finish" /\ reply' = crc
  BY DEF Free, Finish, taskVars, locals, histories
<1>2. ~Refused(image)
  BY DEF Free, Finish, IInv, ImageInv
<1> QED BY <1>1, <1>2 DEF Data, FirstPhase, PongPhase, PingPhase, Last, Refused

LEMMA EngineData == IInv /\ Data /\ Sound /\ Engine /\ ~erred' => Data'
<1> SUFFICES ASSUME IInv, Data, Sound, Engine, ~erred' PROVE Data'
  OBVIOUS
<1>1. EngineSubmit \/ EngineComplete
  BY DEF Engine, EngineActs, EngineMisses
<1>2. engine # "idle" /\ pc \in Waiting
  BY <1>1 DEF EngineSubmit, EngineComplete, IInv, HwInv, Quiet
<1>3. ASSUME NEW b \in Bufs, Coming(b) PROVE Coming(b)'
  <2>1. CASE EngineSubmit
    BY <1>3, <2>1
    DEF EngineSubmit, Engine, taskVars, locals, Coming, Toward, LinkSet, Bufs, Other
  <2>2. CASE EngineComplete
    <3>0. Count(rows) = rows
      BY <1>2, RowsCounted DEF Waiting, FirstPhase, PongPhase, PingPhase
    <3>1. moving.dst = b /\ moving.src = src /\ moving.rows = rows /\ Toward(Other(b))
      BY <3>0, <1>3, <2>2 DEF EngineComplete, Coming, IInv, TransferInv
    <3>2. content'[b] = [first |-> src, rows |-> rows]
      BY <2>2, <3>1 DEF EngineComplete, IInv, TypeOK, EdmaTypeOK
    <3> QED BY <1>3, <2>2, <3>1, <3>2
            DEF EngineComplete, Engine, taskVars, locals, Coming, Toward
  <2> QED BY <1>1, <2>1, <2>2
<1>4. ASSUME NEW b \in Bufs, Coming(b), NEW a \in Bufs, a # b PROVE content'[a] = content[a]
  <2>1. CASE EngineSubmit
    BY <1>4, <2>1 DEF EngineSubmit, Coming, Toward, IInv, TypeOK, EdmaTypeOK
  <2>2. CASE EngineComplete
    BY <1>4, <2>2 DEF EngineComplete, Coming, IInv, TypeOK, EdmaTypeOK
  <2> QED BY <1>1, <2>1, <2>2
<1>5. UNCHANGED <<pc, image, src, height, rows, filled, section, table, crc, reply,
                failed>>
  BY DEF Engine, taskVars, locals, histories
<1> QED BY <1>2, <1>3, <1>4, <1>5
        DEF Data, Full, Bufs, Waiting, FirstPhase, PongPhase, PingPhase, Last, Refused

LEMMA NextData == IInv /\ DataInv /\ [Next]_vars => DataInv'
<1> SUFFICES ASSUME IInv, DataInv, [Next]_vars, ~erred', Sound' PROVE Data'
  BY DEF DataInv
<1>1. CASE Call
  BY <1>1, CallData
<1>2. Call \/ (~erred /\ Sound)
  <2> USE DEF locals, histories
  <2>1. Transfers => erred' = erred /\ image' = image /\ (spoiled => spoiled')
    <3>1. Fill("ping") \/ Fill("pong") \/ Wait \/ Process("ping") \/ Process("pong") =>
                erred' = erred /\ image' = image /\ (spoiled => spoiled')
      <4>1. Wait \/ Process("ping") \/ Process("pong") =>
                erred' = erred /\ image' = image /\ spoiled' = spoiled
        BY DEF Process, Wait, AwaitDma, edmaVars
      <4>2. ASSUME NEW b, Fill(b)
            PROVE  erred' = erred /\ image' = image /\ spoiled' = (spoiled \/ Overruns(rows))
        BY <4>2 DEF Fill, Start
      <4> QED BY <4>1, <4>2, Zenon
    <3>2. Request \/ Link \/ Setup \/ Free \/ Finish =>
                erred' = erred /\ image' = image /\ (spoiled => spoiled')
      BY DEF Request, Link, Setup, Free, Finish, edmaVars, engineVars, taskVars
    <3> QED BY <3>1, <3>2
            DEF Transfers, StartFirst, StartPong, StartPing, ProcessPing, ProcessPong,
                ProcessLast, WaitFirst, WaitPong, WaitPing
  <2>2. Engine => (erred => erred') /\ image' = image /\ (spoiled => spoiled')
    BY DEF Engine, EngineActs, EngineSubmit, EngineComplete, EngineMisses, taskVars
  <2>3. UNCHANGED vars => erred' = erred /\ image' = image /\ (spoiled => spoiled')
    BY DEF vars, edmaVars, taskVars
  <2> QED BY <2>1, <2>2, <2>3 DEF Next, Sound
<1>3. CASE ~erred /\ Sound
  <2>1. Data
    BY <1>3 DEF DataInv
  <2>2. CASE UNCHANGED vars
    BY <2>1, <2>2
    DEF vars, edmaVars, taskVars, locals, histories, Data, Full, Coming, Toward, Refused
  <2> QED BY <1>1, <1>3, <2>1, <2>2, RequestData, FillData, ProcessData, WaitData, FreeData,
             EngineData
          DEF Next, Transfers
<1> QED BY <1>1, <1>2, <1>3

LEMMA DataHolds == Spec => [](IInv /\ DataInv)
<1>1. Init => IInv /\ DataInv
  BY InitIInv, InitData DEF DataInv
<1>2. IInv /\ DataInv /\ [Next]_vars => (IInv /\ DataInv)'
  BY NextIInv, NextData
<1> QED BY <1>1, <1>2, PTL DEF Spec

(* For every image that has rows and every size of buffer, the callback is *)
(* given every row in order, until an event is missed or the height of an  *)
(* earlier request, below zero, has made a transfer run over its buffer:   *)
(* the loop and the three tails of process_dma_in.                         *)
THEOREM RowsInOrder == Spec => []NeverWrong
<1>1. IInv /\ DataInv => NeverWrong
  BY DEF DataInv, Data, NeverWrong, Wrong, Sound, IInv, TypeOK
<1> QED BY <1>1, DataHolds, PTL

(* The callback never reads the buffer the engine writes: process_dma_in.  *)
THEOREM ReadersApart == Spec => []BuffersApart
<1>1. IInv /\ DataInv => BuffersApart
  <2> SUFFICES ASSUME IInv, Data PROVE BuffersApart
    <3>1. IInv /\ image.height < 0 => BuffersApart
      BY DEF IInv, ImageInv, HwInv, Quiet, Waiting, BuffersApart, FirstPhase
    <3> QED BY <3>1 DEF IInv, TypeOK, DataInv, Sound, BuffersApart
  <2>1. pc \in Last => engine = "idle"
    BY DEF IInv, HwInv, Quiet, Waiting, Last
  <2> QED BY <2>1 DEF Data, Coming, Toward, BuffersApart, Target, Last
<1> QED BY <1>1, DataHolds, PTL

(* The reply is the CRC of the whole image, or of nothing exactly when it  *)
(* was refused or its channels or links could not be had: the end of       *)
(* process_CRC32MSGSUBID.                                                  *)
THEOREM WholeReplies == Spec => []RepliesWhole
<1>1. DataInv => RepliesWhole
  BY DEF DataInv, Data, RepliesWhole, Sound
<1> QED BY <1>1, DataHolds, PTL

=============================================================================
