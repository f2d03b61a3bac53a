-------------------------- MODULE ImageUploadProofs --------------------------
(* Proofs about ImageUpload: for every image, buffer and way of cutting the    *)
(* image into chunks, what the central sent is in place until the device       *)
(* itself writes the buffer.                                                   *)
EXTENDS ImageUpload, TLAPS

LEMMA Sizes ==
  /\ BufferSize \in Nat \ {0} /\ TextSize \in 0..BufferSize
  /\ 0 \in Offsets /\ BufferSize \in Offsets /\ Offsets \subseteq Nat
  /\ \A offset \in Offsets : offset =< BufferSize \/ offset \in Positions
  BY UploadAssumption, SMT DEF Offsets

\* The device's offset is the central's, or nothing the central sent counts.
InStep == byte_pos = uploaded \/ safe_from >= BufferSize

IInv == TypeOK /\ UploadIntact /\ InStep

LEMMA InitIInv == Init => IInv
<1> SUFFICES ASSUME Init PROVE IInv
  OBVIOUS
<1>1. TypeOK
  BY Sizes, UploadAssumption DEF Init, TypeOK
<1>2. UploadIntact
  BY Sizes DEF Init, UploadIntact, Cells
<1>3. InStep
  BY DEF Init, InStep
<1>4. QED
  BY <1>1, <1>2, <1>3 DEF IInv

\* After the device has written the buffer nothing that was sent counts.
LEMMA OverwrittenKeeps ==
  ASSUME IInv, Overwritten, UNCHANGED <<byte_pos, uploaded>>
  PROVE  safe_from' \in Offsets /\ UploadIntact' /\ InStep'
<1>1. safe_from' \in Offsets /\ safe_from' \in Nat /\ uploaded \in Nat
      /\ safe_from \in Nat
  BY Sizes DEF IInv, TypeOK, Overwritten
<1>2. safe_from' >= uploaded' /\ safe_from' >= safe_from
  BY <1>1 DEF Overwritten
<1>3. UploadIntact'
  BY <1>1, <1>2 DEF UploadIntact, Cells
<1>4. InStep'
  BY <1>1, <1>2, Sizes DEF IInv, InStep
<1>5. QED
  BY <1>1, <1>3, <1>4

\* A chunk lands where the central meant it to, or is dropped by both.
LEMMA WriteKeeps ==
  ASSUME IInv, NEW size \in ChunkSizes, WriteData(size)
  PROVE  IInv'
<1>1. /\ size \in Nat /\ byte_pos \in Nat /\ uploaded \in Nat /\ safe_from \in Nat
      /\ BufferSize \in Nat
  BY Sizes, UploadAssumption DEF IInv, TypeOK
<1>2. uploaded' \in Offsets
  BY <1>1, Sizes DEF WriteData, IInv, TypeOK, Offsets
<1>3. CASE Accepted(size)
  <2>1. /\ epd_buffer' = [i \in Cells |->
             IF i \in byte_pos..(byte_pos + size - 1)
             THEN Image(uploaded + (i - byte_pos)) ELSE epd_buffer[i]]
        /\ byte_pos' = byte_pos + size
    BY <1>3 DEF WriteData
  <2>2. byte_pos' \in Offsets
    BY <1>1, <1>3, <2>1 DEF Accepted, Offsets
  <2>3. epd_buffer' \in [Cells -> Byte]
    <3>1. ASSUME NEW i \in Cells, i \in byte_pos..(byte_pos + size - 1)
          PROVE  Image(uploaded + (i - byte_pos)) \in Byte
      <4>1. i - byte_pos \in Cells
        BY <1>1, <3>1 DEF Cells
      <4>2. QED
        BY <4>1, UploadAssumption DEF IInv, TypeOK
    <3>2. QED
      BY <2>1, <3>1 DEF IInv, TypeOK
  <2>4. CASE byte_pos = uploaded
    <3>1. uploaded' = byte_pos'
      BY <1>1, <1>3, <2>1, <2>4 DEF WriteData, Accepted
    <3>2. ASSUME NEW i \in Cells, safe_from' =< i, i < uploaded'
          PROVE  epd_buffer'[i] = Image(i)
      <4>1. safe_from' = safe_from /\ i \in Nat
        BY <1>1 DEF WriteData, Cells
      <4>2. CASE i < byte_pos
        BY <1>1, <2>1, <2>4, <3>2, <4>1, <4>2 DEF IInv, UploadIntact
      <4>3. CASE i >= byte_pos
        <5>1. i \in byte_pos..(byte_pos + size - 1)
          BY <1>1, <2>1, <3>1, <3>2, <4>1, <4>3
        <5>2. uploaded + (i - byte_pos) = i
          BY <1>1, <2>4, <4>1
        <5>3. QED
          BY <2>1, <5>1, <5>2
      <4>4. QED
        BY <1>1, <4>1, <4>2, <4>3
    <3>3. QED
      BY <1>2, <2>2, <2>3, <3>1, <3>2
      DEF WriteData, IInv, TypeOK, UploadIntact, InStep
  <2>5. CASE safe_from >= BufferSize
    BY <1>1, <1>2, <2>2, <2>3, <2>5
    DEF WriteData, IInv, TypeOK, UploadIntact, InStep, Cells
  <2>6. QED
    BY <2>4, <2>5 DEF IInv, InStep
<1>4. CASE ~Accepted(size)
  <2>1. UNCHANGED <<epd_buffer, byte_pos, safe_from, shown, epd_update_state>>
    BY <1>4 DEF WriteData
  <2>2. CASE byte_pos = uploaded
    <3>1. uploaded' = uploaded
      BY <1>1, <1>4, <2>2 DEF WriteData, Accepted
    <3>2. QED
      BY <2>1, <3>1 DEF IInv, TypeOK, UploadIntact, InStep
  <2>3. CASE safe_from >= BufferSize
    BY <1>1, <1>2, <2>1, <2>3 DEF IInv, TypeOK, UploadIntact, InStep, Cells
  <2>4. QED
    BY <2>2, <2>3 DEF IInv, InStep
<1>5. QED
  BY <1>3, <1>4

LEMMA NextIInv == IInv /\ [Next]_vars => IInv'
<1> SUFFICES ASSUME IInv, [Next]_vars PROVE IInv'
  OBVIOUS
<1>1. ASSUME NEW fill \in Fills, Clear(fill) PROVE IInv'
  BY <1>1, OverwrittenKeeps, UploadAssumption DEF Clear, IInv, TypeOK
<1>2. ASSUME NEW position \in Positions, SetPosition(position) PROVE IInv'
  <2>1. position \in Offsets /\ position \in Nat
    BY UploadAssumption DEF Offsets
  <2>2. QED
    BY <1>2, <2>1 DEF SetPosition, IInv, TypeOK, UploadIntact, InStep, Cells
<1>3. ASSUME NEW size \in ChunkSizes, WriteData(size) PROVE IInv'
  BY <1>3, WriteKeeps
<1>4. ASSUME NEW text \in Text, epd_display(text) PROVE IInv'
  <2>1. epd_buffer' \in [Cells -> Byte]
    <3>1. ASSUME NEW i \in Cells, i < TextSize PROVE text[i] \in Byte
      <4>1. i \in 0..(TextSize - 1)
        BY <3>1, Sizes DEF Cells
      <4>2. QED
        BY <4>1, UploadAssumption
    <3>2. QED
      BY <1>4, <3>1 DEF epd_display, IInv, TypeOK
  <2>2. QED
    BY <1>4, <2>1, OverwrittenKeeps DEF epd_display, Refresh, IInv, TypeOK
<1>5. CASE Push
  BY <1>5 DEF Push, Refresh, IInv, TypeOK, UploadIntact, InStep
<1>6. CASE Tiff
  BY <1>6, OverwrittenKeeps, UploadAssumption DEF Tiff, Refresh, IInv, TypeOK
<1>7. CASE epd_state_handler
  BY <1>7 DEF epd_state_handler, IInv, TypeOK, UploadIntact, InStep
<1>8. CASE DeepRetention
  BY <1>8, Sizes, UploadAssumption
  DEF DeepRetention, IInv, TypeOK, UploadIntact, InStep, Cells
<1>9. CASE UNCHANGED vars
  BY <1>9 DEF vars, IInv, TypeOK, UploadIntact, InStep
<1>10. QED
  BY <1>1, <1>2, <1>3, <1>4, <1>5, <1>6, <1>7, <1>8, <1>9 DEF Next

\* Buffer, panel and both offsets keep their types: no chunk, position or redraw
\* moves the upload out of the buffer or the positions the central sets.
THEOREM UploadTypeCorrect == Spec => []TypeOK
<1>1. IInv => TypeOK
  BY DEF IInv
<1>2. QED
  BY InitIInv, NextIInv, <1>1, PTL DEF Spec

\* Every byte the central sent and the device did not overwrite is in place, for
\* every image, every buffer size and every cutting into chunks.
THEOREM UploadStaysIntact == Spec => []UploadIntact
<1>1. IInv => UploadIntact
  BY DEF IInv
<1>2. QED
  BY InitIInv, NextIInv, <1>1, PTL DEF Spec
=============================================================================
