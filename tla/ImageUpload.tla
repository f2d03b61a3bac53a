----------------------------- MODULE ImageUpload -----------------------------
(***************************************************************************)
(* The image service of epd_ble_service.c: a central fills epd_buffer in   *)
(* chunks at byte_pos and pushes it to the panel.  The minute redraw draws *)
(* into the same buffer, and neither it nor byte_pos outlives deep sleep.  *)
(***************************************************************************)
EXTENDS Integers

CONSTANTS
  BufferSize,      \* epd_buffer_size, 5000
  TextSize,        \* resolution_w * resolution_h / 8 of the panel's model
  Byte, Zero, White,
  Image(_),        \* the byte the central wants at an offset
  Fills,           \* bytes command 0x00 clears with
  Positions,       \* offsets the central goes to
  ChunkSizes,
  Text,            \* what a redraw may draw: functions from its cells to bytes
  TiffPicture(_)   \* what the decoder makes of a buffer, as panel contents

Cells == 0..(BufferSize - 1)
Offsets == 0..BufferSize \cup Positions
ASSUME UploadAssumption ==
  /\ BufferSize \in Nat \ {0} /\ TextSize \in 0..BufferSize
  /\ {Zero, White} \cup Fills \subseteq Byte
  /\ Positions \subseteq Nat /\ ChunkSizes \subseteq Nat
  /\ Text \subseteq [0..(TextSize - 1) -> Byte]
  /\ TiffPicture([i \in Cells |-> White]) \in [Cells -> Byte]
  /\ \A offset \in Offsets, i \in Cells : Image(offset + i) \in Byte

VARIABLES
  epd_buffer,
  byte_pos,
  epd_update_state,   \* TRUE while the panel refreshes
  shown,              \* the buffer the last refresh was started with
  uploaded,           \* the central's offset: bytes below it count as sent
  safe_from           \* nothing but the central wrote those from here on

vars == <<epd_buffer, byte_pos, epd_update_state, shown, uploaded, safe_from>>

TypeOK ==
  /\ epd_buffer \in [Cells -> Byte]
  /\ shown \in [Cells -> Byte]
  /\ epd_update_state \in BOOLEAN
  /\ byte_pos \in Offsets /\ uploaded \in Offsets /\ safe_from \in Offsets
-----------------------------------------------------------------------------
(* The central's commands *)

\* All that was sent so far is gone.
Overwritten == safe_from' = IF safe_from < uploaded THEN uploaded ELSE safe_from

\* 0x00: the position stays.
Clear(fill) ==
  /\ epd_buffer' = [i \in Cells |-> fill]
  /\ Overwritten
  /\ UNCHANGED <<byte_pos, epd_update_state, shown, uploaded>>

\* EPD_Display
Refresh(contents) ==
  /\ shown' = contents
  /\ epd_update_state' = TRUE

\* 0x01
Push ==
  /\ Refresh(epd_buffer)
  /\ UNCHANGED <<epd_buffer, byte_pos, uploaded, safe_from>>

\* 0x02: the central goes on from there.
SetPosition(position) ==
  /\ byte_pos' = position
  /\ uploaded' = position
  /\ safe_from' = position
  /\ UNCHANGED <<epd_buffer, epd_update_state, shown>>

\* The test of 0x03.  Mutants: none; a chunk that fills the buffer is refused.
Anything(size) == size >= 0
LeavesRoom(size) == byte_pos + size < BufferSize
Accepted(size) == byte_pos + size < BufferSize + 1

\* 0x03: a chunk that does not fit is dropped; the central knows the size of
\* the buffer and does not count such a chunk.
WriteData(size) ==
  /\ \/ /\ Accepted(size)
        /\ epd_buffer' = [i \in Cells |->
                            IF i \in byte_pos..(byte_pos + size - 1)
                            THEN Image(uploaded + (i - byte_pos))
                            ELSE epd_buffer[i]]
        /\ byte_pos' = byte_pos + size
     \/ /\ ~Accepted(size)
        /\ UNCHANGED <<epd_buffer, byte_pos>>
  /\ uploaded' = IF uploaded + size =< BufferSize THEN uploaded + size ELSE uploaded
  /\ UNCHANGED <<epd_update_state, shown, safe_from>>

\* 0x04: the buffer is cleared to white before the decoder reads it.
Tiff ==
  /\ epd_buffer' = TiffPicture([i \in Cells |-> White])
  /\ Refresh(epd_buffer')
  /\ Overwritten
  /\ UNCHANGED <<byte_pos, uploaded>>
-----------------------------------------------------------------------------
(* The main loop *)

\* epd_display, for a new minute or commands 0xF1 and 0xF2: not in a refresh.
epd_display(text) ==
  /\ ~epd_update_state
  /\ epd_buffer' = [i \in Cells |-> IF i < TextSize THEN text[i] ELSE epd_buffer[i]]
  /\ Refresh(epd_buffer')
  /\ Overwritten
  /\ UNCHANGED <<byte_pos, uploaded>>

\* epd_state_handler finds the refresh done.
epd_state_handler ==
  /\ epd_update_state
  /\ epd_update_state' = FALSE
  /\ UNCHANGED <<epd_buffer, byte_pos, shown, uploaded, safe_from>>

\* Deep retention, which an ongoing refresh forbids: .bss starts from zero.
\* The central's later chunks land elsewhere until it sets a position again.
DeepRetention ==
  /\ ~epd_update_state
  /\ epd_buffer' = [i \in Cells |-> Zero]
  /\ byte_pos' = 0
  /\ safe_from' = BufferSize
  /\ UNCHANGED <<epd_update_state, shown, uploaded>>
-----------------------------------------------------------------------------
Init ==
  /\ epd_buffer = [i \in Cells |-> Zero]
  /\ byte_pos = 0
  /\ epd_update_state = FALSE
  /\ shown = [i \in Cells |-> White]
  /\ uploaded = 0
  /\ safe_from = 0

Next ==
  \/ \E fill \in Fills : Clear(fill)
  \/ \E position \in Positions : SetPosition(position)
  \/ \E size \in ChunkSizes : WriteData(size)
  \/ \E text \in Text : epd_display(text)
  \/ Push \/ Tiff \/ epd_state_handler \/ DeepRetention

Spec == Init /\ [][Next]_vars
-----------------------------------------------------------------------------
(* Properties *)

\* What the central sent since the device last wrote the buffer itself is in
\* place, to the last byte of a full buffer and wherever it resumed.  A push of
\* an upload no redraw and no sleep came into shows exactly the image.
UploadIntact ==
  \A i \in Cells : safe_from =< i /\ i < uploaded => epd_buffer[i] = Image(i)

\* What the comment of command 0x04 says, "decode & display a TIFF image"
\* (epd_ble_service.c:77): after an upload from the buffer's beginning that nothing
\* has overwritten, the panel shows the picture sent.
TiffShowsUpload ==
  [][safe_from = 0 /\ uploaded > 0 /\ Tiff => shown' = TiffPicture(epd_buffer)]_vars
=============================================================================
