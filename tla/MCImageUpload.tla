---------------------------- MODULE MCImageUpload ----------------------------
(* ImageUpload with a buffer of four bytes, of which a redraw draws three. *)
EXTENDS ImageUpload

SomeBytes == {"zero", "white", "odd", "even", "text"}
Picture(i) == IF i % 2 = 0 THEN "even" ELSE "odd"
ATime == {[i \in 0..(TextSize - 1) |-> "text"]}

\* The start, the middle, the end, and beyond.
SomePositions == {0, 2, 4, 6}
SomeSizes == 0..3

\* White bytes decode to a white picture, others to some other picture.
Decoded(buffer) ==
  IF \A i \in DOMAIN buffer : buffer[i] = White THEN buffer
  ELSE [i \in DOMAIN buffer |-> "text"]
=============================================================================
