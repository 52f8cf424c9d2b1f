--------------------------- MODULE MCLineFollower ---------------------------
(***************************************************************************)
(* Instances of LineFollower for TLC: every mask of a small scan region,   *)
(* in frames that are as high as the scan region needs, and frames that    *)
(* are empty or too low.                                                   *)
(***************************************************************************)
EXTENDS LineFollower

CONSTANT Widths     \* of the frames

yellow == <<30, 200, 200>>
blue   == <<110, 200, 200>>
dark   == <<30, 200, 40>>

\* The thresholds of the code.
MCLow  == <<0, 80, 80>>
MCHigh == <<80, 255, 255>>

MCPos(rows, cols) == (0..(rows - 1)) \X (0..(cols - 1))

\* Outside of its yellow pixels, and above the scan region, a frame is blue
\* and dark in turn.
MCFrame(rows, cols, mask) ==
    [rows |-> rows, cols |-> cols,
     px |-> [p \in MCPos(rows, cols) |->
                IF <<p[1] - SCAN_Y, p[2]>> \in mask THEN yellow
                ELSE IF (p[1] + p[2]) % 2 = 0 THEN blue ELSE dark]]

\* A wider frame with a block of yellow pixels between the corners a and b,
\* one of them missing or one more elsewhere.
MCBlocks(w) ==
    LET Block(a, b) == (a[1]..b[1]) \X (a[2]..b[2])
        Blocks == {Block(a, b) : a, b \in MCPos(SCAN_HEIGHT, w)}
    IN  {MCFrame(SCAN_Y + SCAN_HEIGHT, w,
                 IF p \in block THEN block \ {p} ELSE block \cup {p}) :
            block \in Blocks, p \in MCPos(SCAN_HEIGHT, w)}

MCFrames ==
    UNION {{MCFrame(SCAN_Y + SCAN_HEIGHT, w, mask) :
              mask \in SUBSET MCPos(SCAN_HEIGHT, w)} : w \in Widths}
    \cup MCBlocks(5)
    \cup {MCFrame(SCAN_Y + SCAN_HEIGHT - 1, 2, {}), Empty}
=============================================================================
