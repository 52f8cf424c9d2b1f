---------------------------- MODULE LineFollower ----------------------------
(***************************************************************************)
(* donkeycar::vision::LineFollower (src/parts/line-follower.cpp): where in *)
(* a frame is the line?                                                    *)
(*                                                                         *)
(* A frame is a record of its size and its pixels, px[<<y, x>>], each      *)
(* named by its HSV value (cvtColor maps pixel by pixel); 0 rows is the    *)
(* empty cv::Mat.  A mask is the set of its white positions.  OpenCV's     *)
(* functions are modelled by what this code gets from them with its        *)
(* arguments: a 3x3 rectangle and the default border, which makes          *)
(* morphologyEx ignore positions outside of the mask.                      *)
(***************************************************************************)
EXTENDS Integers, FiniteSets

CONSTANTS SCAN_Y,                   \* first row of the scan region
          SCAN_HEIGHT,              \* and its height
          COLOR_THRESHOLD_LOW,      \* an HSV triple
          COLOR_THRESHOLD_HIGH,
          MIN_DETECTION_THRESHOLD,  \* pixels to consider a line detected
          Frames,                   \* the frames that may come in
          MaxRuns                   \* bound: how often run() is called

(***************************************************************************)
(* In the code the threshold, 20, is the height of the scan region.        *)
(***************************************************************************)
ASSUME LineFollowerAssumption ==
    /\ SCAN_Y \in Nat
    /\ SCAN_HEIGHT \in Nat \ {0}
    /\ MIN_DETECTION_THRESHOLD = SCAN_HEIGHT
    /\ \A f \in Frames : f.rows \in Nat /\ f.cols \in Nat
    /\ MaxRuns \in Nat

VARIABLES m_input,   \* the frame of m_input
          found,     \* what the last get_i_color returned
          display,   \* what diagnostic_display drew last
          pc,        \* "idle", "update", or "exception": cv::Exception
          runs

vars == <<m_input, found, display, pc, runs>>

Empty == [rows |-> 0, cols |-> 0, px |-> <<>>]
empty(f) == f.rows = 0 \/ f.cols = 0

-----------------------------------------------------------------------------
(***************************************************************************)
(* The mask.                                                               *)
(***************************************************************************)

\* Does the cv::Rect of the scan line lie in the frame?
ScanFits(f) == SCAN_Y + SCAN_HEIGHT <= f.rows

Grid(cols) == (0..(SCAN_HEIGHT - 1)) \X (0..(cols - 1))

inRange(hsv) ==
    \A c \in 1..3 : /\ COLOR_THRESHOLD_LOW[c] <= hsv[c]
                    /\ hsv[c] <= COLOR_THRESHOLD_HIGH[c]

\* The scan line of f, thresholded.
color_mask(f) ==
    {p \in Grid(f.cols) : inRange(f.px[<<p[1] + SCAN_Y, p[2]>>])}

\* The part of a 3x3 kernel at p that lies in the grid G.
Window(G, p) ==
    (((p[1] - 1)..(p[1] + 1)) \X ((p[2] - 1)..(p[2] + 1))) \cap G

erode(G, mask)  == {p \in G : Window(G, p) \subseteq mask}
dilate(G, mask) == {p \in G : Window(G, p) \cap mask # {}}

\* Mutant: dilate twice.
morph_close_wide(G, mask) == dilate(G, dilate(G, mask))

\* "Close small gaps": dilate, then erode.
morph_close(G, mask) ==
    {p \in G : \A q \in Window(G, p) : Window(G, q) \cap mask # {}}

\* Mutants: the filter is forgotten, or one that erodes or dilates only.
morph_open_none(G, mask)   == mask
morph_open_erode(G, mask)  == erode(G, mask)
morph_open_dilate(G, mask) == dilate(G, mask)

\* "Remove small noise": erode, then dilate.
morph_open(G, mask) ==
    {p \in G : \E q \in Window(G, p) : Window(G, q) \subseteq mask}

-----------------------------------------------------------------------------
(***************************************************************************)
(* The column with most white pixels.                                      *)
(***************************************************************************)

\* cv::reduce with REDUCE_SUM: white is 255.
hist(mask, x) == 255 * Cardinality({p \in mask : p[2] = x})

\* cv::minMaxLoc takes the first maximum.
max_loc(mask, cols) ==
    CHOOSE x \in 0..(cols - 1) :
        /\ \A y \in 0..(cols - 1) : hist(mask, y) <= hist(mask, x)
        /\ \A y \in 0..(x - 1) : hist(mask, y) < hist(mask, x)

\* The result for the filtered mask.
located(mask, cols) ==
    LET x == max_loc(mask, cols) IN
    [centerline_x |-> x,
     total_pixels |-> hist(mask, x) \div 255,
     mask         |-> mask]

\* Mutant: half of the pixels will do.
detected_half(r) == 2 * r.total_pixels >= MIN_DETECTION_THRESHOLD

\* Is the centreline drawn?
detected(r) == r.total_pixels >= MIN_DETECTION_THRESHOLD

\* What diagnostic_display shows: whether it draws the line, and the error,
\* which it prints in any case.
diagnostic_display(f, r) ==
    [line  |-> detected(r),
     error |-> r.centerline_x - (f.cols \div 2)]

-----------------------------------------------------------------------------
\* The colour mask is closed and opened; then its maximum is located.
get_i_color(f) ==
    LET G == Grid(f.cols) IN
    \E color  \in {color_mask(f)} :
    \E closed \in {morph_close(G, color)} :
    \E mask   \in {morph_open(G, closed)} :
        found' = located(mask, f.cols)

None == [none |-> TRUE]

\* The constructor makes an empty Image the input.
Init ==
    /\ m_input = Empty
    /\ found = None
    /\ display = None
    /\ pc = "idle"
    /\ runs = 0

\* run() of an unthreaded LineFollower: it sets the input, and
run ==
    /\ pc = "idle"
    /\ runs < MaxRuns
    /\ runs' = runs + 1
    /\ \E f \in Frames : m_input' = f
    /\ pc' = "update"
    /\ UNCHANGED <<found, display>>

\* calls update(), which skips empty frames.  A frame lower than the scan
\* region makes the cv::Mat constructor throw, and nobody catches that.
update ==
    /\ pc = "update"
    /\ \/ /\ empty(m_input)
          /\ pc' = "idle"
          /\ UNCHANGED <<found, display>>
       \/ /\ ~empty(m_input)
          /\ ~ScanFits(m_input)
          /\ pc' = "exception"
          /\ UNCHANGED <<found, display>>
       \/ /\ ~empty(m_input)
          /\ ScanFits(m_input)
          /\ get_i_color(m_input)
          /\ display' = diagnostic_display(m_input, found')
          /\ pc' = "idle"
    /\ UNCHANGED <<m_input, runs>>

Next == run \/ update

Spec == Init /\ [][Next]_vars

-----------------------------------------------------------------------------
(***************************************************************************)
(* Properties.                                                             *)
(***************************************************************************)

\* found is the answer for m_input.
Answered == pc = "idle" /\ ~empty(m_input)

(***************************************************************************)
(* No speck counts: every white pixel of the mask that get_i_color returns *)
(* lies in a 3x3 block (less at the border) that is white, whatever the    *)
(* frame looks like.                                                       *)
(***************************************************************************)
NoSpecks ==
    Answered =>
        LET G == Grid(m_input.cols) IN
        \A p \in found.mask :
            \E q \in Window(G, p) : Window(G, q) \subseteq found.mask

(***************************************************************************)
(* No part of a solid line is lost: a 3x3 block of pixels of the wanted    *)
(* colour is in the mask, whatever surrounds it.                           *)
(***************************************************************************)
SolidBlocksSurvive ==
    Answered =>
        LET G == Grid(m_input.cols) IN
        \A q \in G : Window(G, q) \subseteq color_mask(m_input)
                     => Window(G, q) \subseteq found.mask

(***************************************************************************)
(* The mask stays near the colour: each of its pixels is, or is next to, a *)
(* pixel of the wanted colour.                                             *)
(***************************************************************************)
NothingInvented ==
    Answered =>
        LET G == Grid(m_input.cols) IN
        \A p \in found.mask : Window(G, p) \cap color_mask(m_input) # {}

(***************************************************************************)
(* Both filters have had their effect: filtering the mask again does not   *)
(* change it, so that neither gaps nor noise of the kernel's size are left.*)
(***************************************************************************)
FilterIsStable ==
    Answered =>
        LET G == Grid(m_input.cols) IN
        \A closed \in {morph_close(G, found.mask)} :
            morph_open(G, closed) = found.mask

(***************************************************************************)
(* A line is drawn just when the mask has a column that is white from top  *)
(* to bottom (the threshold is the height of the scan region), and then    *)
(* the centreline is the leftmost such column: the edge of a wide line, not*)
(* its centre.                                                             *)
(***************************************************************************)
DrawnLineIsWhole ==
    Answered =>
        LET Whole(x) == \A y \in 0..(SCAN_HEIGHT - 1) : <<y, x>> \in found.mask
        IN  /\ display.line <=> \E x \in 0..(m_input.cols - 1) : Whole(x)
            /\ display.line => Whole(found.centerline_x)
            /\ display.line => \A x \in 0..(found.centerline_x - 1) : ~Whole(x)
=============================================================================
