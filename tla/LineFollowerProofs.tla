------------------------- MODULE LineFollowerProofs -------------------------
(***************************************************************************)
(* Proofs about LineFollower, for frames of any size.                      *)
(***************************************************************************)
EXTENDS LineFollower, FiniteSetTheorems, FunctionTheorems,
        WellFoundedInduction, TLAPS

(***************************************************************************)
(* The 3x3 kernel: a window contains its centre and is symmetric.  The     *)
(* lemmas about the filters need nothing else of it.                       *)
(***************************************************************************)
LEMMA WindowFacts ==
    ASSUME NEW n \in Nat, NEW p \in Grid(n)
    PROVE  /\ p \in Window(Grid(n), p)
           /\ Window(Grid(n), p) \subseteq Grid(n)
           /\ \A q \in Grid(n) : q \in Window(Grid(n), p)
                                    <=> p \in Window(Grid(n), q)
<1> DEFINE Near(a, b) == /\ b[1] - 1 <= a[1] /\ a[1] <= b[1] + 1
                         /\ b[2] - 1 <= a[2] /\ a[2] <= b[2] + 1
<1>1. \A q \in Grid(n) : q[1] \in Int /\ q[2] \in Int /\ q = <<q[1], q[2]>>
    BY LineFollowerAssumption DEF Grid
<1>2. \A a, b \in Grid(n) : a \in Window(Grid(n), b) <=> Near(a, b)
    <2> SUFFICES ASSUME NEW a \in Grid(n), NEW b \in Grid(n)
                 PROVE  a \in Window(Grid(n), b) <=> Near(a, b)
        OBVIOUS
    <2>1. a[1] \in Int /\ a[2] \in Int /\ b[1] \in Int /\ b[2] \in Int
          /\ a = <<a[1], a[2]>>
        BY <1>1
    <2>2. <<a[1], a[2]>> \in ((b[1] - 1)..(b[1] + 1)) \X ((b[2] - 1)..(b[2] + 1))
            <=> Near(a, b)
        BY <2>1
    <2> QED
        BY <2>1, <2>2 DEF Window
<1>3. \A a, b \in Grid(n) : Near(a, b) => Near(b, a)
    BY <1>1
<1>4. Near(p, p)
    BY <1>1
<1> HIDE DEF Near
<1> QED
    BY <1>2, <1>3, <1>4 DEF Window

\* A pixel that closing sets is next to a pixel of the mask.
LEMMA CloseStaysNear ==
    ASSUME NEW n \in Nat, NEW mask, NEW p \in morph_close(Grid(n), mask)
    PROVE  Window(Grid(n), p) \cap mask # {}
  BY WindowFacts DEF morph_close

\* Closing removes nothing.
LEMMA CloseExtends ==
    ASSUME NEW n \in Nat, NEW mask \in SUBSET Grid(n)
    PROVE  mask \subseteq morph_close(Grid(n), mask)
<1> SUFFICES ASSUME NEW p \in mask, NEW q \in Window(Grid(n), p)
             PROVE  p \in Window(Grid(n), q)
    BY DEF morph_close
<1> QED
    BY WindowFacts

\* Closing keeps the order of masks,
LEMMA CloseMonotone ==
    ASSUME NEW n \in Nat, NEW a, NEW b, a \subseteq b
    PROVE  morph_close(Grid(n), a) \subseteq morph_close(Grid(n), b)
  BY DEF morph_close

\* and closing again adds nothing.
LEMMA CloseIdempotent ==
    ASSUME NEW n \in Nat, NEW mask
    PROVE  morph_close(Grid(n), morph_close(Grid(n), mask))
             \subseteq morph_close(Grid(n), mask)
<1> DEFINE C == morph_close(Grid(n), mask)
<1> SUFFICES ASSUME NEW p \in morph_close(Grid(n), C)
             PROVE  p \in C
    OBVIOUS
<1>1. p \in Grid(n) /\ Window(Grid(n), p) \subseteq Grid(n)
    BY WindowFacts DEF morph_close
<1>2. ASSUME NEW q \in Window(Grid(n), p)
      PROVE  Window(Grid(n), q) \cap mask # {}
    <2>1. PICK r \in Window(Grid(n), q) : r \in C
        BY DEF morph_close
    <2>2. q \in Window(Grid(n), r) /\ r \in Grid(n)
        BY <1>1, <2>1, WindowFacts
    <2> QED
        BY <2>1, <2>2 DEF morph_close
<1> QED
    BY <1>1, <1>2 DEF morph_close

\* Opening keeps every block that is white,
LEMMA OpenKeepsBlocks ==
    ASSUME NEW n \in Nat, NEW mask, NEW q \in Grid(n),
           Window(Grid(n), q) \subseteq mask
    PROVE  Window(Grid(n), q) \subseteq morph_open(Grid(n), mask)
  BY WindowFacts DEF morph_open

\* adds nothing,
LEMMA OpenShrinks ==
    ASSUME NEW n \in Nat, NEW mask
    PROVE  morph_open(Grid(n), mask) \subseteq mask
<1> SUFFICES ASSUME NEW p \in morph_open(Grid(n), mask)
             PROVE  p \in mask
    OBVIOUS
<1>1. PICK q \in Window(Grid(n), p) : Window(Grid(n), q) \subseteq mask
    BY DEF morph_open
<1>2. p \in Grid(n) /\ q \in Grid(n)
    BY <1>1, WindowFacts DEF morph_open
<1> QED
    BY <1>1, <1>2, WindowFacts

\* leaves nothing but white blocks,
LEMMA OpenIsBlocks ==
    ASSUME NEW n \in Nat, NEW mask, NEW p \in morph_open(Grid(n), mask)
    PROVE  \E q \in Window(Grid(n), p) :
                Window(Grid(n), q) \subseteq morph_open(Grid(n), mask)
<1>1. PICK q \in Window(Grid(n), p) : Window(Grid(n), q) \subseteq mask
    BY DEF morph_open
<1>2. p \in Grid(n) /\ q \in Grid(n)
    BY <1>1, WindowFacts DEF morph_open
<1> QED
    BY <1>1, <1>2, OpenKeepsBlocks

\* and keeps the order of masks.
LEMMA OpenMonotone ==
    ASSUME NEW n \in Nat, NEW a, NEW b, a \subseteq b
    PROVE  morph_open(Grid(n), a) \subseteq morph_open(Grid(n), b)
  BY DEF morph_open

\* The two filters of get_i_color.
filtered(f) ==
    morph_open(Grid(f.cols), morph_close(Grid(f.cols), color_mask(f)))

\* Filtering a filtered mask changes nothing.
LEMMA FilterTwice ==
    ASSUME NEW n \in Nat, NEW a \in SUBSET Grid(n), NEW mask,
           mask = morph_open(Grid(n), morph_close(Grid(n), a))
    PROVE  morph_open(Grid(n), morph_close(Grid(n), mask)) = mask
<1> DEFINE C == morph_close(Grid(n), a)
<1>1. morph_close(Grid(n), mask) \subseteq C
    <2>1. mask \subseteq C
        BY OpenShrinks
    <2> HIDE DEF C
    <2>2. morph_close(Grid(n), mask) \subseteq morph_close(Grid(n), C)
        BY <2>1, CloseMonotone
    <2> QED
        BY <2>2, CloseIdempotent DEF C
<1>2. morph_open(Grid(n), morph_close(Grid(n), mask)) \subseteq mask
    BY <1>1, OpenMonotone
<1>3. mask \subseteq morph_open(Grid(n), mask)
    <2>1. ASSUME NEW p \in mask PROVE p \in morph_open(Grid(n), mask)
        BY OpenIsBlocks DEF morph_open
    <2> QED
        BY <2>1
<1>4. mask \in SUBSET Grid(n)
    BY DEF morph_open
<1>5. morph_open(Grid(n), mask)
        \subseteq morph_open(Grid(n), morph_close(Grid(n), mask))
    BY <1>4, CloseExtends, OpenMonotone
<1> QED
    BY <1>2, <1>3, <1>5

-----------------------------------------------------------------------------
(***************************************************************************)
(* Counting white pixels.                                                  *)
(***************************************************************************)
Column(mask, x) == {p \in mask : p[2] = x}
Rows == 0..(SCAN_HEIGHT - 1)

\* A column has at most SCAN_HEIGHT white pixels, and as many only when it
\* is white from top to bottom.
LEMMA ColumnCount ==
    ASSUME NEW n \in Nat, NEW mask \in SUBSET Grid(n), NEW x \in 0..(n - 1)
    PROVE  /\ Cardinality(Column(mask, x)) \in 0..SCAN_HEIGHT
           /\ Cardinality(Column(mask, x)) >= SCAN_HEIGHT
                <=> \A y \in Rows : <<y, x>> \in mask
<1> DEFINE W == {<<y, x>> : y \in Rows}
           f == [y \in Rows |-> <<y, x>>]
<1>1. IsFiniteSet(Rows) /\ Cardinality(Rows) = SCAN_HEIGHT
    BY FS_Interval, LineFollowerAssumption DEF Rows
<1>2. f \in Bijection(Rows, W)
    <2>1. f \in [Rows -> W]
        OBVIOUS
    <2>2. \A a, b \in Rows : f[a] = f[b] => a = b
        OBVIOUS
    <2>3. \A w \in W : \E a \in Rows : f[a] = w
        OBVIOUS
    <2> QED
        BY <2>1, <2>2, <2>3, Fun_IsBij
<1>3. IsFiniteSet(W) /\ Cardinality(W) = SCAN_HEIGHT
    <2>1. ExistsBijection(Rows, W)
        BY <1>2 DEF ExistsBijection
    <2> QED
        BY <1>1, <2>1, FS_Bijection
<1>4. Column(mask, x) \in SUBSET W
    <2>1. ASSUME NEW p \in mask, p[2] = x PROVE p \in W
        <3>1. p[1] \in Rows /\ p = <<p[1], p[2]>>
            BY LineFollowerAssumption DEF Grid, Rows
        <3> QED
            BY <2>1, <3>1
    <2> QED
        BY <2>1 DEF Column
<1> HIDE DEF W, f
<1>5. /\ IsFiniteSet(Column(mask, x))
      /\ Cardinality(Column(mask, x)) <= SCAN_HEIGHT
      /\ Cardinality(Column(mask, x)) = SCAN_HEIGHT => Column(mask, x) = W
    BY <1>3, <1>4, FS_Subset
<1>6. Cardinality(Column(mask, x)) \in Nat
    BY <1>5, FS_CardinalityType
<1>7. Column(mask, x) = W => Cardinality(Column(mask, x)) = SCAN_HEIGHT
    BY <1>3
<1>8. Column(mask, x) = W <=> \A y \in Rows : <<y, x>> \in mask
    <2>1. ASSUME NEW y \in Rows, Column(mask, x) = W PROVE <<y, x>> \in mask
        BY <2>1 DEF W, Column
    <2>2. ASSUME \A y \in Rows : <<y, x>> \in mask
          PROVE  W \subseteq Column(mask, x)
        BY <2>2 DEF W, Column
    <2> QED
        BY <2>1, <2>2, <1>4
<1>9. SCAN_HEIGHT \in Nat
    BY LineFollowerAssumption
<1>10. Cardinality(Column(mask, x)) \in 0..SCAN_HEIGHT
    BY <1>5, <1>6, <1>9
<1>11. Cardinality(Column(mask, x)) >= SCAN_HEIGHT
        <=> Cardinality(Column(mask, x)) = SCAN_HEIGHT
    BY <1>5, <1>6, <1>9
<1> QED
    BY <1>5, <1>7, <1>8, <1>10, <1>11

\* A set of naturals has a smallest one.
LEMMA Smallest ==
    ASSUME NEW S \in SUBSET Nat, S # {}
    PROVE  \E m \in S : \A k \in S : m <= k
<1>1. PICK m \in S : \A k \in S : ~(<<k, m>> \in OpToRel(<, Nat))
    BY WFMin, NatLessThanWellFounded, Zenon
<1>2. ASSUME NEW k \in Nat, NEW l \in Nat, k < l
      PROVE  <<k, l>> \in OpToRel(<, Nat)
    BY <1>2, Zenon DEF OpToRel
<1>3. ASSUME NEW k \in S PROVE ~(k < m)
    <2>1. k \in Nat /\ m \in Nat
        OBVIOUS
    <2> QED
        BY <1>1, <1>2, <2>1, Zenon
<1> QED
    BY <1>3

\* cv::minMaxLoc finds the first column no other has more pixels than.
LEMMA MaxLoc ==
    ASSUME NEW n \in Nat \ {0}, NEW mask \in SUBSET Grid(n)
    PROVE  /\ max_loc(mask, n) \in 0..(n - 1)
           /\ \A y \in 0..(n - 1) :
                hist(mask, y) <= hist(mask, max_loc(mask, n))
           /\ \A y \in 0..(max_loc(mask, n) - 1) :
                hist(mask, y) < hist(mask, max_loc(mask, n))
<1> DEFINE H(x) == hist(mask, x)
           Best == {x \in 0..(n - 1) : \A y \in 0..(n - 1) : H(y) <= H(x)}
           Least == {255 * SCAN_HEIGHT - H(x) : x \in 0..(n - 1)}
<1>1. \A x \in 0..(n - 1) : H(x) \in Nat /\ 255 * SCAN_HEIGHT - H(x) \in Nat
    BY ColumnCount, LineFollowerAssumption DEF hist, Column
<1> HIDE DEF H
<1>2. Best # {}
    <2>1. Least \subseteq Nat /\ Least # {}
        BY <1>1
    <2>2. PICK m \in Least : \A k \in Least : m <= k
        BY <2>1, Smallest
    <2>3. PICK x \in 0..(n - 1) : m = 255 * SCAN_HEIGHT - H(x)
        BY <2>2
    <2>4. ASSUME NEW y \in 0..(n - 1) PROVE H(y) <= H(x)
        <3>1. 255 * SCAN_HEIGHT - H(x) <= 255 * SCAN_HEIGHT - H(y)
            BY <2>2, <2>3
        <3> QED
            BY <3>1, <1>1, LineFollowerAssumption
    <2> QED
        BY <2>4
<1>3. PICK x \in Best : \A y \in Best : x <= y
    <2>1. Best \subseteq Nat
        OBVIOUS
    <2> QED
        BY <1>2, <2>1, Smallest
<1>4. ASSUME NEW y \in 0..(x - 1) PROVE H(y) < H(x)
    <2>1. y \in 0..(n - 1) /\ y < x /\ y \notin Best
        BY <1>3
    <2>2. PICK z \in 0..(n - 1) : ~(H(z) <= H(y))
        BY <2>1
    <2> QED
        BY <1>1, <1>3, <2>1, <2>2
<1>5. x \in 0..(n - 1) /\ \A y \in 0..(n - 1) : H(y) <= H(x)
    BY <1>3
<1> QED
    BY <1>4, <1>5 DEF max_loc, H

-----------------------------------------------------------------------------
(***************************************************************************)
(* The machine: when it is idle, found and display are those of the last   *)
(* frame that was not empty.                                               *)
(***************************************************************************)
FrameInv ==
    /\ m_input \in Frames \cup {Empty}
    /\ Answered =>
        /\ found = located(filtered(m_input), m_input.cols)
        /\ display = diagnostic_display(m_input, found)

\* No step of LineFollower leaves the answer of another frame behind.
LEMMA AlwaysCurrent == Spec => []FrameInv
<1>1. Init => FrameInv
    BY DEF Init, FrameInv, Answered, empty, Empty
<1>2. FrameInv /\ [Next]_vars => FrameInv'
    <2> SUFFICES ASSUME FrameInv, [Next]_vars PROVE FrameInv'
        OBVIOUS
    <2>1. CASE run
        BY <2>1 DEF run, FrameInv, Answered
    <2>2. CASE update
        <3>1. CASE empty(m_input)
            BY <2>2, <3>1 DEF update, FrameInv, Answered, empty
        <3>2. CASE ~empty(m_input) /\ ~ScanFits(m_input)
            BY <2>2, <3>2 DEF update, FrameInv, Answered
        <3>3. CASE ~empty(m_input) /\ ScanFits(m_input)
            <4>1. /\ get_i_color(m_input) /\ UNCHANGED m_input
                  /\ display' = diagnostic_display(m_input, found')
                BY <2>2, <3>3 DEF update
            <4>2. found' = located(filtered(m_input), m_input.cols)
                BY <4>1 DEF get_i_color, filtered
            <4> QED
                BY <4>1, <4>2 DEF FrameInv
        <3> QED
            BY <3>1, <3>2, <3>3
    <2>3. CASE UNCHANGED vars
        BY <2>3 DEF vars, FrameInv, Answered
    <2> QED
        BY <2>1, <2>2, <2>3 DEF Next
<1> QED
    BY <1>1, <1>2, PTL DEF Spec

\* What an answered frame and its mask are.
LEMMA AnsweredFacts ==
    ASSUME FrameInv, Answered
    PROVE  /\ m_input.cols \in Nat \ {0}
           /\ found.mask = filtered(m_input)
           /\ found.mask \in SUBSET Grid(m_input.cols)
           /\ color_mask(m_input) \in SUBSET Grid(m_input.cols)
<1>1. m_input.cols \in Nat \ {0}
    BY LineFollowerAssumption DEF FrameInv, Answered, empty, Empty
<1>2. found.mask = filtered(m_input)
    BY DEF FrameInv, located
<1>3. filtered(m_input) \subseteq Grid(m_input.cols)
    BY DEF filtered, morph_open
<1>4. color_mask(m_input) \subseteq Grid(m_input.cols)
    BY DEF color_mask
<1> QED
    BY <1>1, <1>2, <1>3, <1>4

(***************************************************************************)
(* No pixel that opening should have removed is in the mask of get_i_color.*)
(***************************************************************************)
THEOREM SpecksAreRemoved == Spec => []NoSpecks
<1>1. FrameInv => NoSpecks
    BY AnsweredFacts, OpenIsBlocks DEF NoSpecks, filtered
<1> QED
    BY <1>1, AlwaysCurrent, PTL

(***************************************************************************)
(* A solid block of the line's colour is never lost by the filters.        *)
(***************************************************************************)
THEOREM LinesSurvive == Spec => []SolidBlocksSurvive
<1>1. ASSUME FrameInv, Answered, NEW q \in Grid(m_input.cols),
             Window(Grid(m_input.cols), q) \subseteq color_mask(m_input)
      PROVE  Window(Grid(m_input.cols), q) \subseteq found.mask
    <2>1. Window(Grid(m_input.cols), q)
            \subseteq morph_close(Grid(m_input.cols), color_mask(m_input))
        BY <1>1, AnsweredFacts, CloseExtends
    <2> QED
        BY <1>1, <2>1, AnsweredFacts, OpenKeepsBlocks DEF filtered
<1>2. FrameInv => SolidBlocksSurvive
    BY <1>1 DEF SolidBlocksSurvive
<1> QED
    BY <1>2, AlwaysCurrent, PTL

(***************************************************************************)
(* The filters put nothing where the line's colour is not near.            *)
(***************************************************************************)
THEOREM NoLineFromNothing == Spec => []NothingInvented
<1>1. ASSUME FrameInv, Answered, NEW p \in found.mask
      PROVE  Window(Grid(m_input.cols), p) \cap color_mask(m_input) # {}
    <2>1. p \in morph_close(Grid(m_input.cols), color_mask(m_input))
        BY <1>1, AnsweredFacts, OpenShrinks DEF filtered
    <2> QED
        BY <1>1, <2>1, AnsweredFacts, CloseStaysNear
<1>2. FrameInv => NothingInvented
    BY <1>1 DEF NothingInvented
<1> QED
    BY <1>2, AlwaysCurrent, PTL

(***************************************************************************)
(* Closing and opening once is enough.                                     *)
(***************************************************************************)
THEOREM OncePerFilter == Spec => []FilterIsStable
<1>1. FrameInv => FilterIsStable
    BY AnsweredFacts, FilterTwice DEF FilterIsStable, filtered
<1> QED
    BY <1>1, AlwaysCurrent, PTL

(***************************************************************************)
(* diagnostic_display draws a line just when there is a column that is     *)
(* white from top to bottom, and draws it at the leftmost one.             *)
(***************************************************************************)
THEOREM DrawnLinesAreWhole == Spec => []DrawnLineIsWhole
<1>1. ASSUME FrameInv, Answered
      PROVE  LET Whole(x) == \A y \in 0..(SCAN_HEIGHT - 1) :
                                <<y, x>> \in found.mask
             IN  /\ display.line <=> \E x \in 0..(m_input.cols - 1) : Whole(x)
                 /\ display.line => Whole(found.centerline_x)
                 /\ display.line =>
                        \A x \in 0..(found.centerline_x - 1) : ~Whole(x)
    <2> DEFINE n == m_input.cols
               mask == found.mask
               best == max_loc(mask, n)
               count(x) == Cardinality(Column(mask, x))
               White(x) == \A y \in Rows : <<y, x>> \in mask
    <2>1. n \in Nat \ {0} /\ mask \in SUBSET Grid(n)
        BY <1>1, AnsweredFacts
    <2>2. found.centerline_x = best /\ found.total_pixels = hist(mask, best) \div 255
        BY <1>1 DEF FrameInv, located
    <2>3. display.line <=> found.total_pixels >= SCAN_HEIGHT
        <3>1. display = diagnostic_display(m_input, found)
            BY <1>1 DEF FrameInv
        <3>2. display.line = detected(found)
            BY <3>1, Zenon DEF diagnostic_display
        <3>3. detected(found) = (found.total_pixels >= SCAN_HEIGHT)
            BY LineFollowerAssumption DEF detected
        <3> QED
            BY <3>2, <3>3
    <2>4. /\ best \in 0..(n - 1)
          /\ \A y \in 0..(n - 1) : hist(mask, y) <= hist(mask, best)
          /\ \A y \in 0..(best - 1) : hist(mask, y) < hist(mask, best)
        BY <2>1, MaxLoc
    <2>5. \A x \in 0..(n - 1) :
            /\ count(x) \in Nat /\ hist(mask, x) = 255 * count(x)
            /\ count(x) <= SCAN_HEIGHT
            /\ count(x) >= SCAN_HEIGHT <=> White(x)
        BY <2>1, ColumnCount, LineFollowerAssumption DEF hist, Column
    <2> HIDE DEF n, mask, best, count, White
    <2>6. found.total_pixels = count(best)
        BY <2>2, <2>4, <2>5
    <2>7. display.line <=> White(best)
        BY <2>3, <2>4, <2>5, <2>6
    <2>8. ASSUME NEW x \in 0..(n - 1), White(x) PROVE White(best)
        <3>1. count(x) <= count(best)
            BY <2>4, <2>5
        <3> QED
            BY <2>4, <2>5, <2>8, <3>1, LineFollowerAssumption
    <2>9. /\ display.line <=> \E x \in 0..(n - 1) : White(x)
          /\ display.line => White(found.centerline_x)
        BY <2>2, <2>4, <2>7, <2>8
    <2>10. ASSUME NEW x \in 0..(best - 1) PROVE ~White(x)
        <3>1. x \in 0..(n - 1)
            BY <2>1, <2>4
        <3>2. count(x) < count(best)
            BY <2>4, <2>5, <3>1
        <3> QED
            BY <2>4, <2>5, <3>1, <3>2, LineFollowerAssumption
    <2>11. \A x \in 0..(found.centerline_x - 1) : ~White(x)
        BY <2>2, <2>10
    <2> QED
        BY <2>9, <2>11 DEF n, mask, White, Rows
<1>2. FrameInv => DrawnLineIsWhole
    BY <1>1 DEF DrawnLineIsWhole
<1> QED
    BY <1>2, AlwaysCurrent, PTL
=============================================================================
