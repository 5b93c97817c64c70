----------------------------- MODULE ImageScale -----------------------------
(***************************************************************************)
(* How a picture is made smaller or larger (src/src/imgscale.c): every     *)
(* pixel of the result is the mean of what it covers of the picture, by    *)
(* weights in fixed point that are computed once for the columns and once  *)
(* for the rows.  The three colours are treated alike; one is modelled.    *)
(***************************************************************************)
EXTENDS Integers, Sequences, SequencesExt, FiniteSetsExt

CONSTANTS
    Jobs,       \* [pixels: rows of brightness, width, height, newWidth, newHeight]
    One,        \* 0x1000: the weight 1
    White       \* 255

VARIABLES
    pc,
    job,
    row, col,   \* where the loops are in the weights of rows and columns
    x, y,       \* and in the smaller of the two pictures
    line, below,    \* dwPtTmp, or pdwCurrLn and pdwNextLn
    out         \* the lines of the result

scaleVars == <<pc, job, row, col, x, y, line, below, out>>

Zeros(n) == [i \in 1..n |-> 0]

\* ScaleBitmap: it is refused to make one side longer and the other shorter.
Init ==
    /\ job \in Jobs
    /\ pc = IF job.width > job.newWidth /\ job.height < job.newHeight THEN "refused"
            ELSE IF job.height > job.newHeight /\ job.width < job.newWidth THEN "refused"
            ELSE IF job.width >= job.newWidth /\ job.height >= job.newHeight THEN "shrink"
            ELSE "enlarge"
    /\ row = 1 /\ col = 1 /\ x = 0 /\ y = 0 /\ out = << >>
    /\ line = IF pc = "shrink" THEN Zeros(job.newWidth) ELSE << >>
    /\ below = line

\* CreateCoeffInt: the weight for the pixel it is in, and that for the next one; -1
\* says that the next one begins.
Crosses_Mutant(sum, length) == sum >= length
Crosses(sum, length) == sum > length
CreateCoeffInt(length, newLength, shrink) ==
    LET denom == IF shrink THEN length ELSE newLength
        sum(i) == ((i - 1) * newLength) % length
        sum2(i) == sum(i) + newLength
    IN [i \in 1..length |->
          IF Crosses(sum2(i), length)
          THEN << ((length - sum(i)) * One) \div denom, ((sum2(i) - length) * One) \div denom >>
          ELSE << IF shrink THEN (newLength * One) \div length ELSE One,
                  IF sum2(i) = length THEN -1 ELSE 0 >>]

Smaller == pc = "shrink"
RowCoeff == IF Smaller THEN CreateCoeffInt(job.width, job.newWidth, TRUE)
            ELSE CreateCoeffInt(job.newWidth, job.width, FALSE)
ColCoeff == IF Smaller THEN CreateCoeffInt(job.height, job.newHeight, TRUE)
            ELSE CreateCoeffInt(job.newHeight, job.height, FALSE)
Pixel(r, c) == job.pixels[r][c]
NextIf(crosses, n) == IF crosses # 0 THEN n + 1 ELSE n
\* The brightness is the fourth byte of the sum.
Brightness(sum) == sum \div (One * One)

------------------------------------------------------------------------------
\* ShrinkData: a pixel of the picture is added to at most four of the result.
Added(sums, weights, amount) ==
    [i \in DOMAIN sums |->
        sums[i] + (IF i = x + 1 THEN weights[1] * amount
                   ELSE IF i = x + 2 /\ weights[2] > 0 THEN weights[2] * amount ELSE 0)]
ShrinkPixel ==
    /\ pc = "shrink" /\ y < job.newHeight /\ x < job.newWidth
    /\ LET weights == RowCoeff[col]
           down == ColCoeff[row]
           p == Pixel(row, col)
       IN /\ line' = Added(line, weights, down[1] * p)
          /\ below' = IF down[2] > 0 THEN Added(below, weights, down[2] * p) ELSE below
          /\ x' = NextIf(weights[2], x)
    /\ col' = col + 1
    /\ UNCHANGED <<pc, job, row, y, out>>

LineDone(sums) == [i \in DOMAIN sums |-> Brightness(sums[i])]
ShrinkLine ==
    /\ pc = "shrink" /\ y < job.newHeight /\ x = job.newWidth
    /\ IF ColCoeff[row][2] # 0
       THEN /\ out' = Append(out, LineDone(line)) /\ y' = y + 1
            /\ line' = below /\ below' = Zeros(job.newWidth)
       ELSE UNCHANGED <<out, y, line, below>>
    /\ row' = row + 1 /\ col' = 1 /\ x' = 0
    /\ UNCHANGED <<pc, job>>

\* EnlargeData: a pixel of the result is made of at most four of the picture.
Reads(weights, down) ==
    {<< 1, 1 >>} \cup (IF weights[2] > 0 THEN {<< 1, 2 >>} ELSE {})
    \cup (IF down[2] > 0 THEN {<< 2, 1 >>} ELSE {})
    \cup (IF weights[2] > 0 /\ down[2] > 0 THEN {<< 2, 2 >>} ELSE {})
EnlargePixel ==
    /\ pc = "enlarge" /\ y < job.height /\ x < job.width
    /\ LET weights == RowCoeff[col]
           down == ColCoeff[row]
           sum == MapThenSumSet(LAMBDA r : down[r[1]] * weights[r[2]] * Pixel(y + r[1], x + r[2]),
                                Reads(weights, down))
       IN line' = Append(line, Brightness(sum)) /\ x' = NextIf(weights[2], x)
    /\ col' = col + 1
    /\ UNCHANGED <<pc, job, row, y, below, out>>

EnlargeLine ==
    /\ pc = "enlarge" /\ y < job.height /\ x = job.width
    /\ out' = Append(out, line) /\ line' = << >>
    /\ y' = NextIf(ColCoeff[row][2], y)
    /\ row' = row + 1 /\ col' = 1 /\ x' = 0
    /\ UNCHANGED <<pc, job, below>>

Ready ==
    /\ \/ pc = "shrink" /\ y = job.newHeight
       \/ pc = "enlarge" /\ y = job.height
    /\ pc' = "ready" /\ UNCHANGED <<job, row, col, x, y, line, below, out>>

Next == ShrinkPixel \/ ShrinkLine \/ EnlargePixel \/ EnlargeLine \/ Ready

Spec == Init /\ [][Next]_scaleVars

------------------------------------------------------------------------------
TypeOK ==
    /\ pc \in {"shrink", "enlarge", "ready", "refused"} /\ job \in Jobs
    /\ \A i \in DOMAIN out : \A j \in DOMAIN out[i] : out[i][j] \in 0..White

(* The loops end by what they count in one picture while they read the other *)
(* and the weights: they read nothing outside of them, and write no weight   *)
(* behind the line (ShrinkData, EnlargeData).                                *)
StaysInside ==
    /\ pc = "shrink" /\ y < job.newHeight =>
          /\ row <= job.height
          /\ x < job.newWidth => col <= job.width /\ (RowCoeff[col][2] > 0 => x + 2 <= job.newWidth)
    /\ pc = "enlarge" /\ y < job.height =>
          /\ row <= job.newHeight /\ (ColCoeff[row][2] > 0 => y + 2 <= job.height)
          /\ x < job.width => col <= job.newWidth /\ (RowCoeff[col][2] > 0 => x + 2 <= job.width)

(* The result has the size that was asked for, and each of its pixels is the *)
(* mean of what it covers, darkened by no more than the rounding of the      *)
(* weights and of the sum (ScaleBitmap).                                     *)
Overlap(i, length, j, newLength) ==
    Max({0, Min({(i + 1) * newLength, (j + 1) * length}) - Max({i * newLength, j * length})})
Covered(r, c) ==
    MapThenSumSet(LAMBDA q : Overlap(q[1] - 1, job.height, r - 1, job.newHeight)
                             * Overlap(q[2] - 1, job.width, c - 1, job.newWidth) * Pixel(q[1], q[2]),
                  (1..job.height) \X (1..job.width))
Rounding(length, newLength) == (length \div newLength) + 2
Loss == (White * (Rounding(job.height, job.newHeight) + Rounding(job.width, job.newWidth))) \div One + 2
MeanOfCovered ==
    pc = "ready" =>
       /\ Len(out) = job.newHeight
       /\ \A r \in 1..job.newHeight :
             /\ Len(out[r]) = job.newWidth
             /\ \A c \in 1..job.newWidth :
                   /\ out[r][c] * job.width * job.height <= Covered(r, c)
                   /\ Covered(r, c) < (out[r][c] + Loss) * job.width * job.height

PictureScaled == StaysInside /\ MeanOfCovered
=============================================================================
