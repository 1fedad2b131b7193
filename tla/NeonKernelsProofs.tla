-------------------------- MODULE NeonKernelsProofs --------------------------
(***************************************************************************)
(* For registers and frames of any size, channels and depth: no loop but   *)
(* wst leaves its frames if there are as many pixels as lanes, and the     *)
(* calls that work combine the bytes that belong together.                 *)
(***************************************************************************)
EXTENDS NeonKernels, TLAPS

Loops ==
    {"thresh", "thresh_bin", "cmp3_add", "wst", "wstb", "gray", "or", "or_3c", "add", "add_3c",
     "add_3c2", "subtract"}

-----------------------------------------------------------------------------
(* Arithmetic.                                                             *)

\* Division.
LEMMA DivBounds ==
    ASSUME NEW n \in Nat, NEW d \in Nat \ {0}
    PROVE  /\ n \div d \in Nat /\ (n \div d) * d <= n /\ n < (n \div d) * d + d
           /\ n >= d => n \div d >= 1
           /\ n \div d <= n
OBVIOUS

\* A loop that goes on reading at most as much per lane as before stays below
\* the same end.
LEMMA PassFits ==
    ASSUME NEW o \in Nat, NEW q \in Nat, NEW n \in Nat, n <= q, NEW s \in {0, 1, 3}, NEW t \in 0 .. s,
           NEW e \in Nat, o + q * s <= e
    PROVE  (o + n * s) + (q - n) * t <= e
<1>1. CASE s = 0  BY <1>1
<1>2. CASE s = 1  BY <1>2
<1>3. CASE s = 3  BY <1>3
<1> QED  BY <1>1, <1>2, <1>3

\* One pass of c.
LEMMA PassCount ==
    ASSUME NEW c \in Nat \ {0}, NEW n \in Nat
    PROVE  (c - 1) * n = c * n - n /\ n <= c * n /\ c * n \in Nat
OBVIOUS

\* Lanes of n pixels with c lanes each, s bytes to a lane.
LEMMA ScaleFits ==
    ASSUME NEW q \in Nat, NEW n \in Nat, NEW c \in Nat, NEW s \in {0, 1, 3}, q <= n * c,
           NEW e \in Nat, e >= c * s
    PROVE  q * s \in Nat /\ q * s <= e * n
<1>1. n * c \in Nat /\ c * s \in Nat /\ (c * s) * n = (n * c) * s
  <2>1. CASE s = 0  BY <2>1
  <2>2. CASE s = 1  BY <2>2
  <2>3. CASE s = 3  BY <2>3
  <2> QED  BY <2>1, <2>2, <2>3
<1>2. q * s \in Nat /\ q * s <= (n * c) * s
  <2>1. CASE s = 0  BY <1>1, <2>1
  <2>2. CASE s = 1  BY <1>1, <2>2
  <2>3. CASE s = 3  BY <1>1, <2>3
  <2> QED  BY <2>1, <2>2, <2>3
<1>3. (c * s) * n <= e * n
  <2> DEFINE f == c * s
  <2>1. f \in Nat /\ f <= e  BY <1>1
  <2> HIDE DEF f
  <2>2. f * n <= e * n  BY <2>1
  <2> QED  BY <2>2 DEF f
<1>4. e * n \in Nat /\ (n * c) * s \in Nat  BY <1>1
<1> QED  BY <1>1, <1>2, <1>3, <1>4

\* Byte j of the n lanes of a result with d bytes each is made from the same
\* lane of a source with s bytes each.
LEMMA LaneOf ==
    ASSUME NEW n \in Nat, NEW s \in {1, 3}, NEW d \in {1, 3}, NEW j \in 0 .. n * d - 1
    PROVE  (j * s) \div d \in 0 .. n * s - 1
OBVIOUS

\* The lane of byte D * d + j, counted from the start of the frame.
LEMMA DivShift ==
    ASSUME NEW m \in Nat, NEW j \in Nat, NEW s \in {1, 3}, NEW d \in {1, 3}
    PROVE  m * s + ((j * s) \div d) = ((m * d + j) * s) \div d
<1>1. CASE d = 1 /\ s = 1  BY <1>1
<1>2. CASE d = 1 /\ s = 3  BY <1>2
<1>3. CASE d = 3 /\ s = 1  BY <1>3
<1>4. CASE d = 3 /\ s = 3  BY <1>4
<1> QED  BY <1>1, <1>2, <1>3, <1>4

\* A pixel of c lanes.
LEMMA Cancel ==
    ASSUME NEW k \in Nat, NEW c \in Nat \ {0}
    PROVE  (k * c) \div c = k
<1> DEFINE q == (k * c) \div c
<1>1. k * c \in Nat  OBVIOUS
<1>2. q \in Nat /\ q * c <= k * c /\ k * c < q * c + c  BY <1>1, DivBounds
<1> HIDE DEF q
<1>3. q <= k
  <2>1. q >= k + 1 => q * c >= k * c + c  BY <1>2
  <2> QED  BY <1>1, <1>2, <2>1
<1>4. k <= q
  <2>1. k >= q + 1 => k * c >= q * c + c  BY <1>2
  <2>2. q * c \in Nat  BY <1>2
  <2> QED  BY <1>1, <1>2, <2>1, <2>2
<1> QED  BY <1>2, <1>3, <1>4 DEF q

\* A pixel of c lanes, one byte to a lane unless c is one.
LEMMA DivScale ==
    ASSUME NEW k \in Nat, NEW s \in {1, 3}, NEW d \in {1, 3}, NEW c \in Nat \ {0},
           c = 1 \/ (s = 1 /\ d = 1)
    PROVE  (k * (c * s)) \div (c * d) = (k * s) \div d
<1>1. CASE c = 1  BY <1>1
<1>2. CASE s = 1 /\ d = 1
  <2>1. c * s = c /\ c * d = c /\ k * s = k /\ k \div 1 = k  BY <1>2
  <2>2. (k * c) \div c = k  BY Cancel
  <2> QED  BY <1>2, <2>1, <2>2
<1> QED  BY <1>1, <1>2

\* Whole blocks of pixels are whole blocks of lanes.
LEMMA WholeBlocks ==
    ASSUME NEW n \in Nat, NEW l \in Nat \ {0}, NEW c \in Nat
    PROVE  /\ c * ((n \div l) * l) <= ((c * n) \div l) * l
           /\ (c * n) - ((c * n) % l) = ((c * n) \div l) * l
           /\ c * ((n \div l) * l) <= c * n
<1> DEFINE q == n \div l
           m == c * n
           p == m \div l
<1>1. q \in Nat /\ q * l \in Nat /\ q * l <= n  BY DivBounds
<1>2. m \in Nat  OBVIOUS
<1> HIDE DEF q, m
<1>3. p \in Nat /\ p * l <= m /\ m < p * l + l  BY <1>2, DivBounds
<1>4. m - (m % l) = p * l  BY <1>2
<1> HIDE DEF p
<1>5. c * (q * l) <= c * n
  <2> DEFINE r == q * l
  <2>1. r \in Nat /\ r <= n  BY <1>1
  <2> HIDE DEF r
  <2>2. c * r <= c * n  BY <2>1
  <2> QED  BY <2>2 DEF r
<1>6. c * (q * l) = (c * q) * l /\ c * q \in Nat  BY <1>1
<1>7. c * q <= p
  <2> DEFINE r == c * q
  <2>1. r \in Nat /\ r * l <= m  BY <1>5, <1>6 DEF m
  <2> HIDE DEF r
  <2>2. r >= p + 1 => r * l >= p * l + l  BY <1>3, <2>1
  <2>3. r * l \in Nat /\ p * l \in Nat  BY <1>3, <2>1
  <2>4. r <= p  BY <1>2, <1>3, <2>1, <2>2, <2>3
  <2> QED  BY <2>4 DEF r
<1>8. (c * q) * l <= p * l
  <2> DEFINE r == c * q
  <2>1. r \in Nat /\ r <= p  BY <1>6, <1>7
  <2> HIDE DEF r
  <2>2. r * l <= p * l  BY <1>3, <2>1
  <2> QED  BY <2>2 DEF r
<1> QED  BY <1>4, <1>5, <1>6, <1>8 DEF p, m, q

\* What is left of a multiple of l.
LEMMA ModStep ==
    ASSUME NEW n \in Nat, NEW l \in Nat \ {0}, n % l = 0
    PROVE  /\ n >= l => (n - l) % l = 0
           /\ n < l => n = 0
<1>1. n = (n \div l) * l /\ n \div l \in Nat  OBVIOUS
<1>2. ASSUME n >= l PROVE (n - l) % l = 0
  <2>1. n - l \in Nat  BY <1>2
  <2> DEFINE q == (n \div l) - 1 - ((n - l) \div l)
             r == (n - l) % l
  <2>2. n - l = ((n - l) \div l) * l + r /\ (n - l) \div l \in Nat /\ r \in 0 .. l - 1  BY <2>1
  <2>3. q * l = r /\ q \in Int  BY <1>1, <2>2
  <2> HIDE DEF q, r
  <2>4. r \in 0 .. l - 1  BY <2>2 DEF r
  <2>5. q <= 0  BY <2>3, <2>4
  <2>6. q >= 0  BY <2>3, <2>4
  <2>7. r = 0  BY <2>3, <2>5, <2>6
  <2> QED  BY <2>7 DEF r
<1> QED  BY <1>2

\* A row of the table of loops.
Row(l, s1, s2, d, op, next) ==
    Body(l) = [s1 |-> s1, s2 |-> s2, d |-> d, op |-> op, next |-> next]

\* The table of loops, row by row.
LEMMA Rows ==
    /\ Row("thresh", 1, 0, 1, "threshold", "thresh")
    /\ Row("thresh_bin", 1, 0, 1, "binary", "thresh_bin")
    /\ Row("cmp3_add", 1, 1, 1, "cmp3", "cmp3_add")
    /\ Row("wst", 1, 1, 1, "wst", "wst")
    /\ Row("wstb", 3, 0, 1, "wstb", "wstb")
    /\ Row("gray", 3, 0, 1, "gray", "gray")
    /\ Row("or", 1, 1, 1, "or", "or")
    /\ Row("or_3c", 3, 1, 3, "or", "or")
    /\ Row("add", 1, 1, 1, "add", "add")
    /\ Row("add_3c", 3, 1, 3, "add", "add_3c")
    /\ Row("add_3c2", 3, 3, 3, "add", "add_3c")
    /\ Row("subtract", 1, 1, 1, "sub", "subtract")
BY DEF Body, Row

\* The table of loops: a loop continues with one that does not read or write more.
LEMMA BodyTable ==
    ASSUME NEW l \in Loops
    PROVE  /\ Body(l).s1 \in {1, 3} /\ Body(l).s2 \in {0, 1, 3} /\ Body(l).d \in {1, 3}
           /\ Body(l).next \in Loops
           /\ Body(Body(l).next).s1 <= Body(l).s1
           /\ Body(Body(l).next).s2 <= Body(l).s2
           /\ Body(Body(l).next).d <= Body(l).d
           /\ l # "wst" => Body(l).next # "wst"
           /\ l # "gray" => Body(l).next # "gray"
BY Rows DEF Row, Loops

-----------------------------------------------------------------------------
(* The wrappers.                                                           *)

\* The wrappers and the loop each enters.
LEMMA Kernels ==
    ASSUME w \in Wrappers
    PROVE  \/ w = Op("threshold", 1, 0, 1) /\ Kernel = "thresh"
           \/ w = Op("binary", 1, 0, 1) /\ Kernel = "thresh_bin"
           \/ w = Op("cmp3", 1, 1, 1) /\ Kernel = "cmp3_add"
           \/ w = Op("wst", 1, 1, 1) /\ Kernel = "wst"
           \/ w = Op("wstb", 3, 0, 1) /\ Kernel = "wstb"
           \/ w = Op("gray", 3, 0, 1) /\ Kernel = "gray"
           \/ w = Op("or", 3, 1, 3) /\ Kernel = "or_3c"
           \/ w = Op("or", 1, 3, 3) /\ Kernel = "or_3c"
           \/ w = Op("add", 1, 1, 1) /\ Kernel = "add"
           \/ w = Op("add", 3, 3, 3) /\ Kernel = "add_3c2"
           \/ w = Op("add", 3, 1, 3) /\ Kernel = "add_3c"
           \/ w = Op("add", 1, 3, 3) /\ Kernel = "add_3c"
           \/ /\ Kernel = "or"
              /\ \E n \in Nat \ {0}, d \in Nat \ {0} : w = OrOf(n, d)
           \/ /\ Kernel = "subtract"
              /\ \E n \in Nat \ {0}, d \in Nat \ {0} : w = Op("sub", 1, 1, n * d)
<1>1. CASE w = Op("threshold", 1, 0, 1)
  <2> w.op = "threshold" /\ w.ca = 1 /\ w.cb = 0  BY <1>1 DEF Op
  <2> QED  BY <1>1 DEF Kernel
<1>2. CASE w = Op("binary", 1, 0, 1)
  <2> w.op = "binary" /\ w.ca = 1 /\ w.cb = 0  BY <1>2 DEF Op
  <2> QED  BY <1>2 DEF Kernel
<1>3. CASE w = Op("cmp3", 1, 1, 1)
  <2> w.op = "cmp3" /\ w.ca = 1 /\ w.cb = 1  BY <1>3 DEF Op
  <2> QED  BY <1>3 DEF Kernel
<1>4. CASE w = Op("wst", 1, 1, 1)
  <2> w.op = "wst" /\ w.ca = 1 /\ w.cb = 1  BY <1>4 DEF Op
  <2> QED  BY <1>4 DEF Kernel
<1>5. CASE w = Op("wstb", 3, 0, 1)
  <2> w.op = "wstb" /\ w.ca = 3 /\ w.cb = 0  BY <1>5 DEF Op
  <2> QED  BY <1>5 DEF Kernel
<1>6. CASE w = Op("gray", 3, 0, 1)
  <2> w.op = "gray" /\ w.ca = 3 /\ w.cb = 0  BY <1>6 DEF Op
  <2> QED  BY <1>6 DEF Kernel
<1>7. CASE w = Op("or", 3, 1, 3)
  <2> w.op = "or" /\ w.ca = 3 /\ w.cb = 1  BY <1>7 DEF Op
  <2> QED  BY <1>7 DEF Kernel
<1>8. CASE w = Op("or", 1, 3, 3)
  <2> w.op = "or" /\ w.ca = 1 /\ w.cb = 3  BY <1>8 DEF Op
  <2> QED  BY <1>8 DEF Kernel
<1>9. CASE w = Op("add", 1, 1, 1)
  <2> w.op = "add" /\ w.ca = 1 /\ w.cb = 1  BY <1>9 DEF Op
  <2> QED  BY <1>9 DEF Kernel
<1>10. CASE w = Op("add", 3, 3, 3)
  <2> w.op = "add" /\ w.ca = 3 /\ w.cb = 3  BY <1>10 DEF Op
  <2> QED  BY <1>10 DEF Kernel
<1>11. CASE w = Op("add", 3, 1, 3)
  <2> w.op = "add" /\ w.ca = 3 /\ w.cb = 1  BY <1>11 DEF Op
  <2> QED  BY <1>11 DEF Kernel
<1>12. CASE w = Op("add", 1, 3, 3)
  <2> w.op = "add" /\ w.ca = 1 /\ w.cb = 3  BY <1>12 DEF Op
  <2> QED  BY <1>12 DEF Kernel
<1>13. ASSUME NEW n \in 1 .. MaxChannels, NEW d \in 1 .. MaxDepth, w = OrOf(n, d)
       PROVE  Kernel = "or" /\ n \in Nat \ {0} /\ d \in Nat \ {0}
  <2>1. n \in Nat \ {0} /\ d \in Nat \ {0}  BY KernelAssumption
  <2>2. w.op = "or" /\ w.ca = n * d /\ w.cb = n * d  BY <1>13 DEF OrOf, Op
  <2> QED  BY <2>1, <2>2 DEF Kernel
<1>14. ASSUME NEW n \in 1 .. MaxChannels, NEW d \in 1 .. MaxDepth, w = Op("sub", 1, 1, n * d)
       PROVE  Kernel = "subtract" /\ n \in Nat \ {0} /\ d \in Nat \ {0}
  <2>1. n \in Nat \ {0} /\ d \in Nat \ {0}  BY KernelAssumption
  <2>2. w.op = "sub"  BY <1>14 DEF Op
  <2> QED  BY <2>1, <2>2 DEF Kernel
<1>15. CASE w \in {OrOf(n, d) : n \in 1 .. MaxChannels, d \in 1 .. MaxDepth}
  <2>1. PICK n \in 1 .. MaxChannels, d \in 1 .. MaxDepth : w = OrOf(n, d)  BY <1>15
  <2> QED  BY <1>13, <2>1
<1>16. CASE w \in {Op("sub", 1, 1, n * d) : n \in 1 .. MaxChannels, d \in 1 .. MaxDepth}
  <2>1. PICK n \in 1 .. MaxChannels, d \in 1 .. MaxDepth : w = Op("sub", 1, 1, n * d)  BY <1>16
  <2> QED  BY <1>14, <2>1
<1> QED  BY <1>1, <1>2, <1>3, <1>4, <1>5, <1>6, <1>7, <1>8, <1>9, <1>10, <1>11, <1>12, <1>15, <1>16 DEF Wrappers

\* The bytes of a pixel.
LEMMA Pixels ==
    ASSUME w \in Wrappers
    PROVE  \A r \in Arrays : Channels(r) \in Nat
<1>1. ASSUME NEW n \in Nat \ {0}, NEW d \in Nat \ {0}, w = OrOf(n, d)
      PROVE  w.ca \in Nat /\ w.cb \in Nat /\ w.cd \in Nat
  <2>1. n * d \in Nat  OBVIOUS
  <2> QED  BY <1>1, <2>1 DEF OrOf, Op
<1>2. ASSUME NEW n \in Nat \ {0}, NEW d \in Nat \ {0}, w = Op("sub", 1, 1, n * d)
      PROVE  w.ca \in Nat /\ w.cb \in Nat /\ w.cd \in Nat
  <2>1. n * d \in Nat  OBVIOUS
  <2> QED  BY <1>2, <2>1 DEF Op
<1>3. w.ca \in Nat /\ w.cb \in Nat /\ w.cd \in Nat  BY <1>1, <1>2, Kernels DEF Op
<1> QED  BY <1>3 DEF Channels

-----------------------------------------------------------------------------
(* The inductive invariant.                                                *)

\* The lanes that a call has still to process, those of one pass, and the loop
\* that processes them.
Left == IF loop \in {"gray", "tail"} THEN count ELSE count * Lanes
Width == IF loop = "tail" THEN 1 ELSE Lanes
Now == Body(IF loop = "tail" THEN "gray" ELSE loop)
Active == loop \in Loops \cup {"tail"}
End(r) == Channels(r) * size

\* Every variable has its type; the frames keep their length.
Types ==
    /\ w \in Wrappers /\ size \in 0 .. MaxSize
    /\ loop \in Loops \cup {"none", "tail", "ret", "stray"}
    /\ count \in Int /\ count <= size * PerPixel
    /\ x \in [s1 : Arrays \X Nat, s2 : Arrays \X Nat, d : Arrays \X Nat]
    /\ mem = [r \in Arrays |-> mem[r]]
    /\ \A r \in Arrays : mem[r] = [k \in 0 .. End(r) - 1 |-> mem[r][k]]

\* Which loop may run, and with what count.
Counts ==
    /\ loop = "none" => x = [s1 |-> <<"a", 0>>, s2 |-> <<"b", 0>>, d |-> <<"d", 0>>]
    /\ loop = "ret" => count = 0
    /\ loop = "wst" => w.op = "wst"
    /\ loop = "gray" => w.op = "gray" /\ count >= Lanes
    /\ loop = "tail" => w.op = "gray" /\ count < Lanes

\* The lanes that are left lie inside the frames.
Fits ==
    Active /\ count >= 1 =>
        /\ x.s1[2] + Left * Now.s1 <= End(x.s1[1])
        /\ loop # "wst" => /\ x.s2[2] + Left * Now.s2 <= End(x.s2[1])
                           /\ x.d[2] + Left * Now.d <= End(x.d[1])

\* The premise of StaysInside rules out a count of zero.
Runs == Enough => loop # "stray" /\ (Active => count >= 1)

Origins ==
    \A r \in Arrays : \A k \in 0 .. End(r) - 1 :
        \A f \in mem[r][k].from : f[1] \in Arrays /\ f[2] \in 0 .. End(f[1]) - 1

IndInv == Types /\ Counts /\ Fits /\ Runs /\ Origins

\* The frames passed first and second.
First == IF Swapped THEN "b" ELSE "a"
Second == IF Swapped THEN "a" ELSE "b"

-----------------------------------------------------------------------------
(* The call of a kernel.                                                   *)

\* The operands have the bytes that the loop goes over, lanes per pixel times
\* bytes per lane, or more.
Covers(a, b, d) ==
    /\ Channels(a) >= PerPixel * Body(Kernel).s1
    /\ Channels(b) >= PerPixel * Body(Kernel).s2
    /\ Channels(d) >= PerPixel * Body(Kernel).d
Operands(a, b, d) ==
    /\ Channels(a) = PerPixel * Body(Kernel).s1
    /\ Channels(b) = PerPixel * Body(Kernel).s2
    /\ Channels(d) = PerPixel * Body(Kernel).d

\* What the wrappers and the loops agree on.
LEMMA KernelFits ==
    ASSUME w \in Wrappers
    PROVE  /\ Kernel \in Loops /\ PerPixel \in Nat \ {0}
           /\ Kernel = "gray" <=> w.op = "gray"
           /\ Kernel = "wst" <=> w.op = "wst"
           /\ Kernel # "or" => PerPixel = 1
           /\ Kernel = "thresh_bin" <=> w.op = "binary"
           /\ Kernel = "thresh_bin" => ~Swapped /\ Covers("d", "b", "a")
           /\ Kernel # "thresh_bin" => Covers(First, Second, "d")
<1>1. ASSUME NEW n \in Nat \ {0}, NEW d \in Nat \ {0}, w = OrOf(n, d), Kernel = "or"
      PROVE  /\ PerPixel = n /\ w.op = "or" /\ Covers(First, Second, "d")
  <2>1. w.op = "or" /\ w.ca = n * d /\ w.cb = n * d /\ w.cd = n * d /\ w.ch = n
    BY <1>1 DEF OrOf, Op
  <2>2. PerPixel = n  BY <2>1 DEF PerPixel, Bytewise
  <2>3. n * d >= n * 1  OBVIOUS
  <2>4. \A r \in Arrays : Channels(r) = n * d  BY <2>1 DEF Channels
  <2>5. First \in Arrays /\ Second \in Arrays  BY DEF First, Second, Arrays
  <2>6. Body(Kernel).s1 = 1 /\ Body(Kernel).s2 = 1 /\ Body(Kernel).d = 1  BY <1>1, Rows DEF Row
  <2> QED  BY <2>1, <2>2, <2>3, <2>4, <2>5, <2>6 DEF Covers, Arrays
<1>2. ASSUME NEW n \in Nat \ {0}, NEW d \in Nat \ {0}, w = Op("sub", 1, 1, n * d), Kernel = "subtract"
      PROVE  /\ PerPixel = 1 /\ w.op = "sub" /\ Covers(First, Second, "d")
  <2>1. w.op = "sub" /\ w.ca = 1 /\ w.cb = 1 /\ w.cd = n * d  BY <1>2 DEF Op
  <2>2. PerPixel = 1  BY <2>1 DEF PerPixel, Bytewise
  <2>3. n * d >= 1  OBVIOUS
  <2>4. First = "a" /\ Second = "b"  BY <2>1 DEF First, Second, Swapped
  <2>5. Body(Kernel).s1 = 1 /\ Body(Kernel).s2 = 1 /\ Body(Kernel).d = 1  BY <1>2, Rows DEF Row
  <2> QED  BY <2>1, <2>2, <2>3, <2>4, <2>5 DEF Covers, Channels
<1>3. CASE Kernel = "or"  BY <1>1, <1>3, Kernels DEF Loops
<1>4. CASE Kernel = "subtract"  BY <1>2, <1>4, Kernels DEF Loops
<1>5. CASE Kernel \notin {"or", "subtract"}
  BY <1>5, Kernels, Rows DEF Row, Op, Loops, PerPixel, Bytewise, Swapped, Covers, First, Second, Channels
<1> QED  BY <1>3, <1>4, <1>5

\* The registers at the start of a loop.
LEMMA EntryPointers ==
    ASSUME w \in Wrappers, Counts, Enter
    PROVE  x' = IF Kernel = "thresh_bin"
                THEN [s1 |-> <<"d", 0>>, s2 |-> <<"b", 0>>, d |-> <<"a", 0>>]
                ELSE [s1 |-> <<First, 0>>, s2 |-> <<Second, 0>>, d |-> <<"d", 0>>]
<1>1. x = [s1 |-> <<"a", 0>>, s2 |-> <<"b", 0>>, d |-> <<"d", 0>>]  BY DEF Enter, Counts
<1>2. CASE Swapped
  <2>1. Kernel # "thresh_bin"  BY <1>2, KernelFits
  <2>2. x' = [s1 |-> <<"b", 0>>, s2 |-> <<"a", 0>>, d |-> x.d]  BY <1>2, <2>1, Zenon DEF Enter
  <2> QED  BY <1>1, <1>2, <2>1, <2>2 DEF First, Second
<1>3. CASE ~Swapped /\ Kernel = "thresh_bin"
  <2>1. x' = [s1 |-> <<"d", 0>>, s2 |-> x.s2, d |-> <<"a", 0>>]  BY <1>3, Zenon DEF Enter
  <2> QED  BY <1>1, <1>3, <2>1
<1>4. CASE ~Swapped /\ Kernel # "thresh_bin"
  <2>1. x' = x  BY <1>4, Zenon DEF Enter
  <2> QED  BY <1>1, <1>4, <2>1 DEF First, Second
<1> QED  BY <1>2, <1>3, <1>4

\* The invariant holds at the start.
LEMMA InitInv == Init => IndInv
<1> SUFFICES ASSUME Init PROVE IndInv  OBVIOUS
<1> USE KernelAssumption
<1>2. Types
  <2>1. \A r \in Arrays : mem[r] = [k \in 0 .. End(r) - 1 |-> Old]  BY DEF Init, Bytes, End
  <2>2. mem = [r \in Arrays |-> mem[r]]  BY DEF Init
  <2>3. \A r \in Arrays : mem[r] = [k \in 0 .. End(r) - 1 |-> mem[r][k]]  BY <2>1
  <2>4. x \in [s1 : Arrays \X Nat, s2 : Arrays \X Nat, d : Arrays \X Nat]  BY DEF Init, Arrays
  <2>5. size \in 0 .. MaxSize /\ count = 0 /\ 0 <= size * PerPixel
    <3>1. PerPixel \in Nat /\ size \in Nat  BY KernelFits DEF Init
    <3> QED  BY <3>1 DEF Init
  <2> QED  BY <2>2, <2>3, <2>4, <2>5 DEF Init, Types
<1>3. Counts /\ Fits /\ Runs
  BY DEF Init, Counts, Fits, Runs, Active, Loops
<1>4. Origins
  <2>1. \A r \in Arrays : \A k \in 0 .. End(r) - 1 : mem[r][k] = Old  BY DEF Init, Bytes, End
  <2> QED  BY <2>1 DEF Origins, Old
<1> QED  BY <1>2, <1>3, <1>4 DEF IndInv

\* The call of a kernel.
LEMMA EnterInv ==
    ASSUME IndInv, Enter
    PROVE  IndInv'
<1> USE KernelAssumption
<1>0. Types /\ Counts /\ Origins /\ Runs  BY DEF IndInv
<1>1. w' = w /\ size' = size /\ mem' = mem /\ loop = "none"  BY DEF Enter
<1>2. \A r : End(r)' = End(r)  BY <1>1 DEF End, Channels
<1>k. Kernel \in Loops /\ PerPixel \in Nat \ {0} /\ PerPixel' = PerPixel
  BY <1>0, <1>1, KernelFits DEF Types, PerPixel, Bytewise
<1>b. /\ Body(Kernel).s1 \in {1, 3} /\ Body(Kernel).s2 \in {0, 1, 3} /\ Body(Kernel).d \in {1, 3}
  BY <1>k, BodyTable
<1>3. PICK a \in Arrays, b \in Arrays, d \in Arrays :
        x' = [s1 |-> <<a, 0>>, s2 |-> <<b, 0>>, d |-> <<d, 0>>] /\ Covers(a, b, d)
  <2>1. w \in Wrappers  BY <1>0 DEF Types
  <2>2. CASE Kernel = "thresh_bin"
    BY <1>0, <2>1, <2>2, EntryPointers, KernelFits DEF Arrays
  <2>3. CASE Kernel # "thresh_bin"
    BY <1>0, <2>1, <2>3, EntryPointers, KernelFits DEF Arrays, First, Second
  <2> QED  BY <2>2, <2>3
<1>4. \A r \in Arrays : Channels(r) \in Nat  BY <1>0, Pixels DEF Types
<1>5. /\ Kernel # "gray" => loop' = Kernel /\ count' = (size * PerPixel) \div Lanes
      /\ Kernel = "gray" => count' = size /\ loop' = IF size < Lanes THEN "tail" ELSE "gray"
  BY DEF Enter, Passes
<1>6. size * PerPixel \in Nat /\ size \in Nat  BY <1>0, <1>k DEF Types
<1>7. /\ (size * PerPixel) \div Lanes \in Nat
      /\ (size * PerPixel) \div Lanes <= size * PerPixel
      /\ ((size * PerPixel) \div Lanes) * Lanes <= size * PerPixel
      /\ size * PerPixel < ((size * PerPixel) \div Lanes) * Lanes + Lanes
      /\ size * PerPixel >= Lanes => (size * PerPixel) \div Lanes >= 1
  BY <1>6, DivBounds
<1>8. Now' = Body(Kernel)  BY <1>5, <1>k DEF Now, Loops
<1>9. Left' \in Nat /\ Left' <= size * PerPixel
  <2>1. CASE Kernel # "gray"
    <3>1. loop' \notin {"gray", "tail"}  BY <2>1, <1>5, <1>k DEF Loops
    <3>2. Left' = ((size * PerPixel) \div Lanes) * Lanes
      BY <2>1, <3>1, <1>5 DEF Left
    <3> QED  BY <3>2, <1>6, <1>7
  <2>2. CASE Kernel = "gray"
    <3>1. PerPixel = 1  BY <1>0, <2>2, KernelFits DEF Types
    <3>2. Left' = size  BY <2>2, <1>5 DEF Left
    <3> QED  BY <3>1, <3>2, <1>6
  <2> QED  BY <2>1, <2>2
<1>10. Types'
  <2>1. loop' \in Loops \cup {"none", "tail", "ret", "stray"}  BY <1>5, <1>k
  <2>2. count' \in Int /\ count' <= size' * PerPixel'
    <3>1. Kernel = "gray" => PerPixel = 1  BY <1>0, KernelFits DEF Types
    <3>2. size * 1 = size  BY <1>6
    <3> QED  BY <1>1, <1>5, <1>6, <1>7, <1>k, <3>1, <3>2
  <2>3. x' \in [s1 : Arrays \X Nat, s2 : Arrays \X Nat, d : Arrays \X Nat]  BY <1>3
  <2> QED  BY <1>0, <1>1, <1>2, <2>1, <2>2, <2>3 DEF Types
<1>11. Counts'
  BY <1>0, <1>1, <1>5, <1>6, <1>k, KernelFits DEF Counts, Types, Loops
<1>12. Fits'
  <2>1. Channels(a) \in Nat /\ Channels(b) \in Nat /\ Channels(d) \in Nat  BY <1>4
  <2>2. /\ Left' * Body(Kernel).s1 <= End(a) /\ Left' * Body(Kernel).s2 <= End(b)
        /\ Left' * Body(Kernel).d <= End(d)
        /\ Left' * Body(Kernel).s1 \in Nat /\ Left' * Body(Kernel).s2 \in Nat
        /\ Left' * Body(Kernel).d \in Nat
    BY <1>3, <1>6, <1>9, <1>b, <1>k, <2>1, ScaleFits DEF Covers, End
  <2> QED  BY <1>2, <1>3, <1>8, <2>2 DEF Fits
<1>14. Runs'
  <2> SUFFICES ASSUME Enough PROVE count' >= 1
    BY <1>1, <1>5, <1>k DEF Runs, Enough, Loops
  <2>1. CASE Kernel = "gray"
    <3>1. PerPixel = 1 /\ w.op = "gray"  BY <1>0, <2>1, KernelFits DEF Types
    <3>2. size * 1 >= 1  BY <3>1 DEF Enough
    <3> QED  BY <1>5, <1>6, <2>1, <3>2
  <2>2. CASE Kernel # "gray"
    <3>1. size * PerPixel >= Lanes  BY <1>0, <2>2, KernelFits DEF Enough, Types
    <3> QED  BY <3>1, <2>2, <1>5, <1>7
  <2> QED  BY <2>1, <2>2
<1>15. Origins'  BY <1>0, <1>1, <1>2 DEF Origins
<1> QED  BY <1>10, <1>11, <1>12, <1>14, <1>15 DEF IndInv

-----------------------------------------------------------------------------
(* A pass.                                                                 *)

\* Block and Tail are passes of the loop that runs, over Width lanes.
Step == IF loop \in {"gray", "tail"} THEN Width ELSE 1
SameLoop(b) == b.s1 = Now.s1 /\ b.s2 = Now.s2 /\ b.d = Now.d /\ b.next = Now.next

\* The strides of the loop that runs.
LEMMA NowTable ==
    ASSUME Active
    PROVE  /\ Now.s1 \in {1, 3} /\ Now.s2 \in {0, 1, 3} /\ Now.d \in {1, 3}
           /\ Now.next \in Loops
           /\ Body(Now.next).s1 <= Now.s1 /\ Body(Now.next).s2 <= Now.s2
           /\ Body(Now.next).d <= Now.d
           /\ loop # "wst" => Now.next # "wst"
           /\ loop \notin {"gray", "tail"} => Now.next # "gray"
           /\ loop \in {"gray", "tail"} => Now.next = "gray"
<1>1. CASE loop = "tail"  BY <1>1, Rows DEF Now, Row, Loops
<1>2. CASE loop # "tail"
  <2>1. loop \in Loops /\ Now = Body(loop)  BY <1>2 DEF Active, Now
  <2>2. loop = "gray" => Now.next = "gray"  BY <2>1, Rows DEF Row
  <2> QED  BY <1>2, <2>1, <2>2, BodyTable
<1> QED  BY <1>1, <1>2

\* The frames as the model sees them.
LEMMA Extent ==
    ASSUME Types
    PROVE  /\ \A r \in Arrays : End(r) \in Nat /\ DOMAIN mem[r] = 0 .. End(r) - 1
           /\ x.s1[1] \in Arrays /\ x.s1[2] \in Nat
           /\ x.s2[1] \in Arrays /\ x.s2[2] \in Nat
           /\ x.d[1] \in Arrays /\ x.d[2] \in Nat
           /\ size \in Nat /\ count \in Int /\ Left \in Int /\ Width \in Nat \ {0}
           /\ count >= 0 => Left \in Nat
<1>1. \A r \in Arrays : End(r) \in Nat
  <2>1. size \in Nat /\ \A r \in Arrays : Channels(r) \in Nat  BY KernelAssumption, Pixels DEF Types
  <2>2. \A n \in Nat : n * size \in Nat  BY <2>1
  <2> QED  BY <2>1, <2>2 DEF End
<1>2. /\ size \in Nat /\ count \in Int /\ Left \in Int /\ Width \in Nat \ {0}
      /\ count >= 0 => Left \in Nat
  BY KernelAssumption DEF Types, Left, Width
<1> QED  BY <1>1, <1>2 DEF Types

\* The bytes of one pass.
LEMMA PassBytes ==
    ASSUME Types, Active, NEW b, SameLoop(b)
    PROVE  /\ b.s1 \in {1, 3} /\ b.s2 \in {0, 1, 3} /\ b.d \in {1, 3}
           /\ Width * b.s1 \in Nat /\ Width * b.s2 \in Nat /\ Width * b.d \in Nat
<1>1. b.s1 \in {1, 3} /\ b.s2 \in {0, 1, 3} /\ b.d \in {1, 3}  BY NowTable DEF SameLoop
<1>2. Width \in Nat  BY Extent
<1> QED  BY <1>1, <1>2

\* A pointer that moves on stays a pointer into the same frame.
LEMMA Moved ==
    ASSUME NEW p, p[1] \in Arrays, p[2] \in Nat, NEW n \in Nat
    PROVE  Plus(p, n) \in Arrays \X Nat
BY DEF Plus

\* A count that has not wrapped is enough for a pass.
LEMMA PassLeft ==
    ASSUME IndInv, Active, count >= 1
    PROVE  count >= Step /\ Left >= Width
<1> USE KernelAssumption
<1>1. Types /\ Counts  BY DEF IndInv
<1>2. count \in Nat \ {0}  BY <1>1, Extent
<1>3. CASE loop \in {"gray", "tail"}
  BY <1>1, <1>2, <1>3 DEF Counts, Left, Width, Step
<1>4. CASE loop \notin {"gray", "tail"}
  <2>1. count * Lanes >= Lanes  BY <1>2, PassCount
  <2> QED  BY <1>2, <1>4, <2>1 DEF Left, Width, Step
<1> QED  BY <1>3, <1>4

\* What comes after a pass.
LEMMA PassControl ==
    ASSUME IndInv, Active, NEW b, SameLoop(b), Pass(b, Width, Step)
    PROVE  /\ count' \in Int /\ count' < count
           /\ loop' \in Loops \cup {"tail", "ret"}
           /\ count' = 0 <=> loop' = "ret"
           /\ count >= 1 => count' \in Nat /\ Left' = Left - Width
           /\ Active' => /\ Now'.s1 \in 0 .. Now.s1 /\ Now'.s2 \in 0 .. Now.s2
                         /\ Now'.d \in 0 .. Now.d
           /\ Counts' /\ (loop' = "wst" => loop = "wst")
<1> USE KernelAssumption
<1>1. Types /\ Counts  BY DEF IndInv
<1>2. count >= 1 => count >= Step /\ Left >= Width  BY PassLeft
<1>3. count' = count - Step /\ loop' = After(b, count - Step) /\ w' = w  BY DEF Pass
<1>4. Step \in Nat \ {0}  BY <1>1, Extent DEF Step
<1>5. count' \in Int /\ count' < count /\ (count >= 1 => count' \in Nat)
  BY <1>1, <1>2, <1>3, <1>4, Extent, SMTT(30)
<1>6. b.next = Now.next  BY DEF SameLoop
<1>7. CASE count' = 0
  <2>1. loop' = "ret"  BY <1>3, <1>7 DEF After
  <2>2. Left' = 0  BY <1>7, <2>1 DEF Left
  <2>3. count = Step  BY <1>1, <1>3, <1>4, <1>7, Extent
  <2>4. Left = Width  BY <2>3 DEF Left, Step, Width
  <2>5. Width \in Nat  BY <1>1, Extent
  <2> QED  BY <1>5, <1>7, <2>1, <2>2, <2>4, <2>5 DEF Active, Loops, Counts
<1>8. CASE count' # 0 /\ loop \in {"gray", "tail"}
  <2>1. loop' = IF count' >= Lanes THEN "gray" ELSE "tail"  BY <1>3, <1>8 DEF After
  <2>2. Left' = Left - Width  BY <1>3, <1>8, <2>1 DEF Left, Step
  <2>3. Now' = Body("gray") /\ Now = Body("gray")  BY <1>8, <2>1 DEF Now
  <2>4. Now.s1 = 3 /\ Now.s2 = 0 /\ Now.d = 1  BY <2>3, Rows DEF Row
  <2>5. w.op = "gray"  BY <1>1, <1>8 DEF Counts
  <2>6. Counts'  BY <1>3, <1>5, <2>1, <2>5 DEF Counts
  <2> QED  BY <1>5, <1>8, <2>1, <2>2, <2>3, <2>4, <2>6 DEF Loops
<1>9. CASE count' # 0 /\ loop \notin {"gray", "tail"}
  <2>1. loop' = Now.next  BY <1>3, <1>6, <1>9 DEF After
  <2>2. loop' \in Loops /\ loop' \notin {"gray", "tail"} /\ (loop' = "wst" => loop = "wst")
    BY <1>9, <2>1, NowTable DEF Loops
  <2>3. count' = count - 1  BY <1>3, <1>9 DEF Step
  <2>4. count >= 1 => Left' = Left - Width
    BY <1>1, <1>9, <2>2, <2>3, Extent, PassCount DEF Left, Width
  <2>5. Now' = Body(Now.next)  BY <2>1, <2>2 DEF Now
  <2>6. /\ Now'.s1 \in 0 .. Now.s1 /\ Now'.s2 \in 0 .. Now.s2 /\ Now'.d \in 0 .. Now.d
    BY <2>5, NowTable, BodyTable
  <2>7. Counts'  BY <1>1, <1>3, <2>2 DEF Counts, Loops
  <2> QED  BY <1>5, <1>9, <2>2, <2>4, <2>6, <2>7 DEF Loops
<1> QED  BY <1>7, <1>8, <1>9

\* The bytes of a pass.
LEMMA PassStores ==
    ASSUME Types, Active, NEW b, SameLoop(b), Pass(b, Width, Step)
    PROVE  /\ Target(b, Width)[1] \in Arrays /\ Target(b, Width)[2] \in Nat
           /\ \A r \in Arrays : End(r)' = End(r)
           /\ mem' = [r \in Arrays |-> mem'[r]]
           /\ \A r \in Arrays : mem'[r] = [k \in 0 .. End(r) - 1 |-> mem'[r][k]]
           /\ \A r \in Arrays : \A k \in 0 .. End(r) - 1 :
                 LET t == Target(b, Width) IN
                 mem'[r][k] = IF r = t[1] /\ k \in t[2] .. t[2] + (Width * b.d) - 1
                              THEN Result(b, k - t[2]) ELSE mem[r][k]
<1> DEFINE t == Target(b, Width)
<1>1. Width * b.s2 \in Nat  BY PassBytes
<1>2. t[1] \in Arrays /\ t[2] \in Nat
  <2>1. /\ x.s2[1] \in Arrays /\ x.s2[2] \in Nat
        /\ x.d[1] \in Arrays /\ x.d[2] \in Nat
    BY Extent
  <2>2. CASE loop = "wst"
    <3>1. t = <<x.s2[1], x.s2[2] + Width * b.s2>>  BY <2>2 DEF Target, Plus
    <3> QED  BY <1>1, <2>1, <3>1
  <2>3. CASE loop # "wst"
    <3>1. t = x.d  BY <2>3 DEF Target
    <3> QED  BY <2>1, <3>1
  <2> QED  BY <2>2, <2>3
<1>3. \A r \in Arrays : End(r)' = End(r)  BY DEF Pass, End, Channels
<1>4. mem' = [mem EXCEPT ![t[1]] =
                [k \in DOMAIN mem[t[1]] |->
                   IF k \in t[2] .. t[2] + (Width * b.d) - 1 THEN Result(b, k - t[2])
                   ELSE mem[t[1]][k]]]
  BY DEF Pass, Store
<1>5. mem = [r \in Arrays |-> mem[r]] /\ \A r \in Arrays : mem[r] = [k \in 0 .. End(r) - 1 |-> mem[r][k]]
  BY DEF Types
<1> HIDE DEF t
<1>6. \A r \in Arrays :
        mem'[r] = IF r = t[1]
                  THEN [k \in 0 .. End(r) - 1 |->
                          IF k \in t[2] .. t[2] + (Width * b.d) - 1 THEN Result(b, k - t[2])
                          ELSE mem[r][k]]
                  ELSE mem[r]
  BY <1>2, <1>4, <1>5, Extent
<1>7. mem' = [r \in Arrays |-> mem'[r]]  BY <1>4, <1>5
<1>8. \A r \in Arrays : mem'[r] = [k \in 0 .. End(r) - 1 |-> mem'[r][k]]  BY <1>5, <1>6
<1>9. \A r \in Arrays : \A k \in 0 .. End(r) - 1 :
        mem'[r][k] = IF r = t[1] /\ k \in t[2] .. t[2] + (Width * b.d) - 1
                     THEN Result(b, k - t[2]) ELSE mem[r][k]
  BY <1>5, <1>6, ZenonT(30)
<1> QED  BY <1>2, <1>3, <1>7, <1>8, <1>9 DEF t

\* What a pass stores is made from bytes of the frames.
LEMMA PassOrigins ==
    ASSUME Types, Origins, Active, NEW b, SameLoop(b), Pass(b, Width, Step)
    PROVE  Origins'
<1>1. \A j \in 0 .. (Width * b.d) - 1 : \A f \in Result(b, j).from :
        f[1] \in Arrays /\ f[2] \in 0 .. End(f[1]) - 1
  <2> SUFFICES ASSUME NEW j \in 0 .. (Width * b.d) - 1, NEW f \in Result(b, j).from
               PROVE  f[1] \in Arrays /\ f[2] \in 0 .. End(f[1]) - 1
    OBVIOUS
  <2>1. b.s1 \in {1, 3} /\ b.s2 \in {0, 1, 3} /\ b.d \in {1, 3}  BY NowTable DEF SameLoop
  <2>2. Inside(x.s1, Width * b.s1) /\ Inside(x.s2, Width * b.s2)  BY DEF Pass, Accesses
  <2>3. CASE f = Plus(x.s1, (j * b.s1) \div b.d)
    <3>1. (j * b.s1) \div b.d \in 0 .. Width * b.s1 - 1  BY <2>1, LaneOf, Extent
    <3>2. x.s1[2] + ((j * b.s1) \div b.d) \in DOMAIN mem[x.s1[1]]  BY <2>2, <3>1 DEF Inside
    <3> QED  BY <2>3, <3>2, Extent DEF Plus
  <2>4. CASE b.s2 # 0 /\ f = Plus(x.s2, (j * b.s2) \div b.d)
    <3>1. (j * b.s2) \div b.d \in 0 .. Width * b.s2 - 1  BY <2>1, <2>4, LaneOf, Extent
    <3>2. x.s2[2] + ((j * b.s2) \div b.d) \in DOMAIN mem[x.s2[1]]  BY <2>2, <3>1 DEF Inside
    <3> QED  BY <2>4, <3>2, Extent DEF Plus
  <2> QED  BY <2>3, <2>4 DEF Result
<1>2. \A r \in Arrays : End(r)' = End(r)  BY PassStores
<1>3. ASSUME NEW r \in Arrays, NEW k \in 0 .. End(r) - 1, NEW f \in mem'[r][k].from
      PROVE  f[1] \in Arrays /\ f[2] \in 0 .. End(f[1]) - 1
  <2> DEFINE t == Target(b, Width)
  <2>1. t[1] \in Arrays /\ t[2] \in Nat  BY PassStores
  <2>2. mem'[r][k] = IF r = t[1] /\ k \in t[2] .. t[2] + (Width * b.d) - 1
                     THEN Result(b, k - t[2]) ELSE mem[r][k]
    BY PassStores
  <2>3. Width * b.d \in Nat  BY PassBytes
  <2> HIDE DEF t
  <2>4. CASE r = t[1] /\ k \in t[2] .. t[2] + (Width * b.d) - 1
    <3>1. k - t[2] \in 0 .. (Width * b.d) - 1  BY <2>1, <2>3, <2>4
    <3> QED  BY <1>1, <2>2, <2>4, <3>1
  <2>5. CASE ~(r = t[1] /\ k \in t[2] .. t[2] + (Width * b.d) - 1)
    BY <2>2, <2>5 DEF Origins
  <2> QED  BY <2>4, <2>5
<1> QED  BY <1>2, <1>3 DEF Origins

\* A pass keeps the invariant.
LEMMA PassInv ==
    ASSUME IndInv, Active, NEW b, SameLoop(b), Pass(b, Width, Step)
    PROVE  IndInv'
<1> USE KernelAssumption
<1>1. Types /\ Fits /\ Origins /\ Runs  BY DEF IndInv
<1>2. /\ count' \in Int /\ count' < count /\ loop' \in Loops \cup {"tail", "ret"}
      /\ count' = 0 <=> loop' = "ret"
      /\ count >= 1 => count' \in Nat /\ Left' = Left - Width
      /\ Active' => /\ Now'.s1 \in 0 .. Now.s1 /\ Now'.s2 \in 0 .. Now.s2
                    /\ Now'.d \in 0 .. Now.d
      /\ Counts' /\ (loop' = "wst" => loop = "wst")
  BY PassControl
<1>3. w' = w /\ size' = size  BY DEF Pass
<1>p. PerPixel' = PerPixel /\ Enough' = Enough  BY <1>3 DEF PerPixel, Bytewise, Enough
<1>4. \A r \in Arrays : End(r)' = End(r)  BY <1>1, PassStores
<1>5. Now.s1 \in {1, 3} /\ Now.s2 \in {0, 1, 3} /\ Now.d \in {1, 3}  BY NowTable
<1>6. /\ x'.s1 = Plus(x.s1, Width * Now.s1)
      /\ loop # "wst" => /\ x'.s2 = Plus(x.s2, Width * Now.s2)
                         /\ x'.d = Plus(x.d, Width * Now.d)
  <2>1. Width * Now.s2 \in Nat  BY <1>1, PassBytes DEF SameLoop
  <2> QED  BY <2>1 DEF Pass, Move, SameLoop
<1>7. Types'
  <2>1. x' \in [s1 : Arrays \X Nat, s2 : Arrays \X Nat, d : Arrays \X Nat]
    <3>1. Width * b.s1 \in Nat /\ Width * b.s2 \in Nat /\ Width * b.d \in Nat
      BY <1>1, PassBytes
    <3>2. Plus(x.s1, Width * b.s1) \in Arrays \X Nat  BY <1>1, <3>1, Extent, Moved
    <3>3. Plus(x.s2, Width * b.s2 + IF loop = "wst" THEN Width ELSE 0) \in Arrays \X Nat
      <4>0. Width \in Nat  BY <1>1, Extent
      <4>1. Width * b.s2 + (IF loop = "wst" THEN Width ELSE 0) \in Nat  BY <3>1, <4>0, SMTT(30)
      <4> QED  BY <1>1, <4>1, Extent, Moved
    <3>4. Plus(x.d, Width * b.d) \in Arrays \X Nat  BY <1>1, <3>1, Extent, Moved
    <3>5. x.d \in Arrays \X Nat  BY <1>1 DEF Types
    <3> QED  BY <3>2, <3>3, <3>4, <3>5 DEF Pass, Move
  <2>2. count' <= size' * PerPixel'
    <3>1. PerPixel \in Nat /\ size \in Nat /\ count \in Int /\ count <= size * PerPixel
      BY <1>1, KernelFits, Extent DEF Types
    <3> DEFINE e == size * PerPixel
    <3>2. e \in Int  BY <3>1
    <3>3. count' <= e  BY <1>2, <3>1, <3>2
    <3> QED  BY <1>3, <1>p, <3>3
  <2>3. mem' = [r \in Arrays |-> mem'[r]]  BY <1>1, PassStores
  <2>4. \A r \in Arrays : mem'[r] = [k \in 0 .. End(r)' - 1 |-> mem'[r][k]]
    BY <1>1, <1>4, PassStores
  <2> QED  BY <1>1, <1>2, <1>3, <2>1, <2>2, <2>3, <2>4 DEF Types
<1>8. Fits'
  <2> SUFFICES ASSUME Active', count' >= 1 PROVE Fits'  BY DEF Fits
  <2>0. count >= 1  BY <1>1, <1>2, Extent
  <2>1. Left \in Nat /\ Width \in Nat /\ Width <= Left  BY <1>1, <2>0, PassLeft, Extent
  <2>2. (x.s1[2] + Left * Now.s1 <= End(x.s1[1]))'
    <3>1. x.s1[2] \in Nat /\ x.s1[1] \in Arrays /\ End(x.s1[1]) \in Nat  BY <1>1, Extent
    <3>2. x.s1[2] + Left * Now.s1 <= End(x.s1[1])  BY <1>1, <2>0 DEF Fits
    <3>3. (x.s1[2] + Width * Now.s1) + (Left - Width) * Now'.s1 <= End(x.s1[1])
      BY <1>2, <1>5, <2>1, <3>1, <3>2, PassFits
    <3>4. x'.s1[1] = x.s1[1] /\ x'.s1[2] = x.s1[2] + Width * Now.s1  BY <1>6 DEF Plus
    <3>5. End(x.s1[1])' = End(x.s1[1])  BY <1>3, <3>4 DEF End, Channels
    <3> QED  BY <1>2, <2>0, <3>3, <3>4, <3>5
  <2>3. ASSUME loop # "wst" PROVE (x.s2[2] + Left * Now.s2 <= End(x.s2[1]))'
    <3>1. x.s2[2] \in Nat /\ x.s2[1] \in Arrays /\ End(x.s2[1]) \in Nat  BY <1>1, Extent
    <3>2. x.s2[2] + Left * Now.s2 <= End(x.s2[1])  BY <1>1, <2>0, <2>3 DEF Fits
    <3>3. (x.s2[2] + Width * Now.s2) + (Left - Width) * Now'.s2 <= End(x.s2[1])
      BY <1>2, <1>5, <2>1, <3>1, <3>2, PassFits
    <3>4. x'.s2[1] = x.s2[1] /\ x'.s2[2] = x.s2[2] + Width * Now.s2  BY <1>6, <2>3 DEF Plus
    <3>5. End(x.s2[1])' = End(x.s2[1])  BY <1>3, <3>4 DEF End, Channels
    <3> QED  BY <1>2, <2>0, <3>3, <3>4, <3>5
  <2>4. ASSUME loop # "wst" PROVE (x.d[2] + Left * Now.d <= End(x.d[1]))'
    <3>1. x.d[2] \in Nat /\ x.d[1] \in Arrays /\ End(x.d[1]) \in Nat  BY <1>1, Extent
    <3>2. x.d[2] + Left * Now.d <= End(x.d[1])  BY <1>1, <2>0, <2>4 DEF Fits
    <3>3. (x.d[2] + Width * Now.d) + (Left - Width) * Now'.d <= End(x.d[1])
      BY <1>2, <1>5, <2>1, <3>1, <3>2, PassFits
    <3>4. x'.d[1] = x.d[1] /\ x'.d[2] = x.d[2] + Width * Now.d  BY <1>6, <2>4 DEF Plus
    <3>5. End(x.d[1])' = End(x.d[1])  BY <1>3, <3>4 DEF End, Channels
    <3> QED  BY <1>2, <2>0, <3>3, <3>4, <3>5
  <2>5. loop' # "wst" => loop # "wst"
    <3> SUFFICES ASSUME loop = "wst" PROVE loop' = "wst"  OBVIOUS
    <3>1. Now.next = "wst"  BY Rows DEF Now, Row
    <3> QED  BY <3>1 DEF Pass, After, SameLoop, Active, Loops
  <2> QED  BY <2>2, <2>3, <2>4, <2>5 DEF Fits
<1>10. Runs'
  <2> SUFFICES ASSUME Enough PROVE loop' # "stray" /\ (Active' => count' >= 1)  BY <1>p DEF Runs
  <2>1. count >= 1  BY <1>1 DEF Runs
  <2>2. count' \in Nat  BY <1>2, <2>1
  <2>3. Active' => count' # 0  BY <1>2 DEF Active, Loops
  <2> QED  BY <1>2, <2>2, <2>3 DEF Loops
<1>11. Origins'  BY <1>1, PassOrigins
<1> QED  BY <1>2, <1>7, <1>8, <1>10, <1>11 DEF IndInv

-----------------------------------------------------------------------------
(* An access outside of the frames.                                        *)

\* With enough pixels there is none.
LEMMA EnoughInside ==
    ASSUME IndInv, Active, Enough
    PROVE  Accesses(Now, Width)
<1> USE KernelAssumption
<1>1. Types /\ Counts /\ Fits /\ Runs  BY DEF IndInv
<1>2. count >= 1 /\ loop # "wst"  BY <1>1 DEF Runs, Counts, Enough
<1>3. Left >= Width  BY <1>2, PassLeft
<1>5. Left \in Nat /\ Width \in Nat  BY <1>1, <1>2, Extent
<1>6. ASSUME NEW p, p[1] \in Arrays, p[2] \in Nat, NEW s \in {0, 1, 3}, p[2] + Left * s <= End(p[1])
      PROVE  Inside(p, Width * s)
  <2>1. End(p[1]) \in Nat /\ DOMAIN mem[p[1]] = 0 .. End(p[1]) - 1  BY <1>1, <1>6, Extent
  <2>2. (p[2] + Width * s) + (Left - Width) * 0 <= End(p[1])  BY <1>3, <1>5, <1>6, <2>1, PassFits
  <2>3. Width * s \in Nat  BY <1>5
  <2>4. p[2] + Width * s <= End(p[1])  BY <1>5, <1>6, <2>2, <2>3
  <2> SUFFICES ASSUME NEW k \in 0 .. (Width * s) - 1 PROVE p[2] + k \in 0 .. End(p[1]) - 1
    BY <2>1 DEF Inside
  <2> QED  BY <1>6, <2>1, <2>3, <2>4
<1>7. Inside(x.s1, Width * Now.s1)  BY <1>1, <1>2, <1>6, NowTable, Extent DEF Fits
<1>8. Inside(x.s2, Width * Now.s2)  BY <1>1, <1>2, <1>6, NowTable, Extent DEF Fits
<1>9. Inside(x.d, Width * Now.d)  BY <1>1, <1>2, <1>6, NowTable, Extent DEF Fits
<1> QED  BY <1>2, <1>7, <1>8, <1>9 DEF Accesses, Target

\* The invariant survives an access outside of the frames.
LEMMA StrayInv ==
    ASSUME IndInv, Stray
    PROVE  IndInv'
<1>1. Types /\ Counts /\ Origins  BY DEF IndInv
<1>2. w' = w /\ size' = size /\ count' = count /\ x' = x /\ mem' = mem /\ loop' = "stray"  BY DEF Stray
<1>3. Active  BY <1>1 DEF Stray, Types, Active
<1>4. ~Accesses(Now, Width)  BY DEF Stray, Now, Width
<1>5. ~Enough  BY <1>3, <1>4, EnoughInside
<1>6. \A r : End(r)' = End(r)  BY <1>2 DEF End, Channels
<1>p. PerPixel' = PerPixel /\ Enough' = Enough  BY <1>2 DEF PerPixel, Bytewise, Enough
<1>7. Types' /\ Origins'  BY <1>1, <1>2, <1>6, <1>p DEF Types, Origins
<1>8. Counts' /\ Fits'  BY <1>2 DEF Counts, Fits, Active, Loops
<1>9. Runs'  BY <1>5, <1>p DEF Runs
<1> QED  BY <1>7, <1>8, <1>9 DEF IndInv

-----------------------------------------------------------------------------
(* The theorems.                                                           *)

\* Block and Tail are passes of the loop that runs.
LEMMA BlockPass ==
    ASSUME Types, Block
    PROVE  Active /\ SameLoop(Body(loop)) /\ Pass(Body(loop), Width, Step)
BY DEF Block, Types, Active, SameLoop, Now, Width, Step, Loops

\* Block and Tail are passes of the loop that runs.
LEMMA TailPass ==
    ASSUME Tail
    PROVE  LET b == [Body("gray") EXCEPT !.op = "share"] IN
           Active /\ SameLoop(b) /\ Pass(b, Width, Step)
<1> DEFINE b == [Body("gray") EXCEPT !.op = "share"]
<1>1. loop = "tail" /\ Pass(b, 1, 1)  BY DEF Tail
<1>2. SameLoop(b)  BY <1>1, Rows DEF SameLoop, Now, Row
<1> HIDE DEF b
<1>3. Active /\ Pass(b, Width, Step)  BY <1>1 DEF Active, Width, Step
<1> QED  BY <1>2, <1>3 DEF b

\* Every step keeps the invariant.
LEMMA NextInv == IndInv /\ [Next]_vars => IndInv'
<1> SUFFICES ASSUME IndInv, [Next]_vars PROVE IndInv'  OBVIOUS
<1>1. CASE Enter  BY <1>1, EnterInv
<1>2. CASE Block  BY <1>2, BlockPass, PassInv DEF IndInv
<1>3. CASE Tail  BY <1>3, TailPass, PassInv
<1>4. CASE Stray  BY <1>4, StrayInv
<1>5. CASE UNCHANGED vars
  <2>1. w' = w /\ size' = size /\ count' = count /\ x' = x /\ mem' = mem /\ loop' = loop  BY <1>5 DEF vars
  <2>2. \A r : End(r)' = End(r)  BY <2>1 DEF End, Channels
  <2>3. PerPixel' = PerPixel /\ Enough' = Enough  BY <2>1 DEF PerPixel, Bytewise, Enough
  <2> QED  BY <2>1, <2>2, <2>3 DEF IndInv, Types, Counts, Fits, Runs, Origins, Active, Left, Now
<1> QED  BY <1>1, <1>2, <1>3, <1>4, <1>5 DEF Next

\* The invariant holds for registers and frames of any size.
THEOREM IndInvariance == Spec => []IndInv
<1> QED  BY InitInv, NextInv, PTL DEF Spec

\* Every reachable state of the kernels is well typed: the count register never
\* exceeds what the wrapper counted, pointers stay in the frames' arrays, and
\* every byte of a result is made from bytes inside the frames, also when a frame
\* is too short, when the register has wrapped, and for wst.
THEOREM TypeCorrect == Spec => []TypeOK
<1>1. IndInv => TypeOK
  <2> SUFFICES ASSUME IndInv PROVE TypeOK  OBVIOUS
  <2>1. Types /\ Origins  BY DEF IndInv
  <2>3. \A r \in Arrays : DOMAIN mem[r] = 0 .. End(r) - 1  BY <2>1, Extent
  <2> QED  BY <2>1, <2>3 DEF Types, TypeOK, Origins
<1> QED  BY <1>1, IndInvariance, PTL

\* No kernel of neon64.S but wst leaves its frames if they have as many pixels
\* as a register has lanes (channels for neon_bitwise_or, one pixel for togray),
\* for any number of lanes, any size and any type that CV_Assert lets through.
THEOREM StayInside == Spec => []StaysInside
<1>1. IndInv => StaysInside  BY DEF IndInv, Runs, StaysInside
<1> QED  BY <1>1, IndInvariance, PTL

-----------------------------------------------------------------------------
(* What the kernels compute.                                               *)

\* The lanes of a call, and those it has done.
Total == IF w.op = "gray" THEN size ELSE Passes * Lanes
Done == Total - Left

\* A call that works stays in its loop, its pointers are Done lanes into the
\* frames, and the result is the reference up to there and untouched behind.
Progress ==
    Works /\ loop \notin {"none", "stray"} =>
        /\ loop \in {Kernel, "ret"}
        /\ Kernel \in {"or_3c", "add_3c2"} => count <= 1
        /\ Kernel = "gray" => count % Lanes = 0
        /\ x.s1 = <<First, Done * Body(Kernel).s1>>
        /\ x.s2 = <<Second, Done * Body(Kernel).s2>>
        /\ x.d = <<"d", Done * Body(Kernel).d>>
        /\ Done \in Nat
        /\ \A k \in 0 .. End("d") - 1 :
              mem["d"][k] = IF k < Done * Body(Kernel).d THEN Reference(k) ELSE Old

\* Before the call nothing is written, and a call that works writes no source.
Fresh == loop = "none" => \A r \in Arrays : \A k \in 0 .. End(r) - 1 : mem[r][k] = Old
Sources == Works => \A r \in {"a", "b"} : \A k \in 0 .. End(r) - 1 : mem[r][k] = Old

RefInv == IndInv /\ Progress /\ Fresh /\ Sources

\* The wrapper that was called does not change, nor what follows from it.
LEMMA SameCall ==
    ASSUME w' = w, size' = size
    PROVE  /\ Kernel' = Kernel /\ Works' = Works /\ First' = First /\ Second' = Second
           /\ Total' = Total /\ Passes' = Passes /\ PerPixel' = PerPixel
           /\ \A r : End(r)' = End(r)
           /\ \A k : Reference(k)' = Reference(k)
<1>1. Kernel' = Kernel  BY DEF Kernel
<1>2. Works' = Works  BY DEF Works, Blocks, Enough, Bytewise, PerPixel
<1>3. First' = First /\ Second' = Second  BY DEF First, Second, Swapped
<1>4. Passes' = Passes /\ PerPixel' = PerPixel  BY DEF Passes, Bytewise, PerPixel
<1>5. Total' = Total  BY <1>4 DEF Total
<1>6. \A r : End(r)' = End(r)  BY DEF End, Channels
<1>7. \A k : Reference(k)' = Reference(k)  BY DEF Reference
<1> QED  BY <1>1, <1>2, <1>3, <1>4, <1>5, <1>6, <1>7

\* The loops of the calls that work.
LEMMA WorkingKernel ==
    ASSUME w \in Wrappers, Works
    PROVE  /\ Kernel # "thresh_bin" /\ Kernel # "wst" /\ Operands(First, Second, "d")
           /\ Body(Kernel).op = w.op
           /\ Kernel \in {"or_3c", "add_3c2"} => Blocks = 1 /\ PerPixel = 1
           /\ Kernel \notin {"or_3c", "add_3c2"} => Body(Kernel).next = Kernel
           /\ Kernel = "gray" => size % Lanes = 0
           /\ Body(Kernel).s2 = 0 => ~Swapped
           /\ PerPixel = 1 \/ (Body(Kernel).s1 = 1 /\ Body(Kernel).s2 = 1 /\ Body(Kernel).d = 1)
           /\ w.cd \in Nat
<1>1. ASSUME NEW n \in Nat \ {0}, NEW d \in Nat \ {0}, w = OrOf(n, d), Kernel = "or"
      PROVE  w.op = "or" /\ Operands(First, Second, "d")
  <2>1. w.op = "or" /\ w.ca = n * d /\ w.cb = n * d /\ w.cd = n * d /\ w.ch = n
    BY <1>1 DEF OrOf, Op
  <2>2. PerPixel = n /\ n * d = n  BY <2>1 DEF PerPixel, Bytewise, Works
  <2>3. \A r \in Arrays : Channels(r) = n  BY <2>1, <2>2 DEF Channels
  <2>4. Body(Kernel).s1 = 1 /\ Body(Kernel).s2 = 1 /\ Body(Kernel).d = 1  BY <1>1, Rows DEF Row
  <2> QED  BY <2>1, <2>2, <2>3, <2>4 DEF Operands, Arrays, First, Second
<1>2. ASSUME NEW n \in Nat \ {0}, NEW d \in Nat \ {0}, w = Op("sub", 1, 1, n * d), Kernel = "subtract"
      PROVE  w.op = "sub" /\ Operands(First, Second, "d")
  <2>1. w.op = "sub" /\ w.ca = 1 /\ w.cb = 1  BY <1>2 DEF Op
  <2>2. w.cd = 1 /\ PerPixel = 1  BY <2>1 DEF PerPixel, Bytewise, Works
  <2>3. First = "a" /\ Second = "b"  BY <2>1 DEF First, Second, Swapped
  <2>4. Body(Kernel).s1 = 1 /\ Body(Kernel).s2 = 1 /\ Body(Kernel).d = 1  BY <1>2, Rows DEF Row
  <2> QED  BY <2>1, <2>2, <2>3, <2>4 DEF Operands, Channels
<1>3. w.cd \in Nat  BY Pixels DEF Channels, Arrays
<1>4. CASE Kernel = "or"  BY <1>1, <1>3, <1>4, Kernels, Rows DEF Row
<1>5. CASE Kernel = "subtract"  BY <1>2, <1>3, <1>5, Kernels, KernelFits, Rows DEF Row
<1>6. CASE Kernel \notin {"or", "subtract"}
  BY <1>3, <1>6, Kernels, Rows
  DEF Row, Works, Enough, Op, PerPixel, Bytewise, Swapped, Operands, First, Second, Channels
<1> QED  BY <1>4, <1>5, <1>6

\* The bytes before the call.
LEMMA RefInit == Init => RefInv
<1> SUFFICES ASSUME Init PROVE RefInv  OBVIOUS
<1>1. \A r \in Arrays : \A k \in 0 .. End(r) - 1 : mem[r][k] = Old  BY DEF Init, Bytes, End
<1>2. Fresh /\ Sources  BY <1>1 DEF Fresh, Sources, Arrays
<1>3. Progress  BY DEF Init, Progress
<1> QED  BY <1>2, <1>3, InitInv DEF RefInv

\* At the start of the loop nothing is done.
LEMMA RefEnter ==
    ASSUME RefInv, Enter
    PROVE  RefInv'
<1> USE KernelAssumption
<1>0. IndInv /\ Fresh /\ Types /\ Counts  BY DEF RefInv, IndInv
<1>1. w' = w /\ size' = size /\ mem' = mem /\ loop = "none"  BY DEF Enter
<1>2. \A r \in Arrays : \A k \in 0 .. End(r) - 1 : mem[r][k] = Old  BY <1>0, <1>1 DEF Fresh
<1>3. /\ Kernel' = Kernel /\ Works' = Works /\ First' = First /\ Second' = Second /\ Total' = Total
      /\ \A r : End(r)' = End(r)
  BY <1>1, SameCall
<1>4. Sources'  BY <1>1, <1>2, <1>3 DEF Sources, Arrays
<1>5. Kernel \in Loops /\ w \in Wrappers  BY <1>0, KernelFits DEF Types
<1>6. /\ Kernel # "gray" => loop' = Kernel /\ count' = Passes
      /\ Kernel = "gray" => count' = size /\ loop' = IF size < Lanes THEN "tail" ELSE "gray"
  BY DEF Enter
<1>7. Fresh'  BY <1>5, <1>6 DEF Fresh, Loops
<1>8. Progress'
  <2> SUFFICES ASSUME Works PROVE Progress'  BY <1>3 DEF Progress
  <2>1. x' = [s1 |-> <<First, 0>>, s2 |-> <<Second, 0>>, d |-> <<"d", 0>>]
    BY <1>0, <1>5, EntryPointers, WorkingKernel
  <2>2. Left' = Total
    <3>1. CASE Kernel = "gray"
      <4>1. w.op = "gray"  BY <1>5, <3>1, KernelFits
      <4> QED  BY <1>6, <3>1, <4>1 DEF Left, Total
    <3>2. CASE Kernel # "gray"
      <4>1. w.op # "gray"  BY <1>5, <3>2, KernelFits
      <4>2. loop' \notin {"gray", "tail"}  BY <1>5, <1>6, <3>2 DEF Loops
      <4> QED  BY <1>6, <3>2, <4>1, <4>2 DEF Left, Total
    <3> QED  BY <3>1, <3>2
  <2>3. Total \in Nat
    <3>1. IndInv'  BY <1>0, EnterInv
    <3>2. Runs' /\ Types' /\ Active' /\ Enough'
      BY <1>3, <1>5, <1>6, <3>1 DEF IndInv, Active, Works, Loops
    <3>3. count' >= 1 /\ count' \in Int  BY <3>2 DEF Runs, Types
    <3>4. count' \in Nat  BY <3>3
    <3>5. \A n \in Nat : n * Lanes \in Nat  OBVIOUS
    <3>6. Left' \in Nat  BY <3>4, <3>5 DEF Left
    <3> QED  BY <2>2, <3>6
  <2>4. Done' = 0  BY <1>3, <2>2, <2>3 DEF Done
  <2>5. Kernel \in {"or_3c", "add_3c2"} => count' <= 1
    <3>1. Kernel \in {"or_3c", "add_3c2"} => Passes = 1
      <4>1. size * 1 = size  BY <1>0 DEF Types
      <4> QED  BY <1>5, <4>1, WorkingKernel DEF Passes, Blocks
    <3> QED  BY <1>6, <3>1
  <2>6. /\ Kernel = "gray" => count' % Lanes = 0
        /\ loop' \in {Kernel, "ret"}
    <3>1. CASE Kernel # "gray"  BY <1>6, <3>1
    <3>2. CASE Kernel = "gray"
      <4>1. size % Lanes = 0 /\ size \in Nat  BY <1>0, <1>5, <3>2, WorkingKernel DEF Types
      <4>2. size < Lanes => size = 0  BY <4>1, ModStep
      <4>3. size * PerPixel >= 1 /\ PerPixel = 1  BY <1>5, <3>2, KernelFits DEF Works, Enough
      <4>4. size >= 1  BY <4>1, <4>3
      <4> QED  BY <1>6, <3>2, <4>1, <4>2, <4>4
    <3> QED  BY <3>1, <3>2
  <2>7. \A k \in 0 .. End("d")' - 1 : mem'["d"][k] = Old
    BY <1>1, <1>2, <1>3 DEF Arrays
  <2>8. /\ Body(Kernel).s1 \in Nat /\ Body(Kernel).s2 \in Nat /\ Body(Kernel).d \in Nat
    BY <1>5, BodyTable
  <2>9. /\ Done' * Body(Kernel).s1 = 0 /\ Done' * Body(Kernel).s2 = 0 /\ Done' * Body(Kernel).d = 0
    BY <2>4, <2>8
  <2> QED  BY <1>3, <2>1, <2>4, <2>5, <2>6, <2>7, <2>9 DEF Progress
<1>9. IndInv'  BY <1>0, EnterInv
<1> QED  BY <1>4, <1>7, <1>8, <1>9 DEF RefInv

\* A byte that a pass stores Done lanes into the frame is that of the
\* reference, for operands in either order.
LEMMA ResultIsReference ==
    ASSUME Types, Works, NEW m \in Nat, NEW j \in Nat,
           x.s1 = <<First, m * Body(Kernel).s1>>, x.s2 = <<Second, m * Body(Kernel).s2>>
    PROVE  Result(Body(Kernel), j) = Reference(m * Body(Kernel).d + j)
<1> DEFINE b == Body(Kernel)
           k == m * Body(Kernel).d + j
<1>1. w \in Wrappers  BY DEF Types
<1>2. b.s1 \in {1, 3} /\ b.s2 \in {0, 1, 3} /\ b.d \in {1, 3} /\ PerPixel \in Nat \ {0}
  BY <1>1, KernelFits, BodyTable
<1>u. PerPixel = 1 \/ (b.s1 = 1 /\ b.s2 = 1 /\ b.d = 1)  BY <1>1, WorkingKernel
<1>3. Operands(First, Second, "d") /\ b.op = w.op  BY <1>1, WorkingKernel
<1>4. k \in Nat  BY <1>2
<1>5. Plus(x.s1, (j * b.s1) \div b.d) = <<First, (k * b.s1) \div b.d>>
  BY <1>2, DivShift DEF Plus
<1>6. b.s2 # 0 => Plus(x.s2, (j * b.s2) \div b.d) = <<Second, (k * b.s2) \div b.d>>
  BY <1>2, DivShift DEF Plus
<1>7. (k * Channels(First)) \div Channels("d") = (k * b.s1) \div b.d
  BY <1>2, <1>3, <1>4, <1>u, DivScale DEF Operands
<1>8. b.s2 # 0 => (k * Channels(Second)) \div Channels("d") = (k * b.s2) \div b.d
  BY <1>2, <1>3, <1>4, <1>u, DivScale DEF Operands
<1>9. Channels(Second) = PerPixel * b.s2 /\ (b.s2 = 0 => ~Swapped)
  BY <1>1, <1>3, WorkingKernel DEF Operands
<1>10. Channels(Second) = 0 <=> b.s2 = 0  BY <1>2, <1>9
<1>11. Result(b, j) = [op |-> w.op,
         from |-> {<<First, (k * Channels(First)) \div Channels("d")>>}
                  \cup IF b.s2 = 0 THEN {} ELSE {<<Second, (k * Channels(Second)) \div Channels("d")>>}]
  BY <1>3, <1>5, <1>6, <1>7, <1>8 DEF Result
<1> HIDE DEF b, k
<1>12. CASE ~Swapped
  BY <1>10, <1>11, <1>12 DEF First, Second, Channels, Reference, b, k
<1>13. CASE Swapped
  <2>1. w.ca = 1 /\ w.cb = 3 /\ First = "b" /\ Second = "a" /\ b.s2 # 0
    BY <1>9, <1>13 DEF Swapped, First, Second
  <2>2. Result(b, j) = [op |-> w.op,
          from |-> {<<"b", (k * w.cb) \div w.cd>>} \cup {<<"a", (k * w.ca) \div w.cd>>}]
    BY <1>11, <2>1 DEF Channels
  <2>3. Reference(k) = [op |-> w.op,
          from |-> {<<"a", (k * w.ca) \div w.cd>>} \cup {<<"b", (k * w.cb) \div w.cd>>}]
    <3>1. w.cb # 0  BY <2>1
    <3> QED  BY <3>1 DEF Reference
  <2>4. \A y, z : {y} \cup {z} = {z} \cup {y}  OBVIOUS
  <2> QED  BY <2>2, <2>3, <2>4 DEF b, k
<1> QED  BY <1>12, <1>13

\* A pass of a call that works.
LEMMA RefPass ==
    ASSUME RefInv, Active, NEW b, SameLoop(b), Pass(b, Width, Step), loop # "tail" => b = Body(loop)
    PROVE  RefInv'
<1> USE KernelAssumption
<1>0. IndInv /\ Progress /\ Sources /\ Types /\ Counts /\ w \in Wrappers  BY DEF RefInv, IndInv, Types
<1>1. w' = w /\ size' = size  BY DEF Pass
<1>2. /\ Kernel' = Kernel /\ Works' = Works /\ First' = First /\ Second' = Second /\ Total' = Total
      /\ \A r : End(r)' = End(r)
      /\ \A k : Reference(k)' = Reference(k)
  BY <1>1, SameCall
<1>3. /\ loop' \in Loops \cup {"tail", "ret"} /\ (count' = 0 => loop' = "ret")
      /\ count >= 1 => count' \in Nat /\ Left' = Left - Width
  BY <1>0, PassControl
<1>5. Fresh'  BY <1>3 DEF Fresh, Loops
<1>6. ASSUME Works PROVE Progress' /\ Sources'
  <2> DEFINE K == Body(Kernel)
  <2>0. count >= 1 /\ count >= Step /\ count' \in Nat /\ Left' = Left - Width
    <3>1. count >= 1  BY <1>0, <1>6 DEF IndInv, Runs, Works
    <3> QED  BY <1>0, <1>3, <3>1, PassLeft
  <2>1. loop = Kernel /\ Kernel # "tail"
    BY <1>0, <1>6, KernelFits DEF Progress, Active, Loops
  <2>2. /\ Kernel \in {"or_3c", "add_3c2"} => count <= 1
        /\ Kernel = "gray" => count % Lanes = 0
        /\ x.s1 = <<First, Done * K.s1>> /\ x.s2 = <<Second, Done * K.s2>>
        /\ x.d = <<"d", Done * K.d>> /\ Done \in Nat
        /\ \A k \in 0 .. End("d") - 1 :
              mem["d"][k] = IF k < Done * K.d THEN Reference(k) ELSE Old
    BY <1>0, <1>6, <2>1 DEF Progress, Active, Loops
  <2>3. b = K /\ loop # "wst" /\ Width = Lanes
    BY <1>0, <1>6, <2>1, WorkingKernel DEF Width
  <2>4. K.s1 \in {1, 3} /\ K.s2 \in {0, 1, 3} /\ K.d \in {1, 3}
    BY <1>0, KernelFits, BodyTable
  <2>5. Total \in Int /\ Left \in Nat
    <3>1. Left \in Nat  BY <1>0, <2>0, Extent
    <3>2. size * PerPixel \in Nat /\ size \in Nat  BY <1>0, Extent, KernelFits
    <3>3. Passes = (size * PerPixel) \div Lanes  BY DEF Passes
    <3>4. Passes \in Nat  BY <3>2, <3>3, DivBounds
    <3> QED  BY <3>1, <3>2, <3>4 DEF Total
  <2>6. Done' = Done + Lanes  BY <1>2, <2>0, <2>3, <2>5 DEF Done
  <2>7. /\ x'.s1 = <<First, (Done + Lanes) * K.s1>> /\ x'.s2 = <<Second, (Done + Lanes) * K.s2>>
        /\ x'.d = <<"d", (Done + Lanes) * K.d>>
    <3>1. /\ Done * K.s1 + Lanes * K.s1 = (Done + Lanes) * K.s1
          /\ Done * K.s2 + (Lanes * K.s2 + 0) = (Done + Lanes) * K.s2
          /\ Done * K.d + Lanes * K.d = (Done + Lanes) * K.d
      BY <2>2, <2>4
    <3> QED  BY <2>2, <2>3, <3>1 DEF Pass, Move, Plus
  <2>8. Target(b, Width) = <<"d", Done * K.d>>  BY <2>2, <2>3 DEF Target
  <2>9. \A r \in Arrays : \A k \in 0 .. End(r) - 1 :
          mem'[r][k] = IF r = "d" /\ k \in (Done * K.d) .. (Done * K.d) + (Lanes * K.d) - 1
                       THEN Result(K, k - (Done * K.d)) ELSE mem[r][k]
    BY <1>0, <2>3, <2>8, PassStores
  <2>10. Sources'
    BY <1>0, <1>2, <1>6, <2>9 DEF Sources, Arrays
  <2>11. ASSUME NEW k \in 0 .. End("d") - 1
         PROVE  mem'["d"][k] = IF k < (Done + Lanes) * K.d THEN Reference(k) ELSE Old
    <3>1. Done * K.d \in Nat /\ (Done + Lanes) * K.d = Done * K.d + Lanes * K.d /\ Lanes * K.d \in Nat
      BY <2>2, <2>4
    <3>2. k \in Nat  BY <1>0, Extent DEF Arrays
    <3>3. mem["d"][k] = IF k < Done * K.d THEN Reference(k) ELSE Old  BY <2>2
    <3>4. mem'["d"][k] = IF k \in (Done * K.d) .. (Done * K.d) + (Lanes * K.d) - 1
                         THEN Result(K, k - (Done * K.d)) ELSE mem["d"][k]
      BY <2>9 DEF Arrays
    <3>5. CASE k \in (Done * K.d) .. (Done * K.d) + (Lanes * K.d) - 1
      <4>1. k - (Done * K.d) \in Nat /\ Done * K.d + (k - (Done * K.d)) = k  BY <3>1, <3>2, <3>5
      <4>2. Result(K, k - (Done * K.d)) = Reference(Done * K.d + (k - (Done * K.d)))
        BY <1>0, <1>6, <2>2, <4>1, ResultIsReference
      <4>3. k < (Done + Lanes) * K.d  BY <3>1, <3>2, <3>5
      <4> QED  BY <3>4, <3>5, <4>1, <4>2, <4>3
    <3>6. CASE k < Done * K.d
      <4>1. k < (Done + Lanes) * K.d  BY <3>1, <3>2, <3>6
      <4>2. ~(k \in (Done * K.d) .. (Done * K.d) + (Lanes * K.d) - 1)  BY <3>1, <3>2, <3>6
      <4> QED  BY <3>3, <3>4, <3>6, <4>1, <4>2
    <3>7. CASE k >= (Done + Lanes) * K.d
      <4>1. ~(k < Done * K.d) /\ ~(k < (Done + Lanes) * K.d)  BY <3>1, <3>2, <3>7
      <4>2. ~(k \in (Done * K.d) .. (Done * K.d) + (Lanes * K.d) - 1)  BY <3>1, <3>2, <3>7
      <4> QED  BY <3>3, <3>4, <4>1, <4>2
    <3> QED  BY <3>1, <3>2, <3>5, <3>6, <3>7
  <2>12. /\ loop' \in {Kernel, "ret"}
         /\ Kernel = "gray" => count' % Lanes = 0
         /\ Kernel \in {"or_3c", "add_3c2"} => count' <= 1
    <3>1. CASE Kernel = "gray"
      <4>1. count' = count - Lanes  BY <2>1, <2>3, <3>1 DEF Pass, Step
      <4>2. count \in Nat /\ count >= Lanes  BY <1>0, <2>0, <2>1, <2>3, <3>1, Extent DEF Step
      <4>3. count' % Lanes = 0  BY <2>2, <3>1, <4>1, <4>2, ModStep
      <4>c. count' < Lanes => count' = 0  BY <2>0, <4>3, ModStep
      <4>4. count' # 0 => count' >= Lanes  BY <2>0, <4>c
      <4>5. loop' = After(b, count')  BY <4>1, <2>1, <2>3, <3>1 DEF Pass, Step
      <4> QED  BY <2>1, <3>1, <4>3, <4>4, <4>5 DEF After
    <3>2. CASE Kernel \in {"or_3c", "add_3c2"}
      <4>1. count' = count - 1  BY <2>1, <3>2 DEF Pass, Step
      <4>2. count' = 0  BY <1>0, <2>0, <2>2, <3>2, <4>1, Extent
      <4> QED  BY <1>3, <3>2, <4>2
    <3>3. CASE Kernel \notin {"gray", "or_3c", "add_3c2"}
      <4>1. K.next = Kernel  BY <1>0, <1>6, <3>3, WorkingKernel
      <4> QED  BY <2>1, <2>3, <3>3, <4>1 DEF Pass, After
    <3> QED  BY <3>1, <3>2, <3>3
  <2>13. Done + Lanes \in Nat  BY <2>2
  <2> QED  BY <1>2, <2>6, <2>7, <2>10, <2>11, <2>12, <2>13 DEF Progress
<1>7. IndInv'  BY <1>0, PassInv
<1>8. ~Works => Progress' /\ Sources'  BY <1>2 DEF Progress, Sources
<1> QED  BY <1>5, <1>6, <1>7, <1>8 DEF RefInv

\* Every step keeps what a call has computed.
LEMMA RefNext == RefInv /\ [Next]_vars => RefInv'
<1> SUFFICES ASSUME RefInv, [Next]_vars PROVE RefInv'  OBVIOUS
<1>0. IndInv /\ IndInv' /\ Types  BY NextInv DEF RefInv, IndInv
<1>1. CASE Enter  BY <1>1, RefEnter
<1>2. CASE Block  BY <1>0, <1>2, BlockPass, RefPass
<1>3. CASE Tail
  <2>1. loop = "tail"  BY <1>3 DEF Tail
  <2> QED  BY <1>3, <2>1, TailPass, RefPass
<1>4. CASE Stray
  <2>1. w' = w /\ size' = size /\ mem' = mem /\ loop' = "stray"  BY <1>4 DEF Stray
  <2>2. Works' = Works /\ \A r : End(r)' = End(r)  BY <2>1, SameCall
  <2>3. Progress' /\ Fresh'  BY <2>1 DEF Progress, Fresh
  <2>4. Sources'  BY <2>1, <2>2 DEF RefInv, Sources
  <2> QED  BY <1>0, <2>3, <2>4 DEF RefInv
<1>5. CASE UNCHANGED vars
  <2>1. w' = w /\ size' = size /\ count' = count /\ x' = x /\ mem' = mem /\ loop' = loop  BY <1>5 DEF vars
  <2>2. /\ Kernel' = Kernel /\ Works' = Works /\ First' = First /\ Second' = Second /\ Total' = Total
        /\ \A r : End(r)' = End(r)
        /\ \A k : Reference(k)' = Reference(k)
    BY <2>1, SameCall
  <2>3. Done' = Done  BY <2>1, <2>2 DEF Done, Left
  <2>4. Fresh' /\ Sources'  BY <2>1, <2>2 DEF RefInv, Fresh, Sources
  <2>5. Progress'  BY <2>1, <2>2, <2>3 DEF RefInv, Progress
  <2> QED  BY <1>0, <2>4, <2>5 DEF RefInv
<1> QED  BY <1>1, <1>2, <1>3, <1>4, <1>5 DEF Next

\* The blocks of a call that works: all whole blocks of pixels are done, and
\* nothing behind the last whole block of bytes.
LEMMA TotalBlocks ==
    ASSUME Types, Works
    PROVE  /\ w.cd * (Blocks * Lanes) <= Total * Body(Kernel).d
           /\ w.cd * (Blocks * Lanes) <= End("d")
           /\ Total * Body(Kernel).d <= w.cd * size - ((w.cd * size) % Lanes)
<1> USE KernelAssumption
<1>1. w \in Wrappers /\ size \in Nat  BY Extent DEF Types
<1>2. Channels("d") = w.cd /\ Operands(First, Second, "d")  BY <1>1, WorkingKernel DEF Channels
<1>3. PerPixel \in Nat \ {0} /\ Body(Kernel).d \in {1, 3} /\ w.cd = PerPixel * Body(Kernel).d
  BY <1>1, <1>2, KernelFits, BodyTable DEF Operands
<1>4. w.cd \in Nat  BY <1>1, WorkingKernel
<1>5. /\ w.cd * ((size \div Lanes) * Lanes) <= ((w.cd * size) \div Lanes) * Lanes
      /\ w.cd * size - ((w.cd * size) % Lanes) = ((w.cd * size) \div Lanes) * Lanes
      /\ w.cd * ((size \div Lanes) * Lanes) <= w.cd * size
  BY <1>1, <1>4, WholeBlocks
<1>6. w.cd * (Blocks * Lanes) <= End("d")  BY <1>2, <1>5 DEF Blocks, End
<1>7. CASE w.op = "gray"
  <2>1. Kernel = "gray" /\ w.cd = 1 /\ Body(Kernel).d = 1 /\ size % Lanes = 0
    BY <1>1, <1>7, Kernels, Rows, WorkingKernel DEF Row, Op
  <2>2. Total = size  BY <1>7 DEF Total
  <2>3. 1 * size = size /\ size * 1 = size  BY <1>1
  <2>4. size - (size % Lanes) = size  BY <1>1, <2>1
  <2>5. (size \div Lanes) * Lanes \in Nat /\ (size \div Lanes) * Lanes <= size  BY <1>1, DivBounds
  <2>6. 1 * (Blocks * Lanes) <= size  BY <2>5 DEF Blocks
  <2>7. Total * Body(Kernel).d = size /\ w.cd * size = size  BY <2>1, <2>2, <2>3
  <2> QED  BY <1>1, <1>6, <2>1, <2>4, <2>6, <2>7
<1>8. CASE w.op # "gray"
  <2>1. Total = ((size * PerPixel) \div Lanes) * Lanes  BY <1>8 DEF Total, Passes
  <2>2. CASE PerPixel = 1
    <3>1. size * 1 = size /\ w.cd = Body(Kernel).d  BY <1>1, <1>3, <2>2
    <3>2. Total = (size \div Lanes) * Lanes /\ Total \in Nat  BY <1>1, <2>1, <2>2, <3>1, DivBounds
    <3>3. Total * w.cd = w.cd * Total  BY <1>4, <3>2
    <3> QED  BY <1>5, <1>6, <3>1, <3>2, <3>3, <1>1, <1>4 DEF Blocks
  <2>3. CASE PerPixel # 1
    <3>1. w.cd = PerPixel /\ Body(Kernel).d = 1  BY <1>1, <1>3, <2>3, WorkingKernel
    <3>2. size * PerPixel = w.cd * size /\ w.cd * size \in Nat  BY <1>1, <1>3, <3>1
    <3>3. Total = ((w.cd * size) \div Lanes) * Lanes /\ Total \in Nat
      BY <2>1, <3>2, DivBounds
    <3>4. Total * 1 = Total  BY <3>3
    <3>5. Total = w.cd * size - ((w.cd * size) % Lanes)  BY <1>5, <3>3
    <3>6. w.cd * ((size \div Lanes) * Lanes) <= Total  BY <1>5, <3>3
    <3> QED  BY <1>6, <3>1, <3>3, <3>4, <3>5, <3>6 DEF Blocks
  <2> QED  BY <2>2, <2>3
<1> QED  BY <1>7, <1>8

\* A kernel whose call works returns with every byte of a whole block made from
\* the bytes of its own pixel, the rest of the result untouched and no source
\* written, for any number of lanes, any size, either order of the operands and
\* any number of channels.
THEOREM Computes == Spec => []ComputesReference
<1>1. RefInv => ComputesReference
  <2> SUFFICES ASSUME RefInv, loop = "ret", Works PROVE ComputesReference  BY DEF ComputesReference
  <2>1. Types /\ Counts /\ Progress /\ Sources  BY DEF RefInv, IndInv
  <2>2. Total \in Int /\ Done = Total
    <3>1. Left = 0 * Lanes  BY <2>1 DEF Counts, Left
    <3>2. Done \in Nat  BY <2>1 DEF Progress
    <3>3. size \in Nat /\ size * PerPixel \in Nat /\ Passes = (size * PerPixel) \div Lanes
      BY <2>1, Extent, KernelFits DEF Types, Passes
    <3>4. Passes \in Nat  BY <3>3, KernelAssumption, DivBounds
    <3>5. Total \in Int  BY <3>3, <3>4, KernelAssumption DEF Total
    <3> QED  BY <3>1, <3>5, KernelAssumption DEF Done
  <2>3. \A k \in 0 .. End("d") - 1 :
          mem["d"][k] = IF k < Total * Body(Kernel).d THEN Reference(k) ELSE Old
    BY <2>1, <2>2 DEF Progress
  <2>4. DOMAIN mem["d"] = 0 .. End("d") - 1 /\ End("d") \in Nat  BY <2>1, Extent DEF Arrays
  <2>5. /\ w.cd * (Blocks * Lanes) <= Total * Body(Kernel).d
        /\ w.cd * (Blocks * Lanes) <= End("d")
        /\ Total * Body(Kernel).d <= w.cd * size - ((w.cd * size) % Lanes)
    BY <2>1, TotalBlocks
  <2>6. /\ w.cd * (Blocks * Lanes) \in Int /\ Total * Body(Kernel).d \in Int
        /\ w.cd * size - ((w.cd * size) % Lanes) \in Int
    <3>1. w \in Wrappers /\ size \in Nat  BY <2>1, Extent DEF Types
    <3>2. w.cd \in Nat  BY <3>1, WorkingKernel
    <3>3. Body(Kernel).d \in {1, 3}  BY <3>1, KernelFits, BodyTable
    <3>4. Blocks \in Nat  BY <3>1, KernelAssumption, DivBounds DEF Blocks
    <3>5. w.cd * size \in Nat  BY <3>1, <3>2
    <3> QED  BY <2>2, <3>2, <3>3, <3>4, <3>5, KernelAssumption
  <2>7. \A k \in Bytes(w.cd, Blocks * Lanes) : mem["d"][k] = Reference(k)
    <3> SUFFICES ASSUME NEW k \in 0 .. (w.cd * (Blocks * Lanes)) - 1 PROVE mem["d"][k] = Reference(k)
      BY DEF Bytes
    <3>1. k \in 0 .. End("d") - 1 /\ k < Total * Body(Kernel).d  BY <2>4, <2>5, <2>6
    <3> QED  BY <2>3, <3>1
  <2>8. ASSUME NEW k \in DOMAIN mem["d"], k >= w.cd * size - ((w.cd * size) % Lanes)
        PROVE  mem["d"][k] = Old
    <3>1. k \in 0 .. End("d") - 1  BY <2>4, <2>8
    <3>2. ~(k < Total * Body(Kernel).d)  BY <2>5, <2>6, <2>8, <3>1, <2>4
    <3> QED  BY <2>3, <3>1, <3>2
  <2>9. \A r \in {"a", "b"} : \A k \in DOMAIN mem[r] : mem[r][k] = Old
    BY <2>1, Extent DEF Sources, Arrays
  <2> QED  BY <2>7, <2>8, <2>9 DEF ComputesReference
<1>2. Spec => []RefInv  BY RefInit, RefNext, PTL DEF Spec
<1> QED  BY <1>1, <1>2, PTL
=============================================================================
