----------------------------- MODULE NeonKernels -----------------------------
(***************************************************************************)
(* The assembly loops over frames (core/neon64.S) and the wrappers that    *)
(* choose them (core/neon.h).                                              *)
(*                                                                         *)
(* What matters here is which byte is read, which is written, and when a   *)
(* loop ends.  The arithmetic of a lane is not interpreted: a byte of the  *)
(* result is recorded as the operation and the operands it was made from,  *)
(* a pixel of a three-channel frame by its first byte.  The second operand *)
(* stands for all further single-channel frames of a kernel.  Lanes is the *)
(* number of bytes of a register, 16 in the code.  Frames are continuous.  *)
(***************************************************************************)
EXTENDS Integers

CONSTANTS
    Lanes,
    MaxSize,                \* bounds the pixels of a frame
    MaxChannels, MaxDepth   \* and of a frame of any type, the channels and their bytes

ASSUME KernelAssumption ==
    Lanes \in Nat \ {0} /\ MaxSize \in Nat /\ MaxChannels \in Nat /\ MaxDepth \in Nat

\* The loops: bytes per lane they read of each source (0: no source) and
\* write, and the loop that the branch at their end goes to.
Body(l) ==
    LET B(s1, s2, d, op, next) == [s1 |-> s1, s2 |-> s2, d |-> d, op |-> op, next |-> next] IN
    CASE l = "thresh"     -> B(1, 0, 1, "threshold", "thresh")
      [] l = "thresh_bin" -> B(1, 0, 1, "binary", "thresh_bin")
      [] l = "cmp3_add"   -> B(1, 1, 1, "cmp3", "cmp3_add")
      [] l = "wst"        -> B(1, 1, 1, "wst", "wst")
      [] l = "wstb"       -> B(3, 0, 1, "wstb", "wstb")
      [] l = "gray"       -> B(3, 0, 1, "gray", "gray")
      [] l = "or"         -> B(1, 1, 1, "or", "or")
      [] l = "or_3c"      -> B(3, 1, 3, "or", "or")           \* not or_3c
      [] l = "add"        -> B(1, 1, 1, "add", "add")
      [] l = "add_3c"     -> B(3, 1, 3, "add", "add_3c")
      [] l = "add_3c2"    -> B(3, 3, 3, "add", "add_3c")      \* not add_3c2
      [] l = "subtract"   -> B(1, 1, 1, "sub", "subtract")

\* A call of a wrapper: operation, bytes per pixel of its operands (0: none)
\* and of the result, channels of the first operand.
Op(op, ca, cb, cd) == [op |-> op, ca |-> ca, cb |-> cb, cd |-> cd, ch |-> ca]

\* neon_bitwise_or of frames of one type: n channels of d bytes each.
OrOf(n, d) == [Op("or", n * d, n * d, n * d) EXCEPT !.ch = n]

\* The calls that CV_Assert lets through.  neon_bitwise_or takes three frames of
\* any type they share; neon_subtract compares the type of its result with
\* itself, so the result has any type.
Wrappers ==
    {Op("threshold", 1, 0, 1), Op("binary", 1, 0, 1), Op("cmp3", 1, 1, 1), Op("wst", 1, 1, 1),
     Op("wstb", 3, 0, 1), Op("gray", 3, 0, 1), Op("or", 3, 1, 3), Op("or", 1, 3, 3),
     Op("add", 1, 1, 1), Op("add", 3, 3, 3), Op("add", 3, 1, 3), Op("add", 1, 3, 3)}
    \cup {OrOf(n, d) : n \in 1 .. MaxChannels, d \in 1 .. MaxDepth}
    \cup {Op("sub", 1, 1, n * d) : n \in 1 .. MaxChannels, d \in 1 .. MaxDepth}

VARIABLES
    w, size,   \* the wrapper that was called and the pixels of its frames
    loop,      \* the loop that runs; "tail" (togray), "ret", "stray", "none"
    count,     \* the count register; below zero: it has wrapped
    x,         \* x.s1, x.s2, x.d: array and byte the registers point at
    mem        \* mem[array][byte]: what was written there

vars == <<w, size, loop, count, x, mem>>

Arrays == {"a", "b", "d"}
Old == [op |-> "old", from |-> {}]
Bytes(c, n) == 0 .. (c * n) - 1
Channels(r) == IF r = "a" THEN w.ca ELSE IF r = "b" THEN w.cb ELSE w.cd

Init ==
    /\ w \in Wrappers
    /\ size \in 0 .. MaxSize
    /\ loop = "none" /\ count = 0
    /\ x = [s1 |-> <<"a", 0>>, s2 |-> <<"b", 0>>, d |-> <<"d", 0>>]
    /\ mem = [r \in Arrays |-> [k \in Bytes(Channels(r), size) |-> Old]]

-----------------------------------------------------------------------------
(* The wrappers.                                                           *)

\* The single-channel frame of a mixed pair is passed second.
Swapped == w.ca = 1 /\ w.cb = 3

\* Mutant: neon_bitwise_or passes the area only.
BytewisePixels == w.op = "or" /\ w.ca = w.cb /\ w.ca = 1
\* neon_bitwise_or treats two frames of the same type as bytes,
Bytewise == w.op = "or" /\ w.ca = w.cb

\* and counts one for every channel of a pixel, however many bytes it has.
PerPixel == IF Bytewise THEN w.ch ELSE 1

Kernel ==
    CASE w.op = "threshold" -> "thresh"
      [] w.op = "binary"    -> "thresh_bin"
      [] w.op = "cmp3"      -> "cmp3_add"
      [] w.op = "sub"       -> "subtract"
      [] w.op = "or"        -> IF w.ca = w.cb THEN "or" ELSE "or_3c"
      [] w.op = "add"       -> IF w.ca # w.cb THEN "add_3c" ELSE IF w.ca = 3 THEN "add_3c2" ELSE "add"
      [] OTHER              -> w.op

\* Mutant: the number of passes is rounded up.
PassesUp == (size * PerPixel + Lanes - 1) \div Lanes
Passes == (size * PerPixel) \div Lanes

\* The kernels shift the size right, without a test for zero; togray counts
\* pixels and starts with single ones if there are too few.  threshold_binary
\* takes its first two arguments the other way round.
Enter ==
    /\ loop = "none"
    /\ loop' = IF Kernel = "gray" /\ size < Lanes THEN "tail" ELSE Kernel
    /\ count' = IF Kernel = "gray" THEN size ELSE Passes
    /\ x' = CASE Swapped              -> [s1 |-> <<"b", 0>>, s2 |-> <<"a", 0>>, d |-> x.d]
              [] Kernel = "thresh_bin" -> [s1 |-> <<"d", 0>>, s2 |-> x.s2, d |-> <<"a", 0>>]
              [] OTHER                -> x
    /\ UNCHANGED <<w, size, mem>>

-----------------------------------------------------------------------------
(* One pass of a loop over n lanes.                                        *)

Plus(p, n) == <<p[1], p[2] + n>>
Inside(p, n) == \A k \in 0 .. n - 1 : p[2] + k \in DOMAIN mem[p[1]]

\* memcpy_wst_asm stores through the pointer to its second operand, which has
\* already moved on.
Target(b, n) == IF loop = "wst" THEN Plus(x.s2, n * b.s2) ELSE x.d

Accesses(b, n) ==
    /\ Inside(x.s1, n * b.s1)
    /\ Inside(x.s2, n * b.s2)
    /\ Inside(Target(b, n), n * b.d)

\* Mutant: ld3 is taken for a load of single bytes.
ResultInterleaved(b, k) ==
    [op |-> b.op,
     from |-> {Plus(x.s1, k * b.s1)} \cup IF b.s2 = 0 THEN {} ELSE {Plus(x.s2, k * b.s2)}]

\* Byte k of the result of a pass, relative to the pointers.
Result(b, k) ==
    [op |-> b.op,
     from |-> {Plus(x.s1, (k * b.s1) \div b.d)}
              \cup IF b.s2 = 0 THEN {} ELSE {Plus(x.s2, (k * b.s2) \div b.d)}]

Store(b, n) ==
    LET t == Target(b, n) IN
    mem' = [mem EXCEPT ![t[1]] =
              [k \in DOMAIN @ |-> IF k \in t[2] .. t[2] + (n * b.d) - 1 THEN Result(b, k - t[2]) ELSE @[k]]]

Move(b, n) ==
    x' = [s1 |-> Plus(x.s1, n * b.s1),
          s2 |-> Plus(x.s2, n * b.s2 + IF loop = "wst" THEN n ELSE 0),
          d  |-> IF loop = "wst" THEN x.d ELSE Plus(x.d, n * b.d)]

\* subs, bne; togray goes on with single pixels when a block is too large.
After(b, left) ==
    IF loop \in {"gray", "tail"}
    THEN IF left = 0 THEN "ret" ELSE IF left >= Lanes THEN "gray" ELSE "tail"
    ELSE IF left = 0 THEN "ret" ELSE b.next

Pass(b, n, step) ==
    /\ Accesses(b, n)
    /\ Store(b, n)
    /\ Move(b, n)
    /\ count' = count - step
    /\ loop' = After(b, count - step)
    /\ UNCHANGED <<w, size>>

Block == loop \notin {"none", "tail", "ret", "stray"} /\ Pass(Body(loop), Lanes, IF loop = "gray" THEN Lanes ELSE 1)

\* _togray_single stores v2, the last channel's share, not the sum in v3.
Tail == loop = "tail" /\ Pass([Body("gray") EXCEPT !.op = "share"], 1, 1)

\* An access outside a frame; what follows is undefined.  A count of zero, from
\* fewer pixels than lanes, wraps, and the loop goes on until it gets here:
\* with the first pass, unless the frames have more bytes than were counted.
Stray ==
    /\ loop \notin {"none", "ret", "stray"}
    /\ ~(IF loop = "tail" THEN Accesses(Body("gray"), 1) ELSE Accesses(Body(loop), Lanes))
    /\ loop' = "stray"
    /\ UNCHANGED <<w, size, count, x, mem>>

Next == Enter \/ Block \/ Tail \/ Stray

Spec == Init /\ [][Next]_vars

-----------------------------------------------------------------------------
(* Properties.                                                             *)

\* Every variable has its type.
TypeOK ==
    /\ w \in Wrappers /\ size \in 0 .. MaxSize
    /\ count \in Int /\ count <= size * PerPixel
    /\ x \in [s1 : Arrays \X Nat, s2 : Arrays \X Nat, d : Arrays \X Nat]
    /\ \A r \in Arrays : \A k \in DOMAIN mem[r] :
          \A f \in mem[r][k].from : f[1] \in Arrays /\ f[2] \in DOMAIN mem[f[1]]

\* What the callers of the kernels have to see to: as many pixels as lanes, or
\* channels, where these are counted; for togray one pixel.  Nothing helps wst.
Enough == w.op # "wst" /\ size * PerPixel >= (IF w.op = "gray" THEN 1 ELSE Lanes)

\* Then no kernel leaves its frames, whatever the types CV_Assert lets through,
\* nor do the two kernels that go on in the loop of another one.
StaysInside == Enough => loop # "stray"

\* The byte-by-byte meaning of an operation.
Reference(k) ==
    [op |-> w.op,
     from |-> {<<"a", (k * w.ca) \div w.cd>>}
              \cup IF w.cb = 0 THEN {} ELSE {<<"b", (k * w.cb) \div w.cd>>}]

Blocks == size \div Lanes

\* The calls whose kernel goes over the bytes it should: not wst and
\* threshold_binary, which mix up their arguments, neon_subtract and
\* neon_bitwise_or only with one byte for each they count, three-channel loops
\* that change into another one only if they have a single pass, togray only if
\* no pixel is left over.
Works ==
    /\ Enough
    /\ w.op # "binary"
    /\ w.op = "sub" => w.cd = 1
    /\ Bytewise => w.ca = w.ch
    /\ w.op = "or" /\ w.ca # w.cb => Blocks = 1
    /\ w.op = "add" /\ w.ca = 3 /\ w.cb = 3 => Blocks = 1
    /\ w.op = "gray" => size % Lanes = 0

\* Such a call combines, for every pixel of a whole block, the bytes that belong
\* together, whatever the order of its operands and their channels; less than a
\* block at the end of the frame keeps its old contents, and no source is
\* written.  What a lane computes is not looked at (neon64.S itself calls
\* compare3_add "a bit broken?").
ComputesReference ==
    loop = "ret" /\ Works =>
        /\ \A k \in Bytes(w.cd, Blocks * Lanes) : mem["d"][k] = Reference(k)
        /\ \A k \in DOMAIN mem["d"] :
              k >= w.cd * size - ((w.cd * size) % Lanes) => mem["d"][k] = Old
        /\ \A r \in {"a", "b"} : \A k \in DOMAIN mem[r] : mem[r][k] = Old
=============================================================================
