------------------------------- MODULE CacheCodec -------------------------------
(***************************************************************************)
(* The compression pipeline of src/src/fpga_engine/cache_engine.cpp:      *)
(* compress = scale, quantise to int8, delta-encode, run-length encode;    *)
(* decompress runs the inverse stages.  The stages are pure operators; the *)
(* engine's own state is its statistics, and the caller's last input,      *)
(* compressed record and output are kept so that properties can relate    *)
(* them.  A float is an exact rational <<num, den>> with den > 0: the      *)
(* inputs are small integers, and no property depends on float rounding.   *)
(* The engine's direct-mapped TLB (translate_address, under tlb_mutex_) is *)
(* modelled with addresses scaled down: a page of PageSize bytes, a 48-bit *)
(* mask of AddrMod, and the page walk's base PhysBase.                     *)
(***************************************************************************)
EXTENDS Integers, Sequences, SequencesExt

CONSTANTS
    Vals,       \* the input floats, as integers
    MaxLen,     \* longest input vector
    RunCap,     \* the literal 255: the largest count one RLE pair holds
    MaxStat,    \* bound on the statistics counters, for TLC
    PageSize,   \* the 4 KiB page of the TLB (0x1000)
    TlbSize,    \* tlb_size_ (1024)
    AddrMod,    \* 2^48: the mask 0xFFFFFFFFFFFF of the simplified walk
    PhysBase,   \* 0x4000000000, a multiple of PageSize
    VAddrs      \* virtual addresses passed to translate_address

ASSUME PhysBase % PageSize = 0 /\ AddrMod % PageSize = 0

VARIABLES
    data,       \* the caller's last kv_data
    comp,       \* the CompressedData compress returned for it
    out,        \* what decompress returned for comp
    phase,      \* which of the caller's calls have happened
    stats,      \* stats_: counters and whether the average ratio is NaN
    tlb,        \* tlb_: slot -> [valid, vpage, ppage]
    translated  \* the caller's last <<va, pa>> from translate_address

vars == <<data, comp, out, phase, stats, tlb, translated>>
codecVars == <<data, comp, out, phase, stats>>

-----------------------------------------------------------------------------
(* Arithmetic of the C++ types                                             *)

Abs(x) == IF x < 0 THEN -x ELSE x

\* static_cast<int8_t> of an int: the value modulo 2^8 in [-128, 127].  The
\* float-to-int8 cast of quantize_to_int8 is undefined out of range; the
\* x86-64 build converts to a 32-bit int and keeps its low byte, which is
\* this same wrap for the magnitudes here.
Int8(v) == ((v + 128) % 256) - 128

ByteUncast(v) == v

\* static_cast<uint8_t> and back: the byte of an int8 and its value.
Byte(v) == v % 256
Signed(b) == IF b >= 128 THEN b - 256 ELSE b

\* std::round of num / den: halves round away from zero.
Round(num, den) ==
    IF num >= 0 THEN (2 * num + den) \div (2 * den)
                ELSE -((2 * (-num) + den) \div (2 * den))

-----------------------------------------------------------------------------
(* The stages                                                              *)

\* The loop of compute_scale_factor: the largest |x|, 0 for no element.
MaxAbs(xs) ==
    IF xs = <<>> THEN 0
    ELSE Abs(xs[CHOOSE i \in DOMAIN xs : \A j \in DOMAIN xs : Abs(xs[j]) <= Abs(xs[i])])

\* compute_scale_factor: max|x| / 127, or 1 when every element is 0.
ScaleFactor(xs) ==
    IF MaxAbs(xs) > 0 THEN <<MaxAbs(xs), 127>> ELSE <<1, 1>>

\* quantize_to_int8: round(x / s * 127) cast to int8, then clamped to
\* [-128, 127] as an int, which changes nothing after the cast.
Quantize(xs, s) ==
    [i \in DOMAIN xs |-> Int8(Round(xs[i] * s[2] * 127, s[1]))]

DeltaEncode(q) ==
    [i \in DOMAIN q |-> IF i = 1 THEN q[1] ELSE Int8(q[i] - q[i - 1])]

ContinuesOverCap(x, v, n) == x = v /\ n <= RunCap

\* data[i] == current_val && count < 255: the run goes on.
Continues(x, v, n) == x = v /\ n < RunCap

\* static_cast<uint8_t>(count): the count byte, modulo RunCap + 1.
CountByte(n) == n % (RunCap + 1)

\* run_length_encode: the loop keeps the current value and its count; a
\* run that does not go on emits [value][count], and so does the end.
RECURSIVE Runs(_, _, _)
Runs(d, v, n) ==
    IF d = <<>> THEN <<Byte(v), CountByte(n)>>
    ELSE IF Continues(Head(d), v, n) THEN Runs(Tail(d), v, n + 1)
    ELSE <<Byte(v), CountByte(n)>> \o Runs(Tail(d), Head(d), 1)

RunLengthEncode(d) == IF d = <<>> THEN <<>> ELSE Runs(Tail(d), d[1], 1)

\* run_length_decode: each [value][count] pair expands to count copies; a
\* trailing odd byte is dropped.
RECURSIVE RunLengthDecode(_)
RunLengthDecode(r) ==
    IF Len(r) < 2 THEN <<>>
    ELSE [j \in 1 .. r[2] |-> Signed(r[1])] \o RunLengthDecode(SubSeq(r, 3, Len(r)))

DeltaDecodeFromDelta(d) ==
    [i \in DOMAIN d |-> IF i = 1 THEN d[1] ELSE Int8(d[i - 1] + d[i])]

\* delta_decode: a running int8 sum.
DeltaDecode(d) ==
    LET f[i \in 0 .. Len(d)] == IF i = 0 THEN 0
                               ELSE IF i = 1 THEN d[1]
                               ELSE Int8(f[i - 1] + d[i])
    IN  [i \in DOMAIN d |-> f[i]]

\* dequantize_from_int8: q / 127 * scale.
Dequantize(q, s) == [i \in DOMAIN q |-> <<q[i] * s[1], 127 * s[2]>>]

-----------------------------------------------------------------------------
(* compress, decompress, reset_statistics                                  *)

CompressOf(xs) ==
    LET s   == ScaleFactor(xs)
        rle == RunLengthEncode(DeltaEncode(Quantize(xs, s)))
    IN  [scale |-> s, rle |-> rle, original |-> 4 * Len(xs), size |-> Len(rle)]

DecompressOf(c) == Dequantize(DeltaDecode(RunLengthDecode(c.rle)), c.scale)

Init ==
    /\ data = <<>> /\ comp = CompressOf(<<>>) /\ out = <<>>
    /\ phase = "none"
    /\ stats = [compressions |-> 0, decompressions |-> 0, ratioNaN |-> FALSE]
    /\ tlb = [i \in 0 .. TlbSize - 1 |-> [valid |-> FALSE, vpage |-> 0, ppage |-> 0]]
    /\ translated = <<>>

\* The caller starts a new compress/decompress pair and drops the output of
\* the last one.  The statistics block: ratio = original / compressed, a 0/0 NaN for an
\* empty input, and a NaN average stays NaN.
Compress(xs) ==
    /\ stats.compressions < MaxStat
    /\ data' = xs
    /\ comp' = CompressOf(xs)
    /\ stats' = [stats EXCEPT !.compressions = @ + 1,
                              !.ratioNaN = @ \/ comp'.size = 0]
    /\ phase' = "compressed"
    /\ out' = <<>>
    /\ UNCHANGED <<tlb, translated>>

Decompress ==
    /\ phase = "compressed"
    /\ stats.decompressions < MaxStat
    /\ out' = DecompressOf(comp)
    /\ stats' = [stats EXCEPT !.decompressions = @ + 1]
    /\ phase' = "decompressed"
    /\ UNCHANGED <<data, comp>>
    /\ UNCHANGED <<tlb, translated>>

ResetStatistics ==
    /\ stats' = [compressions |-> 0, decompressions |-> 0, ratioNaN |-> FALSE]
    /\ UNCHANGED <<data, comp, out, phase>>
    /\ UNCHANGED <<tlb, translated>>

-----------------------------------------------------------------------------
(* translate_address                                                       *)

\* va & ~0xFFF
PageOf(va) == va - (va % PageSize)

\* The simplified page walk of the miss path: 0x4000000000 + (va & mask).
Walk(va) == PhysBase + (va % AddrMod)

\* (va >> 12) % tlb_size_
TlbIndex(va) == (va \div PageSize) % TlbSize

TlbHitIndexOnly(e, va) == e.valid

\* entry.valid && entry.virtual_addr == (va & ~0xFFF)
TlbHit(e, va) == e.valid /\ e.vpage = PageOf(va)

\* A hit returns the cached page plus the offset; a miss walks, fills the
\* slot (evicting whatever was there) and returns the walked address.
TranslateAddress(va) ==
    /\ LET e == tlb[TlbIndex(va)]
       IN  IF TlbHit(e, va)
              THEN /\ translated' = <<va, e.ppage + (va % PageSize)>>
                   /\ UNCHANGED tlb
              ELSE /\ translated' = <<va, Walk(va)>>
                   /\ tlb' = [tlb EXCEPT ![TlbIndex(va)] =
                                 [valid |-> TRUE, vpage |-> PageOf(va),
                                  ppage |-> PageOf(Walk(va))]]
    /\ UNCHANGED codecVars

Next ==
    \/ \E xs \in BoundedSeq(Vals, MaxLen) : Compress(xs)
    \/ Decompress
    \/ ResetStatistics
    \/ \E va \in VAddrs : TranslateAddress(va)

Spec == Init /\ [][Next]_vars

-----------------------------------------------------------------------------
(* Properties                                                              *)

TypeOK ==
    /\ data \in BoundedSeq(Vals, MaxLen)
    /\ \A i \in DOMAIN comp.rle : comp.rle[i] \in 0 .. 255
    /\ phase \in {"none", "compressed", "decompressed"}
    /\ stats.compressions \in 0 .. MaxStat
    /\ stats.decompressions \in 0 .. MaxStat
    /\ \A i \in DOMAIN tlb : tlb[i].valid \in BOOLEAN

\* The stages after quantisation lose nothing (spec.md §8: rld(rle(s)) = s
\* and delta_decode(delta_encode(s)) = s with wrap-around): decompress of a
\* compressed vector gives back, element for element, the dequantised
\* int8 values compress computed, whatever runs and wraps they contain.
LosslessAfterQuantize ==
    phase = "decompressed" =>
        out = Dequantize(Quantize(data, comp.scale), comp.scale)

\* The RLE byte stream is a sequence of [value][count] pairs with counts in
\* 1 .. 255, and consecutive pairs below the cap never repeat a value, so
\* the stream is the shortest run encoding of the delta stream.
RleStreamCanonical ==
    /\ Len(comp.rle) % 2 = 0
    /\ \A k \in 1 .. Len(comp.rle) \div 2 :
          /\ comp.rle[2 * k] \in 1 .. RunCap
          /\ k > 1 /\ comp.rle[2 * k - 1] = comp.rle[2 * k - 3]
                => comp.rle[2 * k - 2] = RunCap

\* spec.md section 8 and scenario 3: decompress(compress(x)) has the length
\* of x and every element within max|x| / 127 of the input.  An output
\* element is the rational n / d, so |x - n / d| <= m / 127 is compared as
\* 127 * |x * d - n| <= m * d.
ErrorBound ==
    phase = "decompressed" =>
        LET m == MaxAbs(data)
        IN  /\ Len(out) = Len(data)
            /\ \A i \in DOMAIN out :
                  127 * Abs(data[i] * out[i][2] - out[i][1]) <= m * out[i][2]

\* spec.md 4.A: whatever hits, misses, index collisions and aliased pages
\* came before, translate_address returns the page walk's address for va,
\* and every valid TLB slot holds the walk of its own tag at its own index.
TranslationMatchesWalk ==
    /\ translated # <<>> => translated[2] = Walk(translated[1])
    /\ \A i \in DOMAIN tlb :
          tlb[i].valid => /\ TlbIndex(tlb[i].vpage) = i
                          /\ tlb[i].ppage = PageOf(Walk(tlb[i].vpage))

=============================================================================
