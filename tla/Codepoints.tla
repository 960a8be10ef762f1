----------------------------- MODULE Codepoints -----------------------------
(* Codepoint ranges and UTF-8 bytes as the grammar engine handles them      *)
(* (grammar.rs): decoding a byte sequence that may end inside a character,  *)
(* the codepoints such an ending can still become, and the algebra of       *)
(* range lists the regex compiler builds its character classes with.        *)
(* A range is <<lo, hi>>; a range list is a sequence of ranges.             *)
EXTENDS Integers, Sequences, FiniteSets, SequencesExt, FiniteSetsExt

SurLo == 55296         \* U+D800
SurHi == 57343         \* U+DFFF
MaxCp == 1114111       \* U+10FFFF

InRanges(cp, ranges) == \E i \in DOMAIN ranges : ranges[i][1] <= cp /\ cp <= ranges[i][2]

-----------------------------------------------------------------------------
(* The sequence length a lead byte announces, and the range its first       *)
(* continuation byte must be in; length 0 for a byte that starts nothing.   *)
Lead(b) ==
    IF b < 128 THEN [len |-> 1, bits |-> b, lo |-> 0, hi |-> 0]
    ELSE IF b \in 194..223 THEN [len |-> 2, bits |-> b - 192, lo |-> 128, hi |-> 191]
    ELSE IF b = 224 THEN [len |-> 3, bits |-> 0, lo |-> 160, hi |-> 191]
    ELSE IF b = 237 THEN [len |-> 3, bits |-> 13, lo |-> 128, hi |-> 159]
    ELSE IF b \in 225..239 THEN [len |-> 3, bits |-> b - 224, lo |-> 128, hi |-> 191]
    ELSE IF b = 240 THEN [len |-> 4, bits |-> 0, lo |-> 144, hi |-> 191]
    ELSE IF b \in 241..243 THEN [len |-> 4, bits |-> b - 240, lo |-> 128, hi |-> 191]
    ELSE IF b = 244 THEN [len |-> 4, bits |-> 4, lo |-> 128, hi |-> 143]
    ELSE [len |-> 0, bits |-> 0, lo |-> 0, hi |-> 0]

(* The continuation bytes present after the lead are ones it allows. *)
Continues(bytes) ==
    \A i \in 2..Len(bytes) :
        bytes[i] \in IF i = 2 THEN Lead(bytes[1]).lo..Lead(bytes[1]).hi ELSE 128..191

Payload(bytes) ==
    FoldLeftDomain(LAMBDA v, i : IF i = 1 THEN Lead(bytes[1]).bits ELSE v * 64 + (bytes[i] - 128),
                   0, bytes)

(* One step of decoding: a codepoint and its length, a valid but incomplete *)
(* ending, or an invalid byte.                                              *)
decode_at(bytes) ==
    LET Char(l, c) == IF l = 0 \/ ~Continues(c) THEN [k |-> "Invalid"]
                      ELSE IF Len(c) < l THEN [k |-> "Incomplete"]
                      ELSE [k |-> "Cp", cp |-> Payload(c), n |-> l]
        Of(l) == Char(l, SubSeq(bytes, 1, IF l < Len(bytes) THEN l ELSE Len(bytes)))
    IN  Of(Lead(bytes[1]).len)

(* Mutant of completion_range: the first continuation byte is unconstrained *)
(* whatever the lead is.                                                    *)
completion_rangeOverlong(partial) ==
    LET free == 64 ^ (Lead(partial[1]).len - Len(partial))
    IN  IF Lead(partial[1]).len <= Len(partial) \/ ~Continues(partial) THEN <<>>
        ELSE <<<<Payload(partial) * free, Payload(partial) * free + free - 1>>>>

(* The codepoints an incomplete character can still become: one range, or   *)
(* <<>> when the bytes are not the start of a character.                    *)
completion_range(partial) ==
    LET Span(lo, hi, unit) == <<<<lo * unit, hi * unit + unit - 1>>>>
        Of(l, v) == IF Len(partial) = 1
                    THEN Span(v * 64 + (l.lo - 128), v * 64 + (l.hi - 128), 64 ^ (l.len - 2))
                    ELSE Span(v, v, 64 ^ (l.len - Len(partial)))
        From(l) == IF l.len < 2 \/ Len(partial) >= l.len \/ ~Continues(partial) THEN <<>>
                   ELSE Of(l, Payload(partial))
    IN  From(Lead(partial[1]))

-----------------------------------------------------------------------------
non_surrogate_parts(lo, hi) ==
    IF hi < SurLo \/ lo > SurHi THEN <<<<lo, hi>>>>
    ELSE (IF lo < SurLo THEN <<<<lo, SurLo - 1>>>> ELSE <<>>)
         \o (IF hi > SurHi THEN <<<<SurHi + 1, hi>>>> ELSE <<>>)

(* The elements of a set, in some order. *)
Listed(S) == FoldSet(LAMBDA x, list : Append(list, x), <<>>, S)

Ascending(ranges) ==
    SortSeq(ranges, LAMBDA a, b : a[1] < b[1] \/ (a[1] = b[1] /\ a[2] < b[2]))

(* Sorted, with overlapping and adjacent ranges merged. *)
merge_ranges(ranges) ==
    FoldLeft(LAMBDA out, r :
               IF out # <<>> /\ r[1] <= Last(out)[2] + 1
               THEN Front(out) \o <<<<Last(out)[1], Max({Last(out)[2], r[2]})>>>>
               ELSE Append(out, r),
             <<>>, Ascending(ranges))

(* Does the union of the ascending ranges cover lo..hi?  The scan keeps the *)
(* first codepoint not yet covered, or a verdict.                           *)
covers(ranges, lo, hi) ==
    FoldLeft(LAMBDA s, r :
               IF s.done \/ r[2] < s.next THEN s
               ELSE IF r[1] > s.next THEN [next |-> s.next, done |-> TRUE, yes |-> FALSE]
               ELSE IF r[2] >= hi THEN [next |-> s.next, done |-> TRUE, yes |-> TRUE]
               ELSE [next |-> r[2] + 1, done |-> FALSE, yes |-> FALSE],
             [next |-> lo, done |-> FALSE, yes |-> FALSE], ranges).yes

(* set_contains, Accepted::contains: the last range that starts at or below *)
(* the value decides.                                                       *)
set_contains(ranges, value) ==
    LET below == {i \in DOMAIN ranges : ranges[i][1] <= value}
    IN  below # {} /\ ranges[Max(below)][2] >= value

(* What is left of one range once the holes are taken out, in order. *)
Cut(range, holes) ==
    LET s == FoldLeft(LAMBDA c, h :
                 IF h[2] < c.cursor \/ h[1] > range[2] THEN c
                 ELSE [out |-> IF h[1] > c.cursor THEN Append(c.out, <<c.cursor, h[1] - 1>>) ELSE c.out,
                       cursor |-> (IF h[2] >= range[2] THEN range[2] ELSE h[2]) + 1],
               [out |-> <<>>, cursor |-> range[1]], holes)
    IN  IF s.cursor <= range[2] THEN Append(s.out, <<s.cursor, range[2]>>) ELSE s.out

set_subtract(ranges, holes) == FlattenSeq([i \in DOMAIN ranges |-> Cut(ranges[i], holes)])

intersect(a, b) ==
    LET Meet(r, s) == <<Max({r[1], s[1]}), Min({r[2], s[2]})>>
        all == FlattenSeq([i \in DOMAIN a |-> [j \in DOMAIN b |-> Meet(a[i], b[j])]])
    IN  merge_ranges(SelectSeq(all, LAMBDA r : r[1] <= r[2]))

(* Mutant of complement_ranges: the gap after the last range is lost. *)
complement_rangesInner(ranges) ==
    FoldLeft(LAMBDA s, r :
               [out |-> IF r[1] > s.next THEN s.out \o non_surrogate_parts(s.next, r[1] - 1) ELSE s.out,
                next |-> Max({s.next, r[2] + 1})],
             [out |-> <<>>, next |-> 0], ranges).out

complement_ranges(ranges) ==
    LET s == FoldLeft(LAMBDA t, r :
                 [out |-> IF r[1] > t.next THEN t.out \o non_surrogate_parts(t.next, r[1] - 1)
                                           ELSE t.out,
                  next |-> Max({t.next, r[2] + 1})],
               [out |-> <<>>, next |-> 0], ranges)
    IN  IF s.next > MaxCp THEN s.out ELSE s.out \o non_surrogate_parts(s.next, MaxCp)

-----------------------------------------------------------------------------
(* Reference: the UTF-8 bytes of a codepoint, by the encoding's table. *)
Utf8(cp) ==
    LET c(k) == 128 + ((cp \div (64 ^ k)) % 64)
    IN  IF cp < 128 THEN <<cp>>
        ELSE IF cp < 2048 THEN <<192 + cp \div 64, c(0)>>
        ELSE IF cp < 65536 THEN <<224 + cp \div 4096, c(1), c(0)>>
        ELSE <<240 + cp \div 262144, c(2), c(1), c(0)>>

Scalar(cp) == cp \in 0..MaxCp /\ cp \notin SurLo..SurHi
=============================================================================
