---------------------------- MODULE TranscriptProofs ----------------------------
(***************************************************************************)
(* The transcript's lines are the rendering of its messages, whatever a    *)
(* conversation says and however it was patched.                           *)
(*                                                                         *)
(* First, that a patch cut to the lines that differ does what the whole    *)
(* edit does.  Then what the lines of a sequence of messages are and what  *)
(* their counts add up to, both defined by recursion, by induction over    *)
(* the natural numbers.  Then the invariant of the specification.          *)
(***************************************************************************)
EXTENDS Transcript, SequenceFacts, WellFoundedInduction, FiniteSetTheorems

(***************************************************************************)
(* Patches                                                                   *)
(***************************************************************************)

(* The patch nobody trimmed.                                               *)
Whole(start, end, new) == [start |-> start, end |-> end, lines |-> new]

(* What push_message and set_message ask of splice: the lines start .. end *)
(* of a transcript, and a replacement they have p lines in common with at  *)
(* the start and s at the end.                                             *)
IsEdit(S, base, new, start, end, p, s) ==
  /\ base \in Seq(S) /\ new \in Seq(S)
  /\ start \in 0 .. Len(base) /\ end \in start .. Len(base)
  /\ p \in Nat /\ s \in Nat
  /\ CommonStart(SubSeq(base, start + 1, end), new, p)
  /\ CommonEnd(SubSeq(base, start + 1, end), new, p, s)

(* A patch that fits a transcript.                                         *)
Fits(S, base, edit) ==
  /\ base \in Seq(S) /\ edit.lines \in Seq(S)
  /\ edit.start \in 0 .. Len(base) /\ edit.end \in edit.start .. Len(base)

(* A part of a sequence.                                                   *)
LEMMA Slice ==
  ASSUME NEW S, NEW q \in Seq(S), NEW a \in 1 .. Len(q) + 1, NEW b \in a - 1 .. Len(q)
  PROVE  /\ SubSeq(q, a, b) \in Seq(S) /\ Len(SubSeq(q, a, b)) = b - a + 1
         /\ \A i \in 1 .. b - a + 1 : SubSeq(q, a, b)[i] = q[a + i - 1]
OBVIOUS

(* Two sequences of the same elements.                                     *)
LEMMA SameElements ==
  ASSUME NEW S, NEW q \in Seq(S), NEW t \in Seq(S), Len(q) = Len(t),
         \A i \in 1 .. Len(q) : q[i] = t[i]
  PROVE  q = t
OBVIOUS

(* Three parts put together.                                               *)
LEMMA ThreeParts ==
  ASSUME NEW S, NEW u \in Seq(S), NEW v \in Seq(S), NEW w \in Seq(S)
  PROVE  /\ u \o v \o w \in Seq(S) /\ Len(u \o v \o w) = Len(u) + Len(v) + Len(w)
         /\ \A i \in 1 .. Len(u) : (u \o v \o w)[i] = u[i]
         /\ \A i \in 1 .. Len(v) : (u \o v \o w)[Len(u) + i] = v[i]
         /\ \A i \in 1 .. Len(w) : (u \o v \o w)[Len(u) + Len(v) + i] = w[i]
<1>1. /\ u \o v \in Seq(S) /\ Len(u) \in Nat /\ Len(v) \in Nat
      /\ Len(u \o v) = Len(u) + Len(v)
      /\ \A i \in 1 .. Len(u) : (u \o v)[i] = u[i]
      /\ \A i \in 1 .. Len(v) : (u \o v)[Len(u) + i] = v[i]
  BY ConcatElements
<1> DEFINE x == u \o v
<1>2. /\ x \o w \in Seq(S) /\ Len(w) \in Nat
      /\ Len(x \o w) = Len(x) + Len(w)
      /\ \A i \in 1 .. Len(x) : (x \o w)[i] = x[i]
      /\ \A i \in 1 .. Len(w) : (x \o w)[Len(x) + i] = w[i]
  BY <1>1, ConcatElements
<1> QED
  BY <1>1, <1>2

(* What a patch leads to, line by line.                                    *)
LEMMA PatchedLines ==
  ASSUME NEW S, NEW base, NEW edit, Fits(S, base, edit)
  PROVE  /\ Patched(base, edit) \in Seq(S)
         /\ Len(Patched(base, edit))
              = edit.start + Len(edit.lines) + (Len(base) - edit.end)
         /\ \A i \in 1 .. edit.start : Patched(base, edit)[i] = base[i]
         /\ \A i \in 1 .. Len(edit.lines) :
              Patched(base, edit)[edit.start + i] = edit.lines[i]
         /\ \A i \in 1 .. Len(base) - edit.end :
              Patched(base, edit)[edit.start + Len(edit.lines) + i] = base[edit.end + i]
<1> DEFINE a == edit.start
           b == edit.end
           mid == edit.lines
           u == SubSeq(base, 1, a)
           w == SubSeq(base, b + 1, Len(base))
<1>1. /\ base \in Seq(S) /\ mid \in Seq(S)
      /\ a \in 0 .. Len(base) /\ b \in a .. Len(base)
  BY DEF Fits
<1>2. Patched(base, edit) = u \o mid \o w
  BY DEF Patched
<1> HIDE DEF a, b, mid
<1>3. Len(base) \in Nat /\ Len(mid) \in Nat
  BY <1>1, LenType
<1>4. /\ u \in Seq(S) /\ Len(u) = a
      /\ \A i \in 1 .. a : u[i] = base[i]
  <2>1. 1 \in 1 .. Len(base) + 1 /\ a \in 1 - 1 .. Len(base) /\ a - 1 + 1 = a
    BY <1>1, <1>3
  <2>2. \A i \in 1 .. a : 1 + i - 1 = i
    BY <1>1
  <2> QED
    BY <1>1, <2>1, <2>2, Slice
<1>5. /\ w \in Seq(S) /\ Len(w) = Len(base) - b
      /\ \A i \in 1 .. Len(base) - b : w[i] = base[b + i]
  <2>1. /\ b + 1 \in 1 .. Len(base) + 1 /\ Len(base) \in (b + 1) - 1 .. Len(base)
        /\ Len(base) - (b + 1) + 1 = Len(base) - b
    BY <1>1, <1>3
  <2>2. \A i \in 1 .. Len(base) - b : (b + 1) + i - 1 = b + i
    BY <1>1
  <2> DEFINE l == Len(base) - (b + 1) + 1
  <2>3. w \in Seq(S) /\ Len(w) = l /\ \A i \in 1 .. l : w[i] = base[(b + 1) + i - 1]
    BY <1>1, <2>1, Slice
  <2>4. l = Len(base) - b
    BY <2>1
  <2> HIDE DEF l, w
  <2> QED
    BY <2>2, <2>3, <2>4
<1> HIDE DEF u, w
<1>6. /\ u \o mid \o w \in Seq(S) /\ Len(u \o mid \o w) = Len(u) + Len(mid) + Len(w)
      /\ \A i \in 1 .. Len(u) : (u \o mid \o w)[i] = u[i]
      /\ \A i \in 1 .. Len(mid) : (u \o mid \o w)[Len(u) + i] = mid[i]
      /\ \A i \in 1 .. Len(w) : (u \o mid \o w)[Len(u) + Len(mid) + i] = w[i]
  <2>1. u \in Seq(S) /\ mid \in Seq(S) /\ w \in Seq(S)
    BY <1>1, <1>4, <1>5
  <2> QED
    BY <2>1, ThreeParts
<1>7. /\ Patched(base, edit) \in Seq(S)
      /\ Len(Patched(base, edit)) = a + Len(mid) + (Len(base) - b)
      /\ \A i \in 1 .. a : Patched(base, edit)[i] = base[i]
      /\ \A i \in 1 .. Len(mid) : Patched(base, edit)[a + i] = mid[i]
      /\ \A i \in 1 .. Len(base) - b : Patched(base, edit)[a + Len(mid) + i] = base[b + i]
  BY <1>2, <1>4, <1>5, <1>6
<1> QED
  BY <1>7 DEF a, b, mid

(* The cut of a patch, and the lines it leaves out.                        *)
LEMMA CutLines ==
  ASSUME NEW S, NEW base, NEW new, NEW start, NEW end, NEW p, NEW s,
         IsEdit(S, base, new, start, end, p, s)
  PROVE  /\ Len(new) \in Nat /\ p + s <= Len(new) /\ p + s <= end - start
         /\ SubSeq(new, p + 1, Len(new) - s) \in Seq(S)
         /\ Len(SubSeq(new, p + 1, Len(new) - s)) = Len(new) - s - p
         /\ \A i \in 1 .. Len(new) - s - p : SubSeq(new, p + 1, Len(new) - s)[i] = new[p + i]
         /\ \A i \in 1 .. p : base[start + i] = new[i]
         /\ \A i \in 0 .. s - 1 : base[end - i] = new[Len(new) - i]
         /\ p < end - start /\ p < Len(new) => base[start + p + 1] # new[p + 1]
         /\ p + s < end - start /\ p + s < Len(new) => base[end - s] # new[Len(new) - s]
<1> DEFINE old == SubSeq(base, start + 1, end)
<1>1. /\ base \in Seq(S) /\ new \in Seq(S) /\ Len(base) \in Nat /\ Len(new) \in Nat
      /\ start \in 0 .. Len(base) /\ end \in start .. Len(base)
      /\ p \in Nat /\ s \in Nat
  BY LenType DEF IsEdit
<1>2. /\ old \in Seq(S) /\ Len(old) = end - start
      /\ \A i \in 1 .. end - start : old[i] = base[start + i]
  <2>1. /\ start + 1 \in 1 .. Len(base) + 1 /\ end \in (start + 1) - 1 .. Len(base)
        /\ end - (start + 1) + 1 = end - start
    BY <1>1
  <2>2. \A i \in 1 .. end - start : (start + 1) + i - 1 = start + i
    BY <1>1
  <2> QED
    BY <1>1, <2>1, <2>2, Slice
<1> HIDE DEF old
<1>3. CommonStart(old, new, p) /\ CommonEnd(old, new, p, s)
  BY DEF IsEdit, old
<1>4. p <= Len(old) /\ p <= Len(new) /\ s <= Len(old) - p /\ s <= Len(new) - p
  BY <1>3 DEF CommonStart, CommonEnd
<1>5. /\ SubSeq(new, p + 1, Len(new) - s) \in Seq(S)
      /\ Len(SubSeq(new, p + 1, Len(new) - s)) = Len(new) - s - p
      /\ \A i \in 1 .. Len(new) - s - p : SubSeq(new, p + 1, Len(new) - s)[i] = new[p + i]
  <2>1. /\ p + 1 \in 1 .. Len(new) + 1 /\ Len(new) - s \in (p + 1) - 1 .. Len(new)
        /\ Len(new) - s - (p + 1) + 1 = Len(new) - s - p
    BY <1>1, <1>4
  <2>2. \A i \in 1 .. Len(new) - s - p : (p + 1) + i - 1 = p + i
    BY <1>1
  <2> DEFINE q == SubSeq(new, p + 1, Len(new) - s)
             l == Len(new) - s - (p + 1) + 1
  <2>3. q \in Seq(S) /\ Len(q) = l /\ \A i \in 1 .. l : q[i] = new[(p + 1) + i - 1]
    BY <1>1, <2>1, Slice
  <2>4. l = Len(new) - s - p
    BY <2>1
  <2> HIDE DEF q, l
  <2>5. q \in Seq(S) /\ Len(q) = Len(new) - s - p
        /\ \A i \in 1 .. Len(new) - s - p : q[i] = new[p + i]
    BY <2>2, <2>3, <2>4
  <2> QED
    BY <2>5 DEF q
<1>6. \A i \in 1 .. p : base[start + i] = new[i]
  BY <1>1, <1>2, <1>3, <1>4 DEF CommonStart
<1>7. ASSUME NEW i \in 0 .. s - 1
      PROVE  base[end - i] = new[Len(new) - i]
  <2>1. Len(old) - i \in 1 .. end - start /\ start + (Len(old) - i) = end - i
    BY <1>1, <1>2, <1>4
  <2>2. old[Len(old) - i] = new[Len(new) - i]
    BY <1>3 DEF CommonEnd
  <2> QED
    BY <1>2, <2>1, <2>2
<1>8. p < end - start /\ p < Len(new) => base[start + p + 1] # new[p + 1]
  <2> SUFFICES ASSUME p < end - start, p < Len(new)
               PROVE  base[start + p + 1] # new[p + 1]
    OBVIOUS
  <2>1. p + 1 \in 1 .. end - start /\ start + (p + 1) = start + p + 1
    BY <1>1
  <2>2. old[p + 1] # new[p + 1]
    BY <1>2, <1>3 DEF CommonStart
  <2> QED
    BY <1>2, <2>1, <2>2
<1>9. p + s < end - start /\ p + s < Len(new) => base[end - s] # new[Len(new) - s]
  <2> SUFFICES ASSUME p + s < end - start, p + s < Len(new)
               PROVE  base[end - s] # new[Len(new) - s]
    OBVIOUS
  <2>1. Len(old) - s \in 1 .. end - start /\ start + (Len(old) - s) = end - s
    BY <1>1, <1>2
  <2>2. s < Len(old) - p /\ s < Len(new) - p
    BY <1>1, <1>2
  <2>3. old[Len(old) - s] # new[Len(new) - s]
    BY <1>3, <2>2 DEF CommonEnd
  <2> QED
    BY <1>2, <2>1, <2>3
<1>10. Len(new) \in Nat /\ p + s <= Len(new) /\ p + s <= end - start
  <2>1. Len(old) = end - start
    BY <1>2
  <2> QED
    BY <1>1, <1>4, <2>1
<1> QED
  BY <1>5, <1>6, <1>7, <1>8, <1>9, <1>10

(* The patch Transcript::splice sends and applies, trimmed at both ends,   *)
(* leads to the lines the whole replacement of start .. end by new leads   *)
(* to.                                                                     *)
THEOREM TrimmedPatchIsTheEdit ==
  ASSUME NEW S, NEW base, NEW new, NEW start, NEW end, NEW p, NEW s,
         IsEdit(S, base, new, start, end, p, s)
  PROVE  Patched(base, Trimmed(start, end, new, p, s))
           = Patched(base, Whole(start, end, new))
<1> DEFINE mid == SubSeq(new, p + 1, Len(new) - s)
           cut == Patched(base, Trimmed(start, end, new, p, s))
           all == Patched(base, Whole(start, end, new))
           n == Len(base)
           m == Len(new)
<1>1. /\ n \in Nat /\ m \in Nat /\ start \in 0 .. n /\ end \in start .. n
      /\ p \in Nat /\ s \in Nat /\ base \in Seq(S) /\ new \in Seq(S)
  BY LenType DEF IsEdit
<1>2. /\ p + s <= m /\ p + s <= end - start
      /\ mid \in Seq(S) /\ Len(mid) = m - s - p
      /\ \A i \in 1 .. m - s - p : mid[i] = new[p + i]
      /\ \A i \in 1 .. p : base[start + i] = new[i]
      /\ \A i \in 0 .. s - 1 : base[end - i] = new[m - i]
  BY CutLines
<1>3. /\ all \in Seq(S) /\ Len(all) = start + m + (n - end)
      /\ \A i \in 1 .. start : all[i] = base[i]
      /\ \A i \in 1 .. m : all[start + i] = new[i]
      /\ \A i \in 1 .. n - end : all[start + m + i] = base[end + i]
  <2> DEFINE edit == Whole(start, end, new)
  <2>1. edit.start = start /\ edit.end = end /\ edit.lines = new
    BY DEF Whole
  <2> HIDE DEF edit
  <2>2. Fits(S, base, edit)
    BY <1>1, <2>1 DEF Fits
  <2> QED
    BY <2>1, <2>2, PatchedLines DEF edit
<1>4. /\ cut \in Seq(S) /\ Len(cut) = (start + p) + (m - s - p) + (n - (end - s))
      /\ \A i \in 1 .. start + p : cut[i] = base[i]
      /\ \A i \in 1 .. m - s - p : cut[(start + p) + i] = mid[i]
      /\ \A i \in 1 .. n - (end - s) :
           cut[(start + p) + (m - s - p) + i] = base[(end - s) + i]
  <2> DEFINE edit == Trimmed(start, end, new, p, s)
             after == Patched(base, edit)
             l == m - s - p
  <2>1. edit.start = start + p /\ edit.end = end - s /\ edit.lines = mid
    BY DEF Trimmed
  <2>2. start + p \in 0 .. n /\ end - s \in start + p .. n
    BY <1>1, <1>2
  <2> HIDE DEF edit, mid, n
  <2>3. Fits(S, base, edit)
    BY <1>1, <1>2, <2>1, <2>2 DEF Fits, n
  <2>4. /\ after \in Seq(S)
        /\ Len(after) = (start + p) + Len(mid) + (n - (end - s))
        /\ \A i \in 1 .. start + p : after[i] = base[i]
        /\ \A i \in 1 .. Len(mid) : after[(start + p) + i] = mid[i]
        /\ \A i \in 1 .. n - (end - s) :
             after[(start + p) + Len(mid) + i] = base[(end - s) + i]
    BY <2>1, <2>3, PatchedLines DEF n
  <2>5. Len(mid) = l
    BY <1>2
  <2> HIDE DEF after, l
  <2>6. /\ after \in Seq(S)
        /\ Len(after) = (start + p) + l + (n - (end - s))
        /\ \A i \in 1 .. start + p : after[i] = base[i]
        /\ \A i \in 1 .. l : after[(start + p) + i] = mid[i]
        /\ \A i \in 1 .. n - (end - s) : after[(start + p) + l + i] = base[(end - s) + i]
    BY <2>4, <2>5
  <2> QED
    BY <2>6 DEF after, l, edit
<1> HIDE DEF mid, cut, all, n, m
<1>5. Len(cut) = Len(all) /\ Len(cut) = start + m + (n - end)
  <2>1. (start + p) + (m - s - p) + (n - (end - s)) = start + m + (n - end)
    BY <1>1
  <2> QED
    BY <1>3, <1>4, <2>1
<1>6. ASSUME NEW i \in 1 .. Len(cut)
      PROVE  cut[i] = all[i]
  <2>1. i \in Nat \ {0} /\ i <= start + m + (n - end)
    BY <1>1, <1>5
  <2>2. CASE i <= start
    <3>1. i \in 1 .. start /\ i \in 1 .. start + p
      BY <1>1, <2>1, <2>2
    <3> QED
      BY <1>3, <1>4, <3>1
  <2>3. CASE start < i /\ i <= start + p
    <3> DEFINE j == i - start
    <3>1. j \in 1 .. p /\ j \in 1 .. m /\ i = start + j /\ i \in 1 .. start + p
      BY <1>1, <1>2, <2>1, <2>3
    <3> HIDE DEF j
    <3>2. cut[i] = base[start + j] /\ all[i] = new[j]
      BY <1>3, <1>4, <3>1
    <3> QED
      BY <1>2, <3>1, <3>2
  <2>4. CASE start + p < i /\ i <= start + m - s
    <3> DEFINE j == i - start - p
    <3>1. /\ j \in 1 .. m - s - p /\ p + j \in 1 .. m
          /\ i = (start + p) + j /\ i = start + (p + j)
      BY <1>1, <1>2, <2>1, <2>4
    <3> HIDE DEF j
    <3>2. cut[i] = mid[j] /\ all[i] = new[p + j]
      BY <1>3, <1>4, <3>1
    <3> QED
      BY <1>2, <3>1, <3>2
  <2>5. CASE start + m - s < i /\ i <= start + m
    <3> DEFINE j == start + m - i
    <3>1. /\ j \in 0 .. s - 1 /\ m - j \in 1 .. m /\ i = start + (m - j)
          /\ s - j \in 1 .. n - (end - s)
          /\ i = (start + p) + (m - s - p) + (s - j)
          /\ (end - s) + (s - j) = end - j
      BY <1>1, <1>2, <2>1, <2>5
    <3> HIDE DEF j
    <3>2. all[i] = new[m - j]
      BY <1>3, <3>1
    <3>3. cut[i] = base[end - j]
      BY <1>4, <3>1
    <3> QED
      BY <1>2, <3>1, <3>2, <3>3
  <2>6. CASE start + m < i
    <3> DEFINE j == i - start - m
    <3>1. /\ j \in 1 .. n - end /\ i = start + m + j
          /\ s + j \in 1 .. n - (end - s)
          /\ i = (start + p) + (m - s - p) + (s + j)
          /\ (end - s) + (s + j) = end + j
      BY <1>1, <1>2, <2>1, <2>6
    <3> HIDE DEF j
    <3>2. all[i] = base[end + j]
      BY <1>3, <3>1
    <3>3. cut[i] = base[end + j]
      BY <1>4, <3>1
    <3> QED
      BY <3>2, <3>3
  <2> QED
    BY <1>1, <2>1, <2>2, <2>3, <2>4, <2>5, <2>6
<1>7. cut = all
  BY <1>3, <1>4, <1>5, <1>6, SameElements
<1> QED
  BY <1>7 DEF cut, all

(* transcript.rs: "trimming the unchanged prefix and suffix so the patch   *)
(* names only lines that actually differ".  Where it replaces lines by     *)
(* others, the first and the last of them differ.                          *)
THEOREM PatchEndsDiffer ==
  ASSUME NEW S, NEW base, NEW new, NEW start, NEW end, NEW p, NEW s,
         IsEdit(S, base, new, start, end, p, s),
         NEW edit, edit = Trimmed(start, end, new, p, s),
         edit.start < edit.end, edit.lines # <<>>
  PROVE  /\ base[edit.start + 1] # edit.lines[1]
         /\ base[edit.end] # edit.lines[Len(edit.lines)]
<1> DEFINE mid == SubSeq(new, p + 1, Len(new) - s)
           m == Len(new)
<1>1. edit.start = start + p /\ edit.end = end - s /\ edit.lines = mid
  BY DEF Trimmed
<1>2. /\ m \in Nat /\ p \in Nat /\ s \in Nat /\ start \in Nat /\ end \in Nat
      /\ p + s <= m /\ p + s <= end - start
      /\ mid \in Seq(S) /\ Len(mid) = m - s - p
      /\ \A i \in 1 .. m - s - p : mid[i] = new[p + i]
      /\ p < end - start /\ p < m => base[start + p + 1] # new[p + 1]
      /\ p + s < end - start /\ p + s < m => base[end - s] # new[m - s]
  <2>1. p \in Nat /\ s \in Nat /\ start \in Nat /\ end \in Nat
    <3>1. /\ base \in Seq(S) /\ p \in Nat /\ s \in Nat
          /\ start \in 0 .. Len(base) /\ end \in start .. Len(base)
      BY DEF IsEdit
    <3>2. Len(base) \in Nat
      BY <3>1, LenType
    <3> QED
      BY <3>1, <3>2
  <2>2. /\ m \in Nat /\ p + s <= m /\ p + s <= end - start
        /\ mid \in Seq(S) /\ Len(mid) = m - s - p
        /\ \A i \in 1 .. m - s - p : mid[i] = new[p + i]
        /\ p < end - start /\ p < m => base[start + p + 1] # new[p + 1]
        /\ p + s < end - start /\ p + s < m => base[end - s] # new[m - s]
    BY CutLines
  <2> QED
    BY <2>1, <2>2
<1> HIDE DEF mid, m
<1>3. Len(mid) \in Nat \ {0}
  BY <1>1, <1>2
<1>4. p + s < m /\ p + s < end - start
  BY <1>1, <1>2, <1>3
<1>5. mid[1] = new[p + 1] /\ mid[Len(mid)] = new[m - s]
  <2>1. /\ 1 \in 1 .. m - s - p /\ Len(mid) \in 1 .. m - s - p
        /\ p + Len(mid) = m - s
    BY <1>2, <1>3
  <2> QED
    BY <1>2, <2>1
<1>6. p < m /\ p < end - start
  BY <1>2, <1>4
<1> QED
  BY <1>1, <1>2, <1>4, <1>5, <1>6

(***************************************************************************)
(* Induction over sequences and sums                                         *)
(***************************************************************************)

(* Induction: a set that holds 0 and with every number the next one. *)
LEMMA NatSetInduction ==
  ASSUME NEW S, 0 \in S, \A n \in Nat : n \in S => n + 1 \in S
  PROVE  Nat \subseteq S
<1> DEFINE T == Nat \ S
           R == OpToRel(<, Nat)
<1>1. SUFFICES ASSUME T # {} PROVE FALSE
  OBVIOUS
<1>2. PICK m \in T : \A k \in T : ~(<<k, m>> \in R)
  <2>1. IsWellFoundedOn(R, Nat) /\ T \subseteq Nat
    BY NatLessThanWellFounded
  <2> HIDE DEF T, R
  <2> QED
    BY <1>1, <2>1, WFMin
<1>3. m # 0 /\ m \in Nat
  OBVIOUS
<1>4. m - 1 \in T
  <2>1. m - 1 \in Nat /\ (m - 1) + 1 = m
    BY <1>3
  <2> QED
    BY <2>1
<1>5. <<m - 1, m>> \in R
  BY <1>3, <1>4 DEF OpToRel
<1> QED
  BY <1>2, <1>4, <1>5

(* f holds what the first 1, ..., n of some sequences give put together.   *)
Joins(f, q, n, S) ==
  /\ f \in [1 .. n -> Seq(S)]
  /\ 0 < n => f[1] = q[1]
  /\ \A k \in 1 .. n - 1 : f[k + 1] = f[k] \o q[k + 1]

(* There is such a function. *)
LEMMA JoinsExists ==
  ASSUME NEW S, NEW n \in Nat, NEW q \in [1 .. n -> Seq(S)]
  PROVE  \E f : Joins(f, q, n, S)
<1> DEFINE T == {k \in Nat : k <= n => \E f : Joins(f, q, k, S)}
<1>1. 0 \in T
  <2>1. Joins([i \in 1 .. 0 |-> << >>], q, 0, S)
    BY DEF Joins
  <2> QED
    BY <2>1
<1>2. ASSUME NEW k \in Nat, k \in T
      PROVE  k + 1 \in T
  <2>1. SUFFICES ASSUME k + 1 <= n
                 PROVE  \E f : Joins(f, q, k + 1, S)
    OBVIOUS
  <2>2. PICK f : Joins(f, q, k, S)
    BY <1>2, <2>1
  <2>3. /\ f \in [1 .. k -> Seq(S)]
        /\ 0 < k => f[1] = q[1]
        /\ \A i \in 1 .. k - 1 : f[i + 1] = f[i] \o q[i + 1]
    BY <2>2 DEF Joins
  <2>4. q[k + 1] \in Seq(S)
    BY <2>1
  <2>5. PICK next \in Seq(S) :
          /\ k = 0 => next = q[k + 1]
          /\ k # 0 => next = f[k] \o q[k + 1]
    <3>1. CASE k = 0
      BY <2>4, <3>1
    <3>2. CASE k # 0
      <4>1. f[k] \in Seq(S)
        BY <2>3, <3>2
      <4>2. f[k] \o q[k + 1] \in Seq(S)
        BY <2>4, <4>1, ConcatElements
      <4> QED
        BY <3>2, <4>2
    <3> QED
      BY <3>1, <3>2
  <2> DEFINE g == [i \in 1 .. k + 1 |-> IF i <= k THEN f[i] ELSE next]
  <2>7. g \in [1 .. k + 1 -> Seq(S)]
    BY <2>3
  <2>8. /\ \A i \in 1 .. k : g[i] = f[i]
        /\ g[k + 1] = next
    OBVIOUS
  <2> HIDE DEF g
  <2>10. g[1] = q[1]
    <3>1. CASE k = 0
      BY <2>5, <2>8, <3>1
    <3>2. CASE k # 0
      BY <2>3, <2>8, <3>2
    <3> QED
      BY <3>1, <3>2
  <2>11. ASSUME NEW i \in 1 .. (k + 1) - 1
         PROVE  g[i + 1] = g[i] \o q[i + 1]
    <3>1. g[i] = f[i]
      BY <2>8
    <3>2. CASE i < k
      <4>1. i \in 1 .. k - 1 /\ i + 1 \in 1 .. k
        BY <3>2
      <4> QED
        BY <2>3, <2>8, <3>1, <4>1
    <3>3. CASE i = k
      <4>1. k # 0
        BY <3>3
      <4>2. g[k + 1] = f[k] \o q[k + 1]
        BY <2>5, <2>8, <4>1
      <4> QED
        BY <3>1, <3>3, <4>2
    <3>4. i < k \/ i = k
      OBVIOUS
    <3> QED
      BY <3>2, <3>3, <3>4
  <2>9. Joins(g, q, k + 1, S)
    BY <2>7, <2>10, <2>11 DEF Joins
  <2> QED
    BY <2>9
<1> HIDE DEF T
<1>3. Nat \subseteq T
  BY <1>1, <1>2, NatSetInduction
<1>4. n \in T
  BY <1>3
<1> QED
  BY <1>4 DEF T

(* Two of them agree on the sequences they share.                          *)
LEMMA JoinsAgree ==
  ASSUME NEW S, NEW n \in Nat, NEW m \in n .. n + 1, NEW q, NEW r, NEW f, NEW g,
         Joins(f, q, n, S), Joins(g, r, m, S), \A i \in 1 .. n : q[i] = r[i]
  PROVE  \A i \in 1 .. n : f[i] = g[i]
<1> DEFINE T == {k \in Nat : k \in 1 .. n => f[k] = g[k]}
<1>1. 0 \in T
  OBVIOUS
<1>2. ASSUME NEW k \in Nat, k \in T
      PROVE  k + 1 \in T
  <2>1. SUFFICES ASSUME k + 1 <= n
                 PROVE  f[k + 1] = g[k + 1]
    OBVIOUS
  <2>2. CASE k = 0
    <3>1. 1 \in 1 .. n /\ 0 < n /\ 0 < m /\ k + 1 = 1
      BY <2>1, <2>2
    <3>2. f[1] = q[1] /\ g[1] = r[1] /\ q[1] = r[1]
      BY <3>1 DEF Joins
    <3> QED
      BY <3>1, <3>2
  <2>3. CASE k # 0
    <3>1. k \in 1 .. n - 1 /\ k \in 1 .. m - 1 /\ k \in 1 .. n /\ k + 1 \in 1 .. n
      BY <2>1, <2>3
    <3>2. /\ f[k + 1] = f[k] \o q[k + 1]
          /\ g[k + 1] = g[k] \o r[k + 1]
      BY <3>1 DEF Joins
    <3>3. f[k] = g[k] /\ q[k + 1] = r[k + 1]
      BY <1>2, <3>1
    <3> QED
      BY <3>2, <3>3
  <2> QED
    BY <2>2, <2>3
<1> HIDE DEF T
<1>3. Nat \subseteq T
  BY <1>1, <1>2, NatSetInduction
<1> QED
  BY <1>3 DEF T

(* FlattenSeq is the last of them. *)
LEMMA FlattenJoins ==
  ASSUME NEW S, NEW q \in Seq(Seq(S)), q # << >>
  PROVE  \E f : Joins(f, q, Len(q), S) /\ FlattenSeq(q) = f[Len(q)]
<1>1. PICK n \in Nat : n = Len(q)
  BY LenType
<1>2. n # 0 /\ q \in [1 .. n -> Seq(S)]
  BY <1>1
<1> DEFINE F(f) == [i \in 1 .. n |-> IF i = 1 THEN q[i] ELSE f[i - 1] \o q[i]]
           g == CHOOSE f : f = F(f)
<1>3. PICK f : Joins(f, q, n, S)
  BY <1>2, JoinsExists
<1>4. f = F(f)
  <2>1. f \in [1 .. n -> Seq(S)]
    BY <1>3 DEF Joins
  <2>2. ASSUME NEW i \in 1 .. n
        PROVE  f[i] = F(f)[i]
    <3>1. CASE i = 1
      BY <1>2, <1>3, <3>1 DEF Joins
    <3>2. CASE i # 1
      <4>1. PICK k \in 1 .. n - 1 : i = k + 1 /\ i - 1 = k
        BY <3>2
      <4>2. f[i] = f[k] \o q[i]
        BY <1>3, <4>1 DEF Joins
      <4>3. F(f)[i] = f[k] \o q[i]
        BY <3>2, <4>1
      <4> QED
        BY <4>2, <4>3
    <3> QED
      BY <3>1, <3>2
  <2> QED
    BY <2>1, <2>2
<1>5. g = F(g)
  <2> HIDE DEF F
  <2> QED
    BY <1>4
<1>6. FlattenSeq(q) = g[n]
  BY <1>1, <1>2 DEF FlattenSeq
<1> HIDE DEF g
<1>7. DOMAIN g = 1 .. n /\ \A i \in 1 .. n : g[i] = F(g)[i]
  BY <1>5
<1>8. g[1] = q[1]
  <2>1. 1 \in 1 .. n
    BY <1>2
  <2> QED
    BY <1>7, <2>1
<1>9. ASSUME NEW k \in 1 .. n - 1
      PROVE  g[k + 1] = g[k] \o q[k + 1]
  <2>1. PICK i \in 1 .. n : i = k + 1 /\ i # 1 /\ i - 1 = k
    OBVIOUS
  <2>2. F(g)[i] = g[k] \o q[i]
    BY <2>1
  <2> QED
    BY <1>7, <2>1, <2>2
<1> HIDE DEF F
<1>10. \A i \in 1 .. n : g[i] \in Seq(S)
  <2> DEFINE T == {k \in Nat : k \in 1 .. n => g[k] \in Seq(S)}
  <2>1. 0 \in T
    OBVIOUS
  <2>2. ASSUME NEW k \in Nat, k \in T
        PROVE  k + 1 \in T
    <3>1. SUFFICES ASSUME k + 1 \in 1 .. n
                   PROVE  g[k + 1] \in Seq(S)
      OBVIOUS
    <3>2. q[k + 1] \in Seq(S)
      BY <1>2, <3>1
    <3>3. CASE k = 0
      BY <1>8, <3>2, <3>3
    <3>4. CASE k # 0
      <4>1. k \in 1 .. n /\ k \in 1 .. n - 1
        BY <3>1, <3>4
      <4>2. g[k] \in Seq(S)
        BY <2>2, <4>1
      <4>3. g[k + 1] = g[k] \o q[k + 1]
        BY <1>9, <4>1
      <4> QED
        BY <3>2, <4>2, <4>3, ConcatElements
    <3> QED
      BY <3>3, <3>4
  <2> HIDE DEF T
  <2>3. Nat \subseteq T
    BY <2>1, <2>2, NatSetInduction
  <2> QED
    BY <2>3 DEF T
<1>11. g \in [1 .. n -> Seq(S)]
  <2>1. g = [i \in 1 .. n |-> g[i]]
    BY <1>5, <1>7 DEF F
  <2> QED
    BY <1>10, <2>1
<1>12. Joins(g, q, n, S)
  BY <1>8, <1>9, <1>11 DEF Joins
<1> QED
  BY <1>1, <1>6, <1>12

(* No sequences put together. *)
LEMMA FlattenNone ==
  ASSUME NEW q, NEW S, q \in Seq(S), Len(q) = 0
  PROVE  FlattenSeq(q) = << >>
<1>1. FlattenSeq(q) = q
  BY DEF FlattenSeq
<1> QED
  BY <1>1

(* Sequences put together are a sequence. *)
LEMMA FlattenType ==
  ASSUME NEW S, NEW q \in Seq(Seq(S))
  PROVE  FlattenSeq(q) \in Seq(S)
<1>1. CASE q = << >>
  <2>1. FlattenSeq(q) = << >>
    BY <1>1, FlattenNone, EmptyType
  <2> QED
    BY <2>1, EmptyType
<1>2. CASE q # << >>
  <2>1. PICK f : Joins(f, q, Len(q), S) /\ FlattenSeq(q) = f[Len(q)]
    BY <1>2, FlattenJoins
  <2>2. Len(q) \in Nat /\ Len(q) # 0
    BY <1>2
  <2>3. Len(q) \in 1 .. Len(q)
    BY <2>2
  <2> QED
    BY <2>1, <2>3 DEF Joins
<1> QED
  BY <1>1, <1>2

(* One more sequence comes after all the others. *)
LEMMA FlattenAppend ==
  ASSUME NEW S, NEW q \in Seq(Seq(S)), NEW e \in Seq(S)
  PROVE  FlattenSeq(Append(q, e)) = FlattenSeq(q) \o e
<1>1. PICK n \in Nat : n = Len(q)
  BY LenType
<1>2. PICK r \in Seq(Seq(S)) : r = Append(q, e)
  BY AppendType
<1>3. /\ Len(r) = n + 1 /\ r # << >> /\ r[n + 1] = e
      /\ \A i \in 1 .. n : q[i] = r[i]
  <2>1. /\ Append(q, e) \in Seq(Seq(S)) /\ Len(q) \in Nat
        /\ Len(Append(q, e)) = Len(q) + 1
        /\ Append(q, e)[Len(q) + 1] = e
        /\ \A i \in 1..Len(q) : Append(q, e)[i] = q[i]
    BY AppendElements
  <2>2. r # << >>
    BY <1>2
  <2> QED
    BY <1>1, <1>2, <2>1, <2>2
<1>4. PICK g : Joins(g, r, n + 1, S) /\ FlattenSeq(r) = g[n + 1]
  BY <1>3, FlattenJoins
<1>7. CASE n = 0
  <2>1. FlattenSeq(q) = << >>
    BY <1>1, <1>7, FlattenNone
  <2>2. << >> \o e = e
    OBVIOUS
  <2>3. g[1] = r[1]
    BY <1>4, <1>7 DEF Joins
  <2> QED
    BY <1>2, <1>3, <1>4, <1>7, <2>1, <2>2, <2>3
<1>8. CASE n # 0
  <2>1. q # << >>
    BY <1>1, <1>8
  <2>2. PICK f : Joins(f, q, n, S) /\ FlattenSeq(q) = f[n]
    BY <1>1, <2>1, FlattenJoins
  <2>3. \A i \in 1 .. n : f[i] = g[i]
    <3>1. n + 1 \in n .. n + 1
      OBVIOUS
    <3> QED
      BY <1>3, <1>4, <2>2, <3>1, JoinsAgree
  <2>4. f[n] = g[n]
    BY <1>8, <2>3
  <2>5. g[n + 1] = g[n] \o r[n + 1]
    <3>1. n \in 1 .. (n + 1) - 1
      BY <1>8
    <3> QED
      BY <1>4, <3>1 DEF Joins
  <2> QED
    BY <1>2, <1>3, <1>4, <2>2, <2>4, <2>5
<1> QED
  BY <1>7, <1>8

(* The member of a set that a fold takes first. *)
First(s) == CHOOSE x \in s : TRUE

(* f holds what the counts c of the members of every part of D add up to. *)
Sums(f, c, D) ==
  /\ f \in [SUBSET D -> Nat]
  /\ f[{}] = 0
  /\ \A s \in SUBSET D : s # {} => f[s] = f[s \ {First(s)}] + c[First(s)]

(* The member a fold takes first is one of the set. *)
LEMMA FirstMember ==
  ASSUME NEW s, s # {}
  PROVE  First(s) \in s
BY DEF First

(* There is such a function. *)
LEMMA SumsExist ==
  ASSUME NEW D, IsFiniteSet(D), NEW c \in [D -> Nat]
  PROVE  \E f : Sums(f, c, D)
<1> DEFINE Upto(f, k) ==
             /\ f \in [SUBSET D -> Nat]
             /\ f[{}] = 0
             /\ \A s \in SUBSET D : s # {} /\ Cardinality(s) <= k
                                      => f[s] = f[s \ {First(s)}] + c[First(s)]
           T == {k \in Nat : \E f : Upto(f, k)}
<1>1. \A s \in SUBSET D : /\ IsFiniteSet(s) /\ Cardinality(s) \in Nat
                          /\ Cardinality(s) <= Cardinality(D)
                          /\ Cardinality(s) = 0 <=> s = {}
  BY FS_Subset, FS_CardinalityType, FS_EmptySet
<1>2. \A s \in SUBSET D : s # {} =>
        /\ First(s) \in s /\ s \ {First(s)} \in SUBSET D
        /\ Cardinality(s \ {First(s)}) = Cardinality(s) - 1
  <2> SUFFICES ASSUME NEW s \in SUBSET D, s # {}
               PROVE  /\ First(s) \in s /\ s \ {First(s)} \in SUBSET D
                      /\ Cardinality(s \ {First(s)}) = Cardinality(s) - 1
    OBVIOUS
  <2>1. First(s) \in s
    BY FirstMember
  <2> QED
    BY <1>1, <2>1, FS_RemoveElement
<1>3. 0 \in T
  <2> DEFINE f == [s \in SUBSET D |-> 0]
  <2>1. f \in [SUBSET D -> Nat] /\ f[{}] = 0
    OBVIOUS
  <2> HIDE DEF f
  <2>2. \A s \in SUBSET D : ~(s # {} /\ Cardinality(s) <= 0)
    BY <1>1
  <2>3. Upto(f, 0)
    BY <2>1, <2>2
  <2> QED
    BY <2>3
<1>4. ASSUME NEW k \in Nat, k \in T
      PROVE  k + 1 \in T
  <2>1. PICK f : Upto(f, k)
    BY <1>4
  <2> DEFINE g == [s \in SUBSET D |->
                     IF Cardinality(s) <= k THEN f[s] ELSE f[s \ {First(s)}] + c[First(s)]]
  <2>2. \A s \in SUBSET D : s # {} => f[s \ {First(s)}] + c[First(s)] \in Nat
    <3>1. f \in [SUBSET D -> Nat]
      BY <2>1
    <3> QED
      BY <1>2, <3>1
  <2>3. g \in [SUBSET D -> Nat]
    <3>1. ASSUME NEW s \in SUBSET D
          PROVE  g[s] \in Nat
      <4>1. CASE Cardinality(s) <= k
        BY <2>1, <4>1
      <4>2. CASE ~(Cardinality(s) <= k)
        <5>1. s # {}
          BY <1>1, <4>2
        <5> QED
          BY <2>2, <4>2, <5>1
      <4> QED
        BY <4>1, <4>2
    <3> QED
      BY <3>1
  <2>4. g[{}] = 0
    BY <1>1, <2>1
  <2>5. ASSUME NEW s \in SUBSET D, s # {}, Cardinality(s) <= k + 1
        PROVE  g[s] = g[s \ {First(s)}] + c[First(s)]
    <3>1. /\ s \ {First(s)} \in SUBSET D /\ Cardinality(s \ {First(s)}) <= k
      BY <1>1, <1>2, <2>5
    <3>2. g[s \ {First(s)}] = f[s \ {First(s)}]
      BY <3>1
    <3>3. g[s] = f[s \ {First(s)}] + c[First(s)]
      BY <2>1, <2>5
    <3> QED
      BY <3>2, <3>3
  <2> HIDE DEF g
  <2>6. Upto(g, k + 1)
    BY <2>3, <2>4, <2>5
  <2> QED
    BY <2>6
<1> HIDE DEF T
<1>5. Nat \subseteq T
  BY <1>3, <1>4, NatSetInduction
<1>6. Cardinality(D) \in T
  BY <1>1, <1>5
<1>7. PICK f : Upto(f, Cardinality(D))
  BY <1>6 DEF T
<1>8. Sums(f, c, D)
  BY <1>1, <1>7 DEF Sums
<1> QED
  BY <1>8

(* One more member adds its own count to a set (of k members).             *)
GrowsAt(f, c, D, k) ==
  \A s \in SUBSET D : \A y \in D \ s : Cardinality(s) = k => f[s \cup {y}] = f[s] + c[y]
Grows(f, c, D) ==
  \A s \in SUBSET D : \A y \in D \ s : f[s \cup {y}] = f[s] + c[y]

(* Whatever order the counts are taken in, one more member adds its own.   *)
LEMMA SumsAdd ==
  ASSUME NEW D, IsFiniteSet(D), NEW c \in [D -> Nat], NEW f, Sums(f, c, D)
  PROVE  Grows(f, c, D)
<1> DEFINE T == {k \in Nat : GrowsAt(f, c, D, k)}
<1>1. \A t \in SUBSET D : /\ IsFiniteSet(t) /\ Cardinality(t) \in Nat
                          /\ Cardinality(t) = 0 <=> t = {}
  BY FS_Subset, FS_CardinalityType, FS_EmptySet
<1>2. /\ f \in [SUBSET D -> Nat]
      /\ f[{}] = 0
      /\ \A t \in SUBSET D : t # {} => f[t] = f[t \ {First(t)}] + c[First(t)]
  BY DEF Sums
<1>3. 0 \in T
  <2> SUFFICES GrowsAt(f, c, D, 0)
    OBVIOUS
  <2> SUFFICES ASSUME NEW t \in SUBSET D, NEW y \in D \ t, Cardinality(t) = 0
               PROVE  f[t \cup {y}] = f[t] + c[y]
    BY DEF GrowsAt
  <2>1. t = {} /\ t \cup {y} = {y} /\ {y} \in SUBSET D /\ {y} # {}
    BY <1>1
  <2>2. First({y}) = y
    BY FirstMember
  <2>3. {y} \ {y} = {}
    OBVIOUS
  <2>4. f[{y}] = f[{y} \ {First({y})}] + c[First({y})]
    BY <1>2, <2>1
  <2> QED
    BY <2>1, <2>2, <2>3, <2>4
<1>4. ASSUME NEW k \in Nat, k \in T
      PROVE  k + 1 \in T
  <2> SUFFICES GrowsAt(f, c, D, k + 1)
    OBVIOUS
  <2> SUFFICES ASSUME NEW t \in SUBSET D, NEW y \in D \ t, Cardinality(t) = k + 1
               PROVE  f[t \cup {y}] = f[t] + c[y]
    BY DEF GrowsAt
  <2>1. PICK u \in SUBSET D : u = t \cup {y}
    OBVIOUS
  <2>2. u # {} /\ First(u) \in u
    BY <2>1, FirstMember
  <2>3. f[u] = f[u \ {First(u)}] + c[First(u)]
    BY <1>2, <2>2
  <2>4. CASE First(u) = y
    <3>1. u \ {y} = t
      BY <2>1
    <3> QED
      BY <2>1, <2>3, <2>4, <3>1
  <2>5. CASE First(u) # y
    <3>1. PICK z \in t : z = First(u)
      BY <2>1, <2>2, <2>5
    <3>2. PICK v \in SUBSET D : v = t \ {z}
      OBVIOUS
    <3>3. Cardinality(v) = k
      <4>1. Cardinality(t \ {z}) = Cardinality(t) - 1
        BY <1>1, FS_RemoveElement
      <4> QED
        BY <3>2, <4>1
    <3>4. z \in D \ v /\ y \in D \ v /\ v \cup {z} = t /\ v \cup {y} = u \ {z}
      BY <2>1, <2>5, <3>1, <3>2
    <3>5. f[v \cup {z}] = f[v] + c[z] /\ f[v \cup {y}] = f[v] + c[y]
      BY <1>4, <3>3, <3>4 DEF GrowsAt
    <3>6. f[v] \in Nat /\ c[z] \in Nat /\ c[y] \in Nat
      BY <1>2
    <3>7. f[u] = f[u \ {z}] + c[z]
      BY <2>3, <3>1
    <3>8. f[t] = f[v] + c[z] /\ f[u \ {z}] = f[v] + c[y]
      BY <3>4, <3>5
    <3> QED
      BY <2>1, <3>6, <3>7, <3>8
  <2> QED
    BY <2>4, <2>5
<1> HIDE DEF T
<1>5. Nat \subseteq T
  BY <1>3, <1>4, NatSetInduction
<1> QED
  BY <1>1, <1>5 DEF T, GrowsAt, Grows

(* The sum of the counts of some messages.                                 *)
CountSum(ms) == FoldSeq(LAMBDA before, n : n + before.count, 0, ms)

(* It is a sum of all their counts. *)
LEMMA CountSumIs ==
  ASSUME NEW n \in Nat, NEW ms, DOMAIN ms = 1 .. n, \A i \in 1 .. n : ms[i].count \in Nat
  PROVE  \E f : Sums(f, [i \in 1 .. n |-> ms[i].count], 1 .. n) /\ CountSum(ms) = f[1 .. n]
<1> DEFINE D == 1 .. n
           c == [i \in D |-> ms[i].count]
           F(f) == [s \in SUBSET D |-> IF s = {} THEN 0
                                       ELSE f[s \ {CHOOSE x \in s : TRUE}]
                                              + ms[CHOOSE x \in s : TRUE].count]
           g == CHOOSE f : f = F(f)
<1>1. CountSum(ms) = g[D]
  BY DEF CountSum, FoldSeq, FoldFunction, FoldFunctionOnSet, MapThenFoldSet
<1>2. IsFiniteSet(D) /\ c \in [D -> Nat]
  <2>1. IsFiniteSet(D)
    <3>1. 1 \in Int /\ n \in Int
      OBVIOUS
    <3> QED
      BY <3>1, FS_Interval
  <2>2. c \in [D -> Nat]
    OBVIOUS
  <2> QED
    BY <2>1, <2>2
<1>3. ASSUME NEW f, f = F(f)
      PROVE  /\ DOMAIN f = SUBSET D /\ f[{}] = 0
             /\ \A s \in SUBSET D : s # {} => f[s] = f[s \ {First(s)}] + c[First(s)]
  <2>1. DOMAIN f = SUBSET D /\ \A s \in SUBSET D : f[s] = F(f)[s]
    BY <1>3
  <2>2. f[{}] = 0
    BY <2>1
  <2>3. ASSUME NEW s \in SUBSET D, s # {}
        PROVE  f[s] = f[s \ {First(s)}] + c[First(s)]
    <3>1. First(s) \in D
      BY <2>3, FirstMember
    <3>2. F(f)[s] = f[s \ {First(s)}] + ms[First(s)].count
      BY <2>3 DEF First
    <3>3. c[First(s)] = ms[First(s)].count
      BY <3>1
    <3> QED
      BY <2>1, <3>2, <3>3
  <2> QED
    BY <2>1, <2>2, <2>3
<1>4. \E f : f = F(f)
  <2>1. PICK f : Sums(f, c, D)
    <3> HIDE DEF c, D
    <3> QED
      BY <1>2, SumsExist
  <2>2. /\ f \in [SUBSET D -> Nat] /\ f[{}] = 0
        /\ \A s \in SUBSET D : s # {} => f[s] = f[s \ {First(s)}] + c[First(s)]
    BY <2>1 DEF Sums
  <2>3. ASSUME NEW s \in SUBSET D
        PROVE  f[s] = F(f)[s]
    <3>1. CASE s = {}
      BY <2>2, <3>1
    <3>2. CASE s # {}
      <4>1. First(s) \in D
        BY <3>2, FirstMember
      <4>2. F(f)[s] = f[s \ {First(s)}] + ms[First(s)].count
        BY <3>2 DEF First
      <4>3. c[First(s)] = ms[First(s)].count
        BY <4>1
      <4> QED
        BY <2>2, <3>2, <4>2, <4>3
    <3> QED
      BY <3>1, <3>2
  <2>4. f = [s \in SUBSET D |-> f[s]]
    BY <2>2
  <2>5. f = F(f)
    BY <2>3, <2>4
  <2> HIDE DEF F
  <2> QED
    BY <2>5
<1>5. g = F(g)
  <2> HIDE DEF F
  <2> QED
    BY <1>4
<1> HIDE DEF g
<1>6. /\ DOMAIN g = SUBSET D /\ g[{}] = 0
      /\ \A s \in SUBSET D : s # {} => g[s] = g[s \ {First(s)}] + c[First(s)]
  BY <1>3, <1>5
<1>7. \A s \in SUBSET D : g[s] \in Nat
  <2> DEFINE T == {k \in Nat : \A s \in SUBSET D : Cardinality(s) = k => g[s] \in Nat}
  <2>1. \A s \in SUBSET D : /\ IsFiniteSet(s) /\ Cardinality(s) \in Nat
                            /\ Cardinality(s) = 0 <=> s = {}
    BY <1>2, FS_Subset, FS_CardinalityType, FS_EmptySet
  <2>2. 0 \in T
    BY <1>6, <2>1
  <2>3. ASSUME NEW k \in Nat, k \in T
        PROVE  k + 1 \in T
    <3> HIDE DEF F, c, D
    <3> SUFFICES ASSUME NEW s \in SUBSET D, Cardinality(s) = k + 1
                 PROVE  g[s] \in Nat
      OBVIOUS
    <3>1. s # {}
      BY <2>1
    <3>2. First(s) \in s
      BY <3>1, FirstMember
    <3>3. Cardinality(s \ {First(s)}) = k
      <4>1. Cardinality(s \ {First(s)}) = Cardinality(s) - 1
        BY <2>1, <3>2, FS_RemoveElement
      <4> QED
        BY <4>1
    <3>4. g[s \ {First(s)}] \in Nat
      BY <2>3, <3>3
    <3>5. c[First(s)] \in Nat
      BY <1>2, <3>2
    <3> QED
      BY <1>6, <3>1, <3>4, <3>5
  <2> HIDE DEF T
  <2>4. Nat \subseteq T
    BY <2>2, <2>3, NatSetInduction
  <2> QED
    BY <2>1, <2>4 DEF T
<1>8. g \in [SUBSET D -> Nat]
  <2>1. g = [s \in SUBSET D |-> g[s]]
    <3>1. g = [s \in SUBSET D |-> F(g)[s]]
      BY <1>5
    <3>2. \A s \in SUBSET D : g[s] = F(g)[s]
      BY <1>5
    <3> QED
      BY <3>1, <3>2
  <2> QED
    BY <1>7, <2>1
<1>9. Sums(g, c, D)
  BY <1>6, <1>8 DEF Sums
<1> QED
  BY <1>1, <1>9

(***************************************************************************)
(* The lines of the messages                                                 *)
(***************************************************************************)

(* A line of a text, a message of a transcript, a line as it is painted.   *)
TextLines == [mark : {"plain", "fence"}, size : Nat]
Messages == [role : Roles, text : Texts, streaming : BOOLEAN, count : Nat]
Styles == {"none", "user", "streaming", "fence", "code"} \cup {"label_" \o role : role \in Roles}
Painted == [mark : {"plain", "fence", "label", "dots"}, size : Nat, style : Styles]

(* Line::styled keeps a line's length and paints it in one of the styles.  *)
LEMMA StyledType ==
  ASSUME NEW line, line.mark \in {"plain", "fence", "label", "dots"}, line.size \in Nat,
         NEW style \in Styles
  PROVE  Styled(line, style) \in Painted
<1>1. (IF line.size = 0 THEN "plain" ELSE line.mark) \in {"plain", "fence", "label", "dots"}
  OBVIOUS
<1>2. (IF line.size = 0 THEN "none" ELSE style) \in Styles
  BY DEF Styles
<1> QED
  BY <1>1, <1>2 DEF Styled, Painted

(* The rendering of a text has a painted line for each of its lines.       *)
LEMMA StyledLinesType ==
  ASSUME NEW text \in Seq(TextLines)
  PROVE  StyledLines(text) \in Seq(Painted)
<1>1. PICK open : open = FenceOpen(text)
  OBVIOUS
<1> DEFINE style(i) == IF open[i - 1]
                         THEN IF IsBareFence(text[i]) THEN "fence" ELSE "code"
                         ELSE IF IsFence(text[i]) THEN "fence" ELSE "none"
<1>2. StyledLines(text) = [i \in DOMAIN text |-> Styled(text[i], style(i))]
  BY <1>1 DEF StyledLines
<1>3. ASSUME NEW i \in DOMAIN text
      PROVE  Styled(text[i], style(i)) \in Painted
  <2>1. style(i) \in Styles
    BY DEF Styles
  <2>2. text[i] \in TextLines
    OBVIOUS
  <2> HIDE DEF style
  <2>3. text[i].mark \in {"plain", "fence", "label", "dots"} /\ text[i].size \in Nat
    BY <2>2 DEF TextLines
  <2> QED
    BY <2>1, <2>3, StyledType
<1> HIDE DEF style
<1>4. DOMAIN text = 1 .. Len(text) /\ Len(text) \in Nat
  OBVIOUS
<1> QED
  BY <1>2, <1>3, <1>4

(* A message is rendered to painted lines, whatever its line count says.   *)
LEMMA RenderType ==
  ASSUME NEW m, m.role \in Roles, m.text \in Texts, m.streaming \in BOOLEAN
  PROVE  Render(m) \in Seq(Painted) /\ Len(Render(m)) \in Nat
<1>1. m.text \in Seq(TextLines)
  BY DEF Texts, TextLines
<1>2. Blank \in Painted
  <2>1. "none" \in Styles
    BY DEF Styles
  <2>2. /\ TextLine("plain", 0).mark \in {"plain", "fence", "label", "dots"}
        /\ TextLine("plain", 0).size \in Nat
    BY DEF TextLine
  <2> QED
    BY <2>1, <2>2, StyledType DEF Blank
<1>3. LabelLine(m.role) \in Painted
  <2>1. "label_" \o m.role \in Styles
    BY DEF Styles
  <2>2. /\ TextLine("label", 1).mark \in {"plain", "fence", "label", "dots"}
        /\ TextLine("label", 1).size \in Nat
    BY DEF TextLine
  <2> QED
    BY <2>1, <2>2, StyledType DEF LabelLine
<1>4. Ellipsis \in Painted
  <2>1. "streaming" \in Styles
    BY DEF Styles
  <2>2. /\ TextLine("dots", 1).mark \in {"plain", "fence", "label", "dots"}
        /\ TextLine("dots", 1).size \in Nat
    BY DEF TextLine
  <2> QED
    BY <2>1, <2>2, StyledType DEF Ellipsis
<1>5. /\ <<Blank>> \in Seq(Painted) /\ <<LabelLine(m.role), Blank>> \in Seq(Painted)
      /\ << >> \in Seq(Painted) /\ <<Ellipsis>> \in Seq(Painted)
  BY <1>2, <1>3, <1>4
<1>6. CASE m.role = "user"
  <2> DEFINE q == [i \in DOMAIN m.text |-> Styled(m.text[i], "user")]
  <2>1. q \in Seq(Painted)
    <3>1. ASSUME NEW i \in DOMAIN m.text
          PROVE  Styled(m.text[i], "user") \in Painted
      <4>1. m.text[i] \in TextLines /\ "user" \in Styles
        BY <1>1 DEF Styles
      <4>2. m.text[i].mark \in {"plain", "fence", "label", "dots"} /\ m.text[i].size \in Nat
        BY <4>1 DEF TextLines
      <4> QED
        BY <4>1, <4>2, StyledType
    <3>2. DOMAIN m.text = 1 .. Len(m.text) /\ Len(m.text) \in Nat
      BY <1>1
    <3> QED
      BY <3>1, <3>2
  <2>2. Render(m) = q \o <<Blank>>
    BY <1>6 DEF Render
  <2> HIDE DEF q
  <2>3. q \o <<Blank>> \in Seq(Painted)
    BY <1>5, <2>1, ConcatElements
  <2> QED
    BY <2>2, <2>3, LenType
<1>7. CASE m.role # "user"
  <2>1. PICK u \in Seq(Painted) :
          u = IF m.streaming /\ m.text = EmptyText THEN <<>> ELSE StyledLines(m.text)
    BY <1>1, <1>5, StyledLinesType
  <2>2. PICK w \in Seq(Painted) : w = IF m.streaming THEN <<Ellipsis>> ELSE <<>>
    BY <1>5
  <2>3. Render(m) = <<LabelLine(m.role), Blank>> \o u \o w \o <<Blank>>
    BY <1>7, <2>1, <2>2 DEF Render
  <2>4. PICK a \in Seq(Painted) : a = <<LabelLine(m.role), Blank>>
    BY <1>5
  <2>5. PICK b \in Seq(Painted) : b = <<Blank>>
    BY <1>5
  <2>6. a \o u \in Seq(Painted)
    BY ConcatElements
  <2>7. a \o u \o w \in Seq(Painted)
    BY <2>6, ConcatElements
  <2>8. a \o u \o w \o b \in Seq(Painted)
    BY <2>7, ConcatElements
  <2> QED
    BY <2>3, <2>4, <2>5, <2>8, LenType
<1> QED
  BY <1>6, <1>7

(* Message counts the lines its message is rendered to. *)
LEMMA MessageType ==
  ASSUME NEW role \in Roles, NEW text \in Texts, NEW streaming \in BOOLEAN
  PROVE  /\ Message(role, text, streaming) \in Messages
         /\ Message(role, text, streaming).role = role
         /\ Message(role, text, streaming).text = text
         /\ Message(role, text, streaming).streaming = streaming
         /\ Message(role, text, streaming).count = Len(Render(Message(role, text, streaming)))
<1> DEFINE m == [role |-> role, text |-> text, streaming |-> streaming]
<1>1. m.role = role /\ m.text = text /\ m.streaming = streaming
  OBVIOUS
<1>2. Message(role, text, streaming)
        = [role |-> role, text |-> text, streaming |-> streaming, count |-> Len(Render(m))]
  BY DEF Message
<1> HIDE DEF m
<1>3. Len(Render(m)) \in Nat
  BY <1>1, RenderType
<1>4. PICK n : n = Message(role, text, streaming)
  OBVIOUS
<1>5. /\ n.role = role /\ n.text = text /\ n.streaming = streaming
      /\ n.count = Len(Render(m))
  BY <1>2, <1>4
<1>6. Render(n) = Render(m)
  BY <1>1, <1>5 DEF Render
<1>7. n \in Messages
  BY <1>2, <1>3, <1>4 DEF Messages
<1> QED
  BY <1>4, <1>5, <1>6, <1>7

(* The lines of some messages, and whether each knows how many it has.     *)
Renders(ms) == [i \in DOMAIN ms |-> Render(ms[i])]
Shown(ms) == FlattenSeq(Renders(ms))
Counted(ms) ==
  /\ ms \in Seq(Messages)
  /\ \A i \in DOMAIN ms : ms[i].count = Len(Render(ms[i]))

(* Each message has its rendering. *)
LEMMA RendersType ==
  ASSUME NEW ms \in Seq(Messages)
  PROVE  /\ Renders(ms) \in Seq(Seq(Painted)) /\ Len(Renders(ms)) = Len(ms)
         /\ \A i \in 1 .. Len(ms) : Renders(ms)[i] = Render(ms[i])
<1>1. DOMAIN ms = 1 .. Len(ms) /\ Len(ms) \in Nat
  OBVIOUS
<1>2. ASSUME NEW i \in 1 .. Len(ms)
      PROVE  Render(ms[i]) \in Seq(Painted)
  <2>1. ms[i] \in Messages
    OBVIOUS
  <2>2. ms[i].role \in Roles /\ ms[i].text \in Texts /\ ms[i].streaming \in BOOLEAN
    BY <2>1 DEF Messages
  <2> QED
    BY <2>2, RenderType
<1>3. Renders(ms) = [i \in 1 .. Len(ms) |-> Render(ms[i])]
  BY <1>1 DEF Renders
<1> QED
  BY <1>1, <1>2, <1>3

(* The lines of messages are painted lines. *)
LEMMA ShownType ==
  ASSUME NEW ms \in Seq(Messages)
  PROVE  Shown(ms) \in Seq(Painted)
BY RendersType, FlattenType DEF Shown

(* The lines of no message, of one more message.                           *)
LEMMA ShownNone == Shown(<< >>) = << >>
<1>1. << >> \in Seq(Messages) /\ Len(<< >>) = 0
  BY EmptyType
<1>2. Renders(<< >>) \in Seq(Seq(Painted)) /\ Len(Renders(<< >>)) = 0
  BY <1>1, RendersType
<1> QED
  BY <1>2, FlattenNone DEF Shown

(* The lines of one more message come behind all the others. *)
LEMMA ShownAppend ==
  ASSUME NEW ms \in Seq(Messages), NEW m \in Messages
  PROVE  Shown(Append(ms, m)) = Shown(ms) \o Render(m)
<1>1. PICK q \in Seq(Seq(Painted)) : q = Renders(ms)
  BY RendersType
<1>2. PICK e \in Seq(Painted) : e = Render(m)
  <2>1. m.role \in Roles /\ m.text \in Texts /\ m.streaming \in BOOLEAN
    BY DEF Messages
  <2> QED
    BY <2>1, RenderType
<1>3. PICK next \in Seq(Messages) : next = Append(ms, m)
  BY AppendType
<1>4. /\ Len(next) = Len(ms) + 1 /\ next[Len(ms) + 1] = m /\ Len(ms) \in Nat
      /\ \A i \in 1 .. Len(ms) : next[i] = ms[i]
  BY <1>3, AppendElements
<1>5. /\ Len(q) = Len(ms) /\ \A i \in 1 .. Len(ms) : q[i] = Render(ms[i])
  BY <1>1, RendersType
<1>6. /\ Renders(next) \in Seq(Seq(Painted)) /\ Len(Renders(next)) = Len(next)
      /\ \A i \in 1 .. Len(next) : Renders(next)[i] = Render(next[i])
  BY RendersType
<1>7. /\ Append(q, e) \in Seq(Seq(Painted)) /\ Len(Append(q, e)) = Len(q) + 1
      /\ Append(q, e)[Len(q) + 1] = e
      /\ \A i \in 1 .. Len(q) : Append(q, e)[i] = q[i]
  BY AppendElements
<1>8. Renders(next) = Append(q, e)
  <2>1. PICK r \in Seq(Seq(Painted)) : r = Append(q, e)
    BY <1>7
  <2>2. PICK t \in Seq(Seq(Painted)) : t = Renders(next)
    BY <1>6
  <2>3. Len(r) = Len(ms) + 1 /\ Len(t) = Len(ms) + 1
    BY <1>4, <1>5, <1>6, <1>7, <2>1, <2>2
  <2>4. ASSUME NEW i \in 1 .. Len(ms) + 1
        PROVE  t[i] = r[i]
    <3>1. CASE i \in 1 .. Len(ms)
      <4>1. r[i] = Render(ms[i])
        BY <1>5, <1>7, <2>1, <3>1
      <4>2. t[i] = Render(next[i])
        BY <1>4, <1>6, <2>2
      <4> QED
        BY <1>4, <3>1, <4>1, <4>2
    <3>2. CASE i = Len(ms) + 1
      <4>1. r[i] = Render(m)
        BY <1>2, <1>5, <1>7, <2>1, <3>2
      <4>2. t[i] = Render(next[i])
        BY <1>4, <1>6, <2>2
      <4> QED
        BY <1>4, <3>2, <4>1, <4>2
    <3> QED
      BY <1>4, <3>1, <3>2
  <2>5. r = t
    BY <2>3, <2>4
  <2> QED
    BY <2>1, <2>2, <2>5
<1>9. FlattenSeq(Append(q, e)) = FlattenSeq(q) \o e
  BY FlattenAppend
<1> QED
  BY <1>1, <1>2, <1>3, <1>8, <1>9 DEF Shown

(* The counts of messages that know them add up to all their lines.        *)
LEMMA CountsAdd ==
  ASSUME NEW ms, Counted(ms)
  PROVE  CountSum(ms) = Len(Shown(ms))
<1>1. PICK n \in Nat : n = Len(ms) /\ DOMAIN ms = 1 .. n /\ ms \in Seq(Messages)
  BY DEF Counted
<1>2. \A i \in 1 .. n : ms[i].count \in Nat /\ ms[i].count = Len(Render(ms[i]))
  <2>1. \A i \in 1 .. n : ms[i] \in Messages
    BY <1>1
  <2> QED
    BY <1>1, <2>1 DEF Counted, Messages
<1>9. PICK c \in [1 .. n -> Nat] : c = [i \in 1 .. n |-> ms[i].count]
  BY <1>2
<1>3. PICK f : Sums(f, c, 1 .. n) /\ CountSum(ms) = f[1 .. n]
  BY <1>1, <1>2, <1>9, CountSumIs
<1>4. \A i \in 1 .. n : c[i] = Len(Render(ms[i]))
  BY <1>2, <1>9
<1>5. PICK q \in Seq(Seq(Painted)) : q = Renders(ms)
  BY <1>1, RendersType
<1>6. Len(q) = n /\ \A i \in 1 .. n : q[i] = Render(ms[i])
  BY <1>1, <1>5, RendersType
<1>7. CASE n = 0
  <2>1. Shown(ms) = << >>
    BY <1>5, <1>6, <1>7, FlattenNone DEF Shown
  <2>2. f[1 .. n] = 0
    <3>1. 1 .. n = {}
      BY <1>7
    <3> QED
      BY <1>3, <3>1 DEF Sums
  <2>3. Len(<< >>) = 0
    BY EmptyType
  <2> QED
    BY <1>3, <2>1, <2>2, <2>3
<1>8. CASE n # 0
  <2>1. q # << >>
    BY <1>6, <1>8
  <2>2. PICK g : Joins(g, q, n, Painted) /\ FlattenSeq(q) = g[n]
    BY <1>6, <2>1, FlattenJoins
  <2> DEFINE T == {k \in Nat : k \in 1 .. n => f[1 .. k] = Len(g[k])}
  <2>3. 0 \in T
    OBVIOUS
  <2>4. ASSUME NEW k \in Nat, k \in T
        PROVE  k + 1 \in T
    <3> SUFFICES ASSUME k + 1 \in 1 .. n
                 PROVE  f[1 .. k + 1] = Len(g[k + 1])
      OBVIOUS
    <3>1. /\ 1 .. k + 1 = (1 .. k) \cup {k + 1} /\ k + 1 \in 1 .. n
          /\ 1 .. k \subseteq 1 .. n /\ k + 1 \notin 1 .. k
      OBVIOUS
    <3>2. IsFiniteSet(1 .. n)
      BY FS_Interval
    <3>3. f[1 .. k + 1] = f[1 .. k] + c[k + 1]
      <4>1. Grows(f, c, 1 .. n)
        BY <1>3, <3>2, SumsAdd
      <4>2. 1 .. k \in SUBSET (1 .. n) /\ k + 1 \in (1 .. n) \ (1 .. k)
        BY <3>1
      <4>3. f[(1 .. k) \cup {k + 1}] = f[1 .. k] + c[k + 1]
        BY <4>1, <4>2 DEF Grows
      <4> QED
        BY <3>1, <4>3
    <3>4. f[1 .. k + 1] = f[1 .. k] + Len(q[k + 1])
      BY <1>4, <1>6, <3>1, <3>3
    <3>5. CASE k = 0
      <4>1. f[1 .. k] = 0
        <5>1. 1 .. k = {}
          BY <3>5
        <5> QED
          BY <1>3, <5>1 DEF Sums
      <4>2. g[k + 1] = q[k + 1]
        BY <1>8, <2>2, <3>5 DEF Joins
      <4>3. Len(q[k + 1]) \in Nat
        <5>1. q[k + 1] \in Seq(Painted)
          BY <1>6
        <5> QED
          BY <5>1, LenType
      <4> QED
        BY <3>4, <4>1, <4>2, <4>3
    <3>6. CASE k # 0
      <4>1. k \in 1 .. n /\ k \in 1 .. n - 1
        BY <3>6
      <4>2. g[k + 1] = g[k] \o q[k + 1]
        BY <2>2, <4>1 DEF Joins
      <4>3. g[k] \in Seq(Painted)
        BY <2>2, <4>1 DEF Joins
      <4>4. q[k + 1] \in Seq(Painted)
        BY <1>6
      <4>5. Len(g[k] \o q[k + 1]) = Len(g[k]) + Len(q[k + 1])
        BY <4>3, <4>4, ConcatElements
      <4>6. f[1 .. k] = Len(g[k])
        BY <2>4, <4>1
      <4> QED
        BY <3>4, <4>2, <4>5, <4>6
    <3> QED
      BY <3>5, <3>6
  <2> HIDE DEF T
  <2>5. Nat \subseteq T
    BY <2>3, <2>4, NatSetInduction
  <2>6. n \in T
    BY <2>5
  <2>7. f[1 .. n] = Len(g[n])
    BY <1>8, <2>6 DEF T
  <2> QED
    BY <1>3, <1>5, <2>2, <2>7 DEF Shown
<1> QED
  BY <1>7, <1>8

(***************************************************************************)
(* Every change keeps the lines in step                                      *)
(***************************************************************************)

(* A splice leads to the lines the whole edit leads to, keeps what is      *)
(* above its start, and numbers its patch.                                 *)
LEMMA SpliceIsTheEdit ==
  ASSUME NEW start, NEW end, NEW new \in Seq(Painted),
         lines \in Seq(Painted), start \in 0 .. Len(lines), end \in start .. Len(lines),
         revision \in Nat, Splice(start, end, new)
  PROVE  /\ lines' = Patched(lines, Whole(start, end, new))
         /\ Len(lines') \in Nat /\ start <= Len(lines')
         /\ \A i \in 1 .. start : i \in DOMAIN lines' /\ lines'[i] = lines[i]
         /\ revision' = revision + 1 /\ patch'.revision = revision'
<1> DEFINE old == SubSeq(lines, start + 1, end)
<1>1. PICK p, s \in 0 .. Len(new) :
        /\ CommonStart(old, new, p)
        /\ CommonEnd(old, new, p, s)
        /\ LET cut == Trimmed(start, end, new, p, s)
           IN  /\ lines' = Patched(lines, cut)
               /\ patch' = [revision |-> revision + 1, start |-> cut.start,
                            end |-> cut.end, lines |-> cut.lines]
        /\ revision' = revision + 1
  BY DEF Splice
<1>2. /\ lines' = Patched(lines, Trimmed(start, end, new, p, s))
      /\ revision' = revision + 1 /\ patch'.revision = revision'
  BY <1>1
<1>3. IsEdit(Painted, lines, new, start, end, p, s)
  <2>1. Len(new) \in Nat
    BY LenType
  <2>2. p \in Nat /\ s \in Nat
    BY <2>1
  <2> QED
    BY <1>1, <2>2 DEF IsEdit
<1>4. lines' = Patched(lines, Whole(start, end, new))
  BY <1>2, <1>3, TrimmedPatchIsTheEdit
<1>5. PICK edit : edit = Whole(start, end, new)
  OBVIOUS
<1>6. edit.start = start /\ edit.end = end /\ edit.lines = new
  BY <1>5 DEF Whole
<1>7. Fits(Painted, lines, edit)
  BY <1>6 DEF Fits
<1>8. PICK after : after = lines'
  OBVIOUS
<1>9. /\ after \in Seq(Painted)
      /\ Len(after) = start + Len(new) + (Len(lines) - end)
      /\ \A i \in 1 .. start : after[i] = lines[i]
  <2>1. /\ Patched(lines, edit) \in Seq(Painted)
        /\ Len(Patched(lines, edit))
             = edit.start + Len(edit.lines) + (Len(lines) - edit.end)
        /\ \A i \in 1 .. edit.start : Patched(lines, edit)[i] = lines[i]
        /\ \A i \in 1 .. Len(edit.lines) : Patched(lines, edit)[edit.start + i] = edit.lines[i]
    BY <1>7, PatchedLines
  <2>2. after = Patched(lines, edit)
    BY <1>4, <1>5, <1>8
  <2> QED
    BY <1>6, <2>1, <2>2
<1>10. Len(after) \in Nat /\ DOMAIN after = 1 .. Len(after) /\ start <= Len(after)
  <2>1. Len(new) \in Nat /\ Len(lines) \in Nat
    BY LenType
  <2>2. Len(after) \in Nat /\ DOMAIN after = 1 .. Len(after)
    BY <1>9
  <2>3. start + Len(new) + (Len(lines) - end) >= start
    BY <2>1
  <2> QED
    BY <1>9, <2>2, <2>3
<1>11. \A i \in 1 .. start : i \in DOMAIN after
  BY <1>10
<1> QED
  BY <1>2, <1>4, <1>8, <1>9, <1>10, <1>11

(* An edit at the end of the lines, of the last of them, of all of them.   *)
LEMMA WholeAtEnd ==
  ASSUME NEW u \in Seq(Painted), NEW v \in Seq(Painted), NEW w \in Seq(Painted)
  PROVE  Patched(u \o v, Whole(Len(u), Len(u) + Len(v), w)) = u \o w
<1>1. PICK x : x = u \o v
  OBVIOUS
<1>2. PICK edit : edit = Whole(Len(u), Len(u) + Len(v), w)
  OBVIOUS
<1>3. /\ x \in Seq(Painted) /\ Len(u) \in Nat /\ Len(v) \in Nat
      /\ Len(x) = Len(u) + Len(v)
      /\ \A i \in 1 .. Len(u) : x[i] = u[i]
  BY <1>1, ConcatElements
<1>4. edit.start = Len(u) /\ edit.end = Len(u) + Len(v) /\ edit.lines = w
  BY <1>2 DEF Whole
<1>5. Fits(Painted, x, edit)
  BY <1>3, <1>4 DEF Fits
<1>6. PICK after : after = Patched(x, edit)
  OBVIOUS
<1>7. /\ after \in Seq(Painted)
      /\ Len(after) = Len(u) + Len(w) + (Len(x) - (Len(u) + Len(v)))
      /\ \A i \in 1 .. Len(u) : after[i] = x[i]
      /\ \A i \in 1 .. Len(w) : after[Len(u) + i] = w[i]
  <2>1. /\ Patched(x, edit) \in Seq(Painted)
        /\ Len(Patched(x, edit))
             = edit.start + Len(edit.lines) + (Len(x) - edit.end)
        /\ \A i \in 1 .. edit.start : Patched(x, edit)[i] = x[i]
        /\ \A i \in 1 .. Len(edit.lines) : Patched(x, edit)[edit.start + i] = edit.lines[i]
    BY <1>5, PatchedLines
  <2> QED
    BY <1>4, <1>6, <2>1
<1>8. PICK y : y = u \o w
  OBVIOUS
<1>9. /\ y \in Seq(Painted) /\ Len(w) \in Nat /\ Len(y) = Len(u) + Len(w)
      /\ \A i \in 1 .. Len(u) : y[i] = u[i]
      /\ \A i \in 1 .. Len(w) : y[Len(u) + i] = w[i]
  BY <1>8, ConcatElements
<1>10. Len(after) = Len(y)
  BY <1>3, <1>7, <1>9
<1>11. ASSUME NEW i \in 1 .. Len(after)
       PROVE  after[i] = y[i]
  <2>1. i \in Nat \ {0} /\ i <= Len(u) + Len(w)
    BY <1>3, <1>9, <1>10
  <2>2. CASE i <= Len(u)
    <3>1. i \in 1 .. Len(u)
      BY <2>1, <2>2
    <3> QED
      BY <1>3, <1>7, <1>9, <3>1
  <2>3. CASE i > Len(u)
    <3>1. PICK j \in 1 .. Len(w) : i = Len(u) + j
      <4>1. i - Len(u) \in 1 .. Len(w) /\ i = Len(u) + (i - Len(u))
        BY <1>3, <1>9, <2>1, <2>3
      <4> QED
        BY <4>1
    <3> QED
      BY <1>7, <1>9, <3>1
  <2> QED
    BY <1>3, <2>1, <2>2, <2>3
<1>12. after = y
  BY <1>7, <1>9, <1>10, <1>11, SameElements
<1> QED
  BY <1>1, <1>2, <1>6, <1>8, <1>12

(* The messages, what they are rendered to, and how many lines they have.  *)
InStep == Counted(messages) /\ lines = Shown(messages)

(* The lines of the messages in a transcript in step.                      *)
LEMMA InStepType ==
  ASSUME InStep
  PROVE  messages \in Seq(Messages) /\ lines \in Seq(Painted) /\ Len(lines) \in Nat
<1>1. messages \in Seq(Messages)
  BY DEF InStep, Counted
<1>2. Shown(messages) \in Seq(Painted)
  BY <1>1, ShownType
<1> QED
  BY <1>1, <1>2, LenType DEF InStep

(* Messages that know their lines, and one more that does.                 *)
LEMMA CountedAppend ==
  ASSUME NEW ms, Counted(ms), NEW m \in Messages, m.count = Len(Render(m))
  PROVE  Counted(Append(ms, m))
<1>1. ms \in Seq(Messages) /\ DOMAIN ms = 1 .. Len(ms) /\ Len(ms) \in Nat
      /\ \A i \in 1 .. Len(ms) : ms[i].count = Len(Render(ms[i]))
  BY DEF Counted
<1>2. PICK next : next = Append(ms, m)
  OBVIOUS
<1>3. /\ next \in Seq(Messages) /\ Len(next) = Len(ms) + 1 /\ next[Len(ms) + 1] = m
      /\ \A i \in 1 .. Len(ms) : next[i] = ms[i]
  BY <1>1, <1>2, AppendElements
<1>4. DOMAIN next = 1 .. Len(ms) + 1
  BY <1>1, <1>3
<1>5. ASSUME NEW i \in DOMAIN next
      PROVE  next[i].count = Len(Render(next[i]))
  <2>1. CASE i \in 1 .. Len(ms)
    BY <1>1, <1>3, <2>1
  <2>2. CASE i = Len(ms) + 1
    BY <1>3, <2>2
  <2> QED
    BY <1>1, <1>4, <2>1, <2>2
<1> QED
  BY <1>2, <1>3, <1>5 DEF Counted

(* push_message: the message's lines come after all the others.            *)
LEMMA PushInStep ==
  ASSUME InStep, revision \in Nat, NEW m \in Messages, m.count = Len(Render(m)),
         PushMessage(m)
  PROVE  /\ InStep' /\ messages' = Append(messages, m)
         /\ revision' = revision + 1 /\ patch'.revision = revision'
         /\ \A i \in 1 .. Len(lines) : i \in DOMAIN lines' /\ lines'[i] = lines[i]
<1>1. messages \in Seq(Messages) /\ lines \in Seq(Painted) /\ Len(lines) \in Nat
  BY InStepType
<1>2. Render(m) \in Seq(Painted)
  <2>1. m.role \in Roles /\ m.text \in Texts /\ m.streaming \in BOOLEAN
    BY DEF Messages
  <2> QED
    BY <2>1, RenderType
<1>3. messages' = Append(messages, m) /\ Splice(Len(lines), Len(lines), Render(m))
  BY DEF PushMessage
<1>4. /\ lines' = Patched(lines, Whole(Len(lines), Len(lines), Render(m)))
      /\ \A i \in 1 .. Len(lines) : i \in DOMAIN lines' /\ lines'[i] = lines[i]
      /\ revision' = revision + 1 /\ patch'.revision = revision'
  <2>1. Len(lines) \in 0 .. Len(lines) /\ Len(lines) \in Len(lines) .. Len(lines)
    BY <1>1
  <2> QED
    BY <1>1, <1>2, <1>3, <2>1, SpliceIsTheEdit
<1>5. lines' = lines \o Render(m)
  <2>1. PICK u \in Seq(Painted) : u = lines
    BY <1>1
  <2>2. PICK w \in Seq(Painted) : w = Render(m)
    BY <1>2
  <2>3. << >> \in Seq(Painted) /\ Len(<< >>) = 0 /\ u \o << >> = u
    OBVIOUS
  <2>4. Patched(u \o << >>, Whole(Len(u), Len(u) + Len(<< >>), w)) = u \o w
    BY <2>3, WholeAtEnd
  <2>5. Len(u) + Len(<< >>) = Len(u)
    BY <2>3
  <2> QED
    BY <1>4, <2>1, <2>2, <2>3, <2>4, <2>5
<1>6. Shown(Append(messages, m)) = Shown(messages) \o Render(m)
  BY <1>1, ShownAppend
<1>7. Counted(Append(messages, m))
  BY CountedAppend DEF InStep
<1> QED
  BY <1>3, <1>4, <1>5, <1>6, <1>7 DEF InStep

(* The messages before the last one.                                       *)
LEMMA LastApart ==
  ASSUME NEW ms, Counted(ms), ms # << >>
  PROVE  \E front : /\ Counted(front) /\ ms = Append(front, Last(ms))
                    /\ front = SubSeq(ms, 1, Len(ms) - 1) /\ Len(ms) = Len(front) + 1
                    /\ Last(ms) \in Messages /\ Last(ms).count = Len(Render(Last(ms)))
                    /\ \A m \in Messages : [ms EXCEPT ![Len(ms)] = m] = Append(front, m)
<1>1. ms \in Seq(Messages) /\ DOMAIN ms = 1 .. Len(ms) /\ Len(ms) \in Nat \ {0}
      /\ \A i \in 1 .. Len(ms) : ms[i].count = Len(Render(ms[i]))
  BY DEF Counted
<1>2. PICK n \in Nat : Len(ms) = n + 1
  <2>1. Len(ms) - 1 \in Nat /\ Len(ms) = (Len(ms) - 1) + 1
    BY <1>1
  <2> QED
    BY <2>1
<1>3. PICK front : front = SubSeq(ms, 1, n)
  OBVIOUS
<1>4. /\ front \in Seq(Messages) /\ Len(front) = n
      /\ \A i \in 1 .. n : front[i] = ms[i]
  <2>1. n \in 0 .. Len(ms)
    BY <1>2
  <2> QED
    BY <1>1, <1>3, <2>1, PrefixElements
<1>5. n + 1 \in 1 .. Len(ms) /\ Last(ms) = ms[n + 1] /\ Last(ms) \in Messages
  BY <1>1, <1>2 DEF Last
<1>6. Counted(front)
  <2>1. DOMAIN front = 1 .. n
    BY <1>4
  <2>2. \A i \in 1 .. n : front[i].count = Len(Render(front[i]))
    BY <1>1, <1>2, <1>4
  <2> QED
    BY <1>4, <2>1, <2>2 DEF Counted
<1>7. ASSUME NEW m \in Messages
      PROVE  [ms EXCEPT ![Len(ms)] = m] = Append(front, m)
  <2>1. PICK a : a = Append(front, m)
    OBVIOUS
  <2>2. /\ a \in Seq(Messages) /\ Len(a) = n + 1 /\ a[n + 1] = m
        /\ \A i \in 1 .. n : a[i] = front[i]
    BY <1>4, <2>1, AppendElements
  <2>3. PICK b : b = [ms EXCEPT ![Len(ms)] = m]
    OBVIOUS
  <2>4. /\ b \in Seq(Messages) /\ Len(b) = n + 1 /\ b[n + 1] = m
        /\ \A i \in 1 .. n : b[i] = ms[i]
    BY <1>1, <1>2, <2>3
  <2>5. \A i \in 1 .. Len(a) : a[i] = b[i]
    <3>1. ASSUME NEW i \in 1 .. n + 1
          PROVE  a[i] = b[i]
      <4>1. CASE i \in 1 .. n
        BY <1>4, <2>2, <2>4, <4>1
      <4>2. CASE i = n + 1
        BY <2>2, <2>4, <4>2
      <4> QED
        BY <4>1, <4>2
    <3> QED
      BY <2>2, <3>1
  <2>6. a = b
    BY <2>2, <2>4, <2>5, SameElements
  <2> QED
    BY <2>1, <2>3, <2>6
<1>8. ms = Append(front, Last(ms))
  <2>1. [ms EXCEPT ![Len(ms)] = Last(ms)] = ms
    BY <1>1, <1>2, <1>5
  <2> QED
    BY <1>5, <1>7, <2>1
<1>9. Last(ms).count = Len(Render(Last(ms)))
  BY <1>1, <1>5
<1>10. front = SubSeq(ms, 1, Len(ms) - 1)
  BY <1>2, <1>3
<1> QED
  BY <1>2, <1>4, <1>5, <1>6, <1>7, <1>8, <1>9, <1>10

(* set_message of the last message: its lines are the last ones.           *)
LEMMA SetInStep ==
  ASSUME InStep, revision \in Nat, messages # << >>,
         NEW m \in Messages, m.count = Len(Render(m)), SetMessage(Len(messages), m)
  PROVE  /\ InStep' /\ messages' = [messages EXCEPT ![Len(messages)] = m]
         /\ revision' = revision + 1 /\ patch'.revision = revision'
         /\ \A i \in 1 .. Len(lines) - Last(messages).count :
              i \in DOMAIN lines' /\ lines'[i] = lines[i]
<1>1. messages \in Seq(Messages) /\ lines \in Seq(Painted) /\ Len(lines) \in Nat
  BY InStepType
<1>2. PICK front :
        /\ Counted(front) /\ messages = Append(front, Last(messages))
        /\ front = SubSeq(messages, 1, Len(messages) - 1) /\ Len(messages) = Len(front) + 1
        /\ Last(messages) \in Messages /\ Last(messages).count = Len(Render(Last(messages)))
        /\ \A e \in Messages : [messages EXCEPT ![Len(messages)] = e] = Append(front, e)
  BY LastApart DEF InStep
<1>3. front \in Seq(Messages)
  BY <1>2 DEF Counted
<1>4. PICK u \in Seq(Painted) : u = Shown(front)
  BY <1>3, ShownType
<1>5. PICK v \in Seq(Painted) : v = Render(Last(messages))
  <2>1. /\ Last(messages).role \in Roles /\ Last(messages).text \in Texts
        /\ Last(messages).streaming \in BOOLEAN
    BY <1>2 DEF Messages
  <2> QED
    BY <2>1, RenderType
<1>6. PICK w \in Seq(Painted) : w = Render(m)
  <2>1. m.role \in Roles /\ m.text \in Texts /\ m.streaming \in BOOLEAN
    BY DEF Messages
  <2> QED
    BY <2>1, RenderType
<1>7. lines = u \o v
  <2>1. Shown(Append(front, Last(messages))) = Shown(front) \o Render(Last(messages))
    BY <1>2, <1>3, ShownAppend
  <2> QED
    BY <1>2, <1>4, <1>5, <2>1 DEF InStep
<1>8. /\ Len(u) \in Nat /\ Len(v) \in Nat /\ Len(lines) = Len(u) + Len(v)
      /\ Last(messages).count = Len(v)
  BY <1>2, <1>5, <1>7, ConcatElements
<1>9. CountSum(front) = Len(u)
  BY <1>2, <1>4, CountsAdd
<1>10. /\ messages' = [messages EXCEPT ![Len(messages)] = m]
       /\ Splice(Len(u), Len(u) + Len(v), w)
  <2>1. /\ messages' = [messages EXCEPT ![Len(messages)] = m]
        /\ Splice(CountSum(SubSeq(messages, 1, Len(messages) - 1)),
                  CountSum(SubSeq(messages, 1, Len(messages) - 1))
                    + messages[Len(messages)].count, Render(m))
    BY DEF SetMessage, CountSum
  <2>2. messages[Len(messages)].count = Len(v)
    BY <1>8 DEF Last
  <2> QED
    BY <1>2, <1>6, <1>9, <2>1, <2>2
<1>11. /\ lines' = Patched(lines, Whole(Len(u), Len(u) + Len(v), w))
       /\ \A i \in 1 .. Len(u) : i \in DOMAIN lines' /\ lines'[i] = lines[i]
       /\ revision' = revision + 1 /\ patch'.revision = revision'
  <2>1. PICK a, b : a = Len(u) /\ b = Len(u) + Len(v)
    OBVIOUS
  <2>2. a \in 0 .. Len(lines) /\ b \in a .. Len(lines) /\ Splice(a, b, w)
    BY <1>8, <1>10, <2>1
  <2>3. /\ lines' = Patched(lines, Whole(a, b, w))
        /\ \A i \in 1 .. a : i \in DOMAIN lines' /\ lines'[i] = lines[i]
        /\ revision' = revision + 1 /\ patch'.revision = revision'
    BY <1>1, <2>2, SpliceIsTheEdit
  <2> QED
    BY <2>1, <2>3
<1>12. lines' = u \o w
  BY <1>7, <1>11, WholeAtEnd
<1>13. messages' = Append(front, m)
  BY <1>2, <1>10
<1>14. Shown(Append(front, m)) = Shown(front) \o Render(m)
  BY <1>3, ShownAppend
<1>15. Counted(Append(front, m))
  BY <1>2, CountedAppend
<1>16. InStep'
  BY <1>4, <1>6, <1>12, <1>13, <1>14, <1>15 DEF InStep
<1>17. Len(lines) - Last(messages).count = Len(u)
  BY <1>8
<1> QED
  BY <1>10, <1>11, <1>16, <1>17

(* replace_history: all the lines become those of the reported messages.   *)
LEMMA ReplaceInStep ==
  ASSUME InStep, revision \in Nat, NEW ms, Counted(ms), messages' = ms,
         Splice(0, Len(lines), Shown(ms))
  PROVE  InStep' /\ revision' = revision + 1 /\ patch'.revision = revision'
<1>1. messages \in Seq(Messages) /\ lines \in Seq(Painted) /\ Len(lines) \in Nat
  BY InStepType
<1>2. PICK w \in Seq(Painted) : w = Shown(ms)
  BY ShownType DEF Counted
<1>3. /\ lines' = Patched(lines, Whole(0, Len(lines), w))
      /\ revision' = revision + 1 /\ patch'.revision = revision'
  <2>1. PICK a, b : a = 0 /\ b = Len(lines)
    OBVIOUS
  <2>2. a \in 0 .. Len(lines) /\ b \in a .. Len(lines) /\ Splice(a, b, w)
    BY <1>1, <1>2, <2>1
  <2>3. /\ lines' = Patched(lines, Whole(a, b, w))
        /\ revision' = revision + 1 /\ patch'.revision = revision'
    BY <1>1, <2>2, SpliceIsTheEdit
  <2> QED
    BY <2>1, <2>3
<1>4. lines' = w
  <2>1. PICK u \in Seq(Painted) : u = << >>
    BY EmptyType
  <2>2. PICK v \in Seq(Painted) : v = lines
    BY <1>1
  <2>3. u \o v = v /\ u \o w = w /\ Len(u) = 0 /\ Len(u) + Len(v) = Len(v)
    BY <2>1
  <2>4. Patched(u \o v, Whole(Len(u), Len(u) + Len(v), w)) = u \o w
    BY WholeAtEnd
  <2> QED
    BY <1>3, <2>2, <2>3, <2>4
<1> QED
  BY <1>2, <1>3, <1>4 DEF InStep

(* Every open stream is an assistant's, and is the last message, if it may *)
(* be open now, or an input came right behind it.                          *)
Streams(ms, now) ==
  \A i \in DOMAIN ms :
    ms[i].streaming =>
      /\ ms[i].role = "assistant"
      /\ IF i = Len(ms) THEN now ELSE ms[i + 1].role = "user"

(* One more message, which steers the last one if that is streaming.       *)
LEMMA StreamsAppend ==
  ASSUME NEW ms \in Seq(Messages), NEW old, NEW now \in BOOLEAN, Streams(ms, old),
         NEW m \in Messages, m.streaming => m.role = "assistant" /\ now,
         m.role = "user" \/ ms = << >> \/ ~Last(ms).streaming
  PROVE  Streams(Append(ms, m), now)
<1>1. PICK n \in Nat : n = Len(ms) /\ DOMAIN ms = 1 .. n
  OBVIOUS
<1>2. PICK next : next = Append(ms, m)
  OBVIOUS
<1>3. /\ Len(next) = n + 1 /\ DOMAIN next = 1 .. n + 1 /\ next[n + 1] = m
      /\ \A i \in 1 .. n : next[i] = ms[i]
  <2>1. /\ next \in Seq(Messages) /\ Len(next) = Len(ms) + 1 /\ next[Len(ms) + 1] = m
        /\ \A i \in 1 .. Len(ms) : next[i] = ms[i]
    BY <1>2, AppendElements
  <2>2. DOMAIN next = 1 .. n + 1
    BY <1>1, <2>1
  <2> QED
    BY <1>1, <2>1, <2>2
<1>4. ASSUME NEW i \in 1 .. n + 1, next[i].streaming
      PROVE  /\ next[i].role = "assistant"
             /\ IF i = n + 1 THEN now ELSE next[i + 1].role = "user"
  <2>1. CASE i = n + 1
    BY <1>3, <1>4, <2>1
  <2>2. CASE i = n
    <3>1. i \in 1 .. n /\ next[i] = ms[i] /\ i # n + 1
      BY <1>3, <2>2
    <3>2. ms[i].role = "assistant"
      BY <1>1, <1>4, <3>1 DEF Streams
    <3>3. m.role = "user"
      <4>1. ms # << >> /\ Last(ms) = ms[i]
        BY <1>1, <2>2, <3>1 DEF Last
      <4> QED
        BY <1>4, <3>1, <4>1
    <3> QED
      BY <1>3, <2>2, <3>1, <3>2, <3>3
  <2>3. CASE i < n
    <3>1. i \in 1 .. n /\ i + 1 \in 1 .. n /\ i # n /\ i # n + 1
      BY <2>3
    <3>2. next[i] = ms[i] /\ next[i + 1] = ms[i + 1]
      BY <1>3, <3>1
    <3>3. ms[i].role = "assistant" /\ ms[i + 1].role = "user"
      BY <1>1, <1>4, <3>1, <3>2 DEF Streams
    <3> QED
      BY <3>1, <3>2, <3>3
  <2> QED
    BY <2>1, <2>2, <2>3
<1>5. Streams(next, now)
  BY <1>3, <1>4 DEF Streams
<1> QED
  BY <1>2, <1>5

(* The last message of an assistant, replaced by another.                  *)
LEMMA StreamsSet ==
  ASSUME NEW ms \in Seq(Messages), NEW old, NEW now \in BOOLEAN, Streams(ms, old),
         ms # << >>, Last(ms).role = "assistant",
         NEW m \in Messages, m.role = "assistant", m.streaming => now
  PROVE  Streams([ms EXCEPT ![Len(ms)] = m], now)
<1>1. PICK n \in Nat \ {0} : n = Len(ms) /\ DOMAIN ms = 1 .. n
  OBVIOUS
<1>2. PICK next : next = [ms EXCEPT ![n] = m]
  OBVIOUS
<1>3. /\ Len(next) = n /\ DOMAIN next = 1 .. n /\ next[n] = m
      /\ \A i \in 1 .. n - 1 : next[i] = ms[i]
  BY <1>1, <1>2
<1>4. ms[n].role = "assistant"
  BY <1>1 DEF Last
<1>5. ASSUME NEW i \in 1 .. n, next[i].streaming
      PROVE  /\ next[i].role = "assistant"
             /\ IF i = n THEN now ELSE next[i + 1].role = "user"
  <2>1. CASE i = n
    BY <1>3, <1>5, <2>1
  <2>2. CASE i = n - 1
    <3>1. i \in 1 .. n - 1 /\ i + 1 = n /\ i # n /\ next[i] = ms[i]
      BY <1>3, <2>2
    <3>2. ms[n].role = "user"
      BY <1>1, <1>5, <3>1 DEF Streams
    <3> QED
      BY <1>4, <3>2
  <2>3. CASE i < n - 1
    <3>1. i \in 1 .. n - 1 /\ i + 1 \in 1 .. n - 1 /\ i # n
      BY <2>3
    <3>2. next[i] = ms[i] /\ next[i + 1] = ms[i + 1]
      BY <1>3, <3>1
    <3>3. ms[i].role = "assistant" /\ ms[i + 1].role = "user"
      BY <1>1, <1>5, <3>1, <3>2 DEF Streams
    <3> QED
      BY <3>1, <3>2, <3>3
  <2> QED
    BY <2>1, <2>2, <2>3
<1>6. Streams(next, now)
  BY <1>3, <1>5 DEF Streams
<1> QED
  BY <1>1, <1>2, <1>6

(* The turn moves on and no message changes.                               *)
LEMMA StreamsTurn ==
  ASSUME NEW ms \in Seq(Messages), NEW old, NEW now \in BOOLEAN, Streams(ms, old),
         ms = << >> \/ ~Last(ms).streaming \/ now
  PROVE  Streams(ms, now)
<1>1. ASSUME NEW i \in DOMAIN ms, ms[i].streaming, i = Len(ms)
      PROVE  now
  <2>1. ms # << >> /\ Last(ms) = ms[i]
    BY <1>1 DEF Last
  <2> QED
    BY <1>1, <2>1
<1> QED
  BY <1>1 DEF Streams

(* streaming_assistant finds nothing: the last message, if any, is done.   *)
LEMMA NotStreaming ==
  ASSUME messages \in Seq(Messages), NEW old, Streams(messages, old), ~IsStreaming
  PROVE  messages = << >> \/ ~Last(messages).streaming
<1> SUFFICES ASSUME messages # << >>, Last(messages).streaming
             PROVE  FALSE
  OBVIOUS
<1>1. Len(messages) \in DOMAIN messages /\ Last(messages) = messages[Len(messages)]
  BY DEF Last
<1>2. Last(messages).role = "assistant"
  BY <1>1 DEF Streams
<1> QED
  BY <1>2 DEF IsStreaming

(* What a delta makes of a text is a text.                                 *)
LEMMA ExtendedType ==
  ASSUME NEW text \in Texts
  PROVE  Extended(text) \subseteq Texts
<1>1. text \in Seq(TextLines) /\ text # << >>
  BY DEF Texts, TextLines
<1>2. Len(text) \in DOMAIN text /\ text[Len(text)] \in TextLines
  BY <1>1
<1>3. text[Len(text)].mark \in {"plain", "fence"} /\ text[Len(text)].size + 1 \in Nat
  BY <1>2 DEF TextLines
<1>4. Append(text, TextLine("plain", 0)) \in Texts
  <2>1. TextLine("plain", 0) \in TextLines
    BY DEF TextLine, TextLines
  <2>2. PICK s \in Seq(TextLines) : s = Append(text, TextLine("plain", 0))
    BY <1>1, <2>1, AppendType
  <2>3. s # << >>
    <3>1. Len(s) = Len(text) + 1 /\ Len(text) \in Nat
      BY <1>1, <2>1, <2>2, AppendElements
    <3>2. Len(<< >>) = 0
      OBVIOUS
    <3> QED
      BY <3>1, <3>2
  <2> QED
    BY <2>2, <2>3 DEF Texts, TextLines
<1>5. ASSUME NEW mark \in {"plain", "fence"}
      PROVE  ReplaceAt(text, Len(text), TextLine(mark, text[Len(text)].size + 1)) \in Texts
  <2>1. PICK line \in TextLines : line = TextLine(mark, text[Len(text)].size + 1)
    BY <1>3 DEF TextLine, TextLines
  <2>2. PICK s : s = [text EXCEPT ![Len(text)] = line]
    OBVIOUS
  <2>3. s \in Seq(TextLines) /\ Len(s) = Len(text) /\ Len(text) # 0
    BY <1>1, <2>2
  <2>4. s # << >>
    BY <2>3
  <2> QED
    BY <2>1, <2>2, <2>3, <2>4 DEF Texts, TextLines, ReplaceAt
<1>6. (IF text[Len(text)].size = 0 THEN {"plain", "fence"} ELSE {text[Len(text)].mark})
        \subseteq {"plain", "fence"}
  BY <1>3
<1> QED
  BY <1>4, <1>5, <1>6 DEF Extended

(* The empty text has one line. *)
LEMMA EmptyTextType == EmptyText \in Texts
<1>1. TextLine("plain", 0) \in TextLines
  BY DEF TextLine, TextLines
<1>2. <<TextLine("plain", 0)>> \in Seq(TextLines) /\ <<TextLine("plain", 0)>> # << >>
  BY <1>1
<1> QED
  BY <1>2 DEF EmptyText, Texts, TextLines

(* The lines and messages are in step, a message streams only with a       *)
(* reason, and the revisions are in bounds.                                *)
TranscriptInv ==
  /\ InStep
  /\ Streams(messages, turn \/ stray)
  /\ revision \in 0 .. MaxRevision
  /\ patch.revision = revision
  /\ state \in {"ready", "running", "waiting", "gone"}
  /\ turn \in BOOLEAN
  /\ stray \in BOOLEAN

(* What FinishedLinesStay asks of a step that is not a reported history.   *)
Stays ==
  \A i \in 1 .. Len(lines) - (IF IsStreaming THEN Last(messages).count ELSE 0) :
    i \in DOMAIN lines' /\ lines'[i] = lines[i]

(* What every change of the transcript leaves behind: the streams apart.   *)
Changed ==
  /\ InStep'
  /\ revision' \in {revision, revision + 1} /\ patch'.revision = revision'
  /\ Stays

(* The count of the last message is the length of a part of the lines.     *)
LEMMA LastCount ==
  ASSUME InStep, messages # << >>
  PROVE  Last(messages) \in Messages /\ Last(messages).count \in Nat
<1>1. messages \in Seq(Messages)
  BY InStepType
<1>2. Last(messages) \in Messages
  BY <1>1 DEF Last
<1> QED
  BY <1>2 DEF Messages

(* A pushed message leaves every line that was there alone. *)
LEMMA PushChanges ==
  ASSUME TranscriptInv, NEW m \in Messages, m.count = Len(Render(m)), PushMessage(m)
  PROVE  Changed /\ messages' = Append(messages, m)
<1>1. InStep /\ revision \in Nat
  BY TranscriptAssumption DEF TranscriptInv
<1>2. /\ InStep' /\ messages' = Append(messages, m)
      /\ revision' = revision + 1 /\ patch'.revision = revision'
      /\ \A i \in 1 .. Len(lines) : i \in DOMAIN lines' /\ lines'[i] = lines[i]
  BY <1>1, PushInStep
<1>3. PICK c \in Nat : c = IF IsStreaming THEN Last(messages).count ELSE 0
  <2>1. IsStreaming => Last(messages).count \in Nat
    BY <1>1, LastCount DEF IsStreaming
  <2> QED
    BY <2>1
<1>4. Len(lines) \in Nat
  BY <1>1, InStepType
<1>5. \A i \in 1 .. Len(lines) - c : i \in 1 .. Len(lines)
  BY <1>3, <1>4
<1>6. Stays
  BY <1>2, <1>3, <1>5 DEF Stays
<1> QED
  BY <1>2, <1>6 DEF Changed

(* The streaming message set anew leaves the lines above it alone. *)
LEMMA SetChanges ==
  ASSUME TranscriptInv, IsStreaming, NEW m \in Messages, m.count = Len(Render(m)),
         SetMessage(Len(messages), m)
  PROVE  Changed /\ messages' = [messages EXCEPT ![Len(messages)] = m]
<1>1. InStep /\ revision \in Nat /\ messages # << >>
  BY TranscriptAssumption DEF TranscriptInv, IsStreaming
<1>2. /\ InStep' /\ messages' = [messages EXCEPT ![Len(messages)] = m]
      /\ revision' = revision + 1 /\ patch'.revision = revision'
      /\ \A i \in 1 .. Len(lines) - Last(messages).count :
           i \in DOMAIN lines' /\ lines'[i] = lines[i]
  BY <1>1, SetInStep
<1>3. Stays
  BY <1>2 DEF Stays
<1> QED
  BY <1>2, <1>3 DEF Changed

(* Nothing happens to the transcript. *)
LEMMA NothingChanges ==
  ASSUME TranscriptInv, NoChange
  PROVE  Changed /\ messages' = messages
<1>1. InStep /\ Len(lines) \in Nat /\ DOMAIN lines = 1 .. Len(lines)
  <2>1. lines \in Seq(Painted)
    BY InStepType DEF TranscriptInv
  <2> QED
    BY <2>1 DEF TranscriptInv
<1>2. UNCHANGED <<messages, lines, revision, patch>>
  BY DEF NoChange
<1>3. InStep'
  BY <1>1, <1>2 DEF InStep
<1>4. PICK c \in Nat : c = IF IsStreaming THEN Last(messages).count ELSE 0
  <2>1. IsStreaming => Last(messages).count \in Nat
    BY <1>1, LastCount DEF IsStreaming
  <2> QED
    BY <2>1
<1>5. \A i \in 1 .. Len(lines) - c : i \in DOMAIN lines
  BY <1>1, <1>4
<1>6. Stays
  BY <1>2, <1>4, <1>5 DEF Stays
<1> QED
  BY <1>2, <1>3, <1>6 DEF Changed, TranscriptInv

(* The invariant, once lines and streams are accounted for.                *)
LEMMA InvAfter ==
  ASSUME TranscriptInv, revision < MaxRevision, Changed,
         Streams(messages', turn' \/ stray'),
         state' \in {"ready", "running", "waiting", "gone"},
         turn' \in BOOLEAN, stray' \in BOOLEAN
  PROVE  TranscriptInv' /\ Stays
<1>1. revision' \in 0 .. MaxRevision
  BY TranscriptAssumption DEF TranscriptInv, Changed
<1> QED
  BY <1>1 DEF TranscriptInv, Changed

(* record_user_input                                                       *)
LEMMA InputKeeps ==
  ASSUME TranscriptInv, revision < MaxRevision, NEW text \in UserTexts,
         Prompt(text) \/ Steer(text)
  PROVE  TranscriptInv' /\ Stays
<1> DEFINE m == Message("user", text, FALSE)
<1>1. /\ m \in Messages /\ m.role = "user" /\ m.streaming = FALSE
      /\ m.count = Len(Render(m))
  <2>1. text \in Texts /\ "user" \in Roles /\ FALSE \in BOOLEAN
    BY TranscriptAssumption DEF Roles
  <2> QED
    BY <2>1, MessageType
<1> HIDE DEF m
<1>2. /\ state' = "running" /\ turn' = turn /\ stray' = FALSE
      /\ PushMessage(m)
  BY DEF Prompt, Steer, m
<1>3. Changed /\ messages' = Append(messages, m)
  BY <1>1, <1>2, PushChanges
<1>4. messages \in Seq(Messages) /\ Streams(messages, turn \/ stray)
  BY InStepType DEF TranscriptInv
<1>5. Streams(messages', turn' \/ stray')
  BY <1>1, <1>3, <1>4, StreamsAppend
<1>6. turn' \in BOOLEAN /\ stray' \in BOOLEAN
  BY <1>2 DEF TranscriptInv
<1> QED
  BY <1>2, <1>3, <1>5, <1>6, InvAfter

(* An event the transcript is not told of: a turn begins, a request is     *)
(* made or resolved, a command channel is found closed.                    *)
LEMMA SilenceKeeps ==
  ASSUME TranscriptInv, revision < MaxRevision,
         ChannelClosed \/ TurnStarted \/ Asks \/ Resolves
  PROVE  TranscriptInv' /\ Stays
<1>1. NoChange /\ turn' \in {turn, TRUE} /\ stray' = stray
  BY DEF ChannelClosed, TurnStarted, Asks, Resolves
<1>2. Changed /\ messages' = messages
  BY <1>1, NothingChanges
<1>3. Streams(messages', turn' \/ stray')
  <2>1. turn \/ stray => turn' \/ stray'
    BY <1>1 DEF TranscriptInv
  <2>2. Streams(messages, turn \/ stray)
    BY DEF TranscriptInv
  <2> QED
    BY <1>2, <2>1, <2>2 DEF Streams
<1>4. state' \in {"ready", "running", "waiting", "gone"}
  BY DEF ChannelClosed, TurnStarted, Asks, Resolves
<1>5. turn' \in BOOLEAN /\ stray' \in BOOLEAN
  BY <1>1 DEF TranscriptInv
<1> QED
  BY <1>2, <1>3, <1>4, <1>5, InvAfter

(* A message of the assistant: the last one extended or finished, or a new *)
(* one, open only if it may be now.                                        *)
LEMMA AssistantSets ==
  ASSUME TranscriptInv, IsStreaming, NEW text \in Texts, NEW streaming \in BOOLEAN,
         NEW now \in BOOLEAN, streaming => now,
         SetMessage(Len(messages), Message("assistant", text, streaming))
  PROVE  Changed /\ Streams(messages', now)
<1> DEFINE m == Message("assistant", text, streaming)
<1>1. /\ m \in Messages /\ m.role = "assistant" /\ m.streaming = streaming
      /\ m.count = Len(Render(m))
  BY MessageType DEF Roles
<1> HIDE DEF m
<1>2. SetMessage(Len(messages), m)
  BY DEF m
<1>3. Changed /\ messages' = [messages EXCEPT ![Len(messages)] = m]
  BY <1>1, <1>2, SetChanges
<1>4. messages \in Seq(Messages) /\ Streams(messages, turn \/ stray)
  BY InStepType DEF TranscriptInv
<1>5. messages # << >> /\ Last(messages).role = "assistant"
  BY DEF IsStreaming
<1>6. Streams([messages EXCEPT ![Len(messages)] = m], now)
  BY <1>1, <1>4, <1>5, StreamsSet
<1> QED
  BY <1>3, <1>6

(* A new message of the assistant, when none streams. *)
LEMMA AssistantPushes ==
  ASSUME TranscriptInv, ~IsStreaming, NEW text \in Texts, NEW streaming \in BOOLEAN,
         NEW now \in BOOLEAN, streaming => now,
         PushMessage(Message("assistant", text, streaming))
  PROVE  Changed /\ Streams(messages', now)
<1> DEFINE m == Message("assistant", text, streaming)
<1>1. /\ m \in Messages /\ m.role = "assistant" /\ m.streaming = streaming
      /\ m.count = Len(Render(m))
  BY MessageType DEF Roles
<1> HIDE DEF m
<1>2. PushMessage(m)
  BY DEF m
<1>3. Changed /\ messages' = Append(messages, m)
  BY <1>1, <1>2, PushChanges
<1>4. messages \in Seq(Messages) /\ Streams(messages, turn \/ stray)
  BY InStepType DEF TranscriptInv
<1>5. messages = << >> \/ ~Last(messages).streaming
  BY <1>4, NotStreaming
<1>6. Streams(Append(messages, m), now)
  BY <1>1, <1>4, <1>5, StreamsAppend
<1> QED
  BY <1>3, <1>6

(* A message event leaves the agent's state and turn alone.                *)
LEMMA TurnGoesOn ==
  ASSUME TranscriptInv, revision < MaxRevision, Changed,
         Streams(messages', turn \/ stray'), stray' \in BOOLEAN,
         UNCHANGED <<state, turn>>
  PROVE  TranscriptInv' /\ Stays
<1>1. Streams(messages', turn' \/ stray')
  OBVIOUS
<1>2. state' \in {"ready", "running", "waiting", "gone"} /\ turn' \in BOOLEAN
  BY DEF TranscriptInv
<1> QED
  BY <1>1, <1>2, InvAfter

(* The text of a streaming message.                                        *)
LEMMA LastText ==
  ASSUME TranscriptInv, IsStreaming
  PROVE  Last(messages).text \in Texts
<1>1. Last(messages) \in Messages
  BY LastCount DEF TranscriptInv, IsStreaming
<1> QED
  BY <1>1 DEF Messages

(* apply_event, message.delta *)
LEMMA DeltaKeeps ==
  ASSUME TranscriptInv, revision < MaxRevision, Delta
  PROVE  TranscriptInv' /\ Stays
<1>1. UNCHANGED <<state, turn>>
  BY DEF Delta
<1>2. CASE IsStreaming
  <2>1. PICK text \in Extended(Last(messages).text) :
          IF text = Last(messages).text
            THEN NoChange
            ELSE SetMessage(Len(messages), Message("assistant", text, TRUE))
    BY <1>2 DEF Delta
  <2>2. text \in Texts
    BY <1>2, LastText, ExtendedType
  <2>3. stray' = stray /\ stray \in BOOLEAN /\ turn \in BOOLEAN
    BY <1>2 DEF Delta, TranscriptInv
  <2>4. PICK now \in BOOLEAN : now = (turn \/ stray)
    BY <2>3
  <2>5. now
    <3>1. messages \in Seq(Messages) /\ Streams(messages, turn \/ stray)
      BY InStepType DEF TranscriptInv
    <3>2. messages # << >> /\ Last(messages).streaming
      BY <1>2 DEF IsStreaming
    <3>3. /\ Len(messages) \in DOMAIN messages
          /\ messages[Len(messages)].streaming
      BY <3>1, <3>2 DEF Last
    <3> QED
      BY <2>4, <3>1, <3>3 DEF Streams
  <2>6. CASE text = Last(messages).text
    <3>1. Changed /\ messages' = messages
      BY <2>1, <2>6, NothingChanges
    <3>2. Streams(messages', turn \/ stray')
      BY <2>3, <3>1 DEF TranscriptInv
    <3> QED
      BY <1>1, <2>3, <3>1, <3>2, TurnGoesOn
  <2>7. CASE text # Last(messages).text
    <3>1. SetMessage(Len(messages), Message("assistant", text, TRUE))
      BY <2>1, <2>7
    <3>2. PICK open \in BOOLEAN : open = TRUE
      OBVIOUS
    <3>3. SetMessage(Len(messages), Message("assistant", text, open)) /\ now
      BY <2>5, <3>1, <3>2
    <3>4. Changed /\ Streams(messages', now)
      BY <1>2, <2>2, <3>3, AssistantSets
    <3>5. Streams(messages', turn \/ stray')
      BY <2>3, <2>4, <3>4
    <3> QED
      BY <1>1, <2>3, <3>4, <3>5, TurnGoesOn
  <2> QED
    BY <2>6, <2>7
<1>3. CASE ~IsStreaming
  <2>1. PICK text \in Extended(EmptyText) : PushMessage(Message("assistant", text, TRUE))
    BY <1>3 DEF Delta
  <2>2. text \in Texts
    BY EmptyTextType, ExtendedType
  <2>3. stray' = ~turn /\ stray' \in BOOLEAN
    BY <1>3 DEF Delta
  <2>4. PICK open \in BOOLEAN : open = TRUE
    OBVIOUS
  <2>5. PushMessage(Message("assistant", text, open))
    BY <2>1, <2>4
  <2>6. Changed /\ Streams(messages', open)
    BY <1>3, <2>2, <2>4, <2>5, AssistantPushes
  <2>7. Streams(messages', turn \/ stray')
    BY <2>3, <2>4, <2>6 DEF Streams
  <2> QED
    BY <1>1, <2>3, <2>6, <2>7, TurnGoesOn
<1> QED
  BY <1>2, <1>3

(* apply_event, message.completed: the longer of both texts is kept. *)
LEMMA CompletedKeeps ==
  ASSUME TranscriptInv, revision < MaxRevision, Completed
  PROVE  TranscriptInv' /\ Stays
<1>1. UNCHANGED <<state, turn>> /\ stray' = FALSE
  BY DEF Completed
<1>2. PICK now \in BOOLEAN : now = (turn \/ stray')
  BY <1>1 DEF TranscriptInv
<1>3. CASE IsStreaming
  <2>1. PICK sofar : sofar = Last(messages).text
    OBVIOUS
  <2>2. PICK text \in FinalTexts(sofar) :
          SetMessage(Len(messages),
            Message("assistant",
                    IF TextLen(text) >= TextLen(sofar) THEN text ELSE sofar, FALSE))
    BY <1>3, <2>1 DEF Completed
  <2>3. PICK final : final = IF TextLen(text) >= TextLen(sofar) THEN text ELSE sofar
    OBVIOUS
  <2>4. sofar \in Texts
    BY <1>3, <2>1, LastText
  <2>5. text \in Texts
    BY <2>4, EmptyTextType, ExtendedType DEF FinalTexts
  <2>6. final \in Texts
    BY <2>3, <2>4, <2>5
  <2>7. SetMessage(Len(messages), Message("assistant", final, FALSE))
    BY <2>2, <2>3
  <2>8. Changed /\ Streams(messages', now)
    BY <1>3, <2>6, <2>7, AssistantSets
  <2> QED
    BY <1>1, <1>2, <2>8, TurnGoesOn
<1>4. CASE ~IsStreaming /\ NoChange
  <2>1. Changed /\ messages' = messages
    BY <1>4, NothingChanges
  <2>2. messages \in Seq(Messages) /\ Streams(messages, turn \/ stray)
    BY InStepType DEF TranscriptInv
  <2>3. messages = << >> \/ ~Last(messages).streaming
    BY <1>4, <2>2, NotStreaming
  <2>4. Streams(messages', now)
    BY <2>1, <2>2, <2>3, StreamsTurn
  <2> QED
    BY <1>1, <1>2, <2>1, <2>4, TurnGoesOn
<1>5. CASE ~IsStreaming /\ ~NoChange
  <2>1. PICK text \in FinalTexts(EmptyText) :
          PushMessage(Message("assistant", text, FALSE))
    BY <1>5 DEF Completed
  <2>2. text \in Texts
    BY EmptyTextType, ExtendedType DEF FinalTexts
  <2>3. Changed /\ Streams(messages', now)
    BY <1>5, <2>1, <2>2, AssistantPushes
  <2> QED
    BY <1>1, <1>2, <2>3, TurnGoesOn
<1> QED
  BY <1>3, <1>4, <1>5

(* The turn's end finishes the message that streams. *)
LEMMA TurnEndKeeps ==
  ASSUME TranscriptInv, revision < MaxRevision, TurnCompletes \/ TurnFails
  PROVE  TranscriptInv' /\ Stays
<1>1. /\ CloseStream /\ turn' = FALSE /\ stray' = FALSE
      /\ state' \in {"ready", "running", "waiting", "gone"}
  BY DEF TurnCompletes, TurnFails
<1>2. PICK now \in BOOLEAN : now = (turn' \/ stray')
  BY <1>1
<1>3. Changed /\ Streams(messages', now)
  <2>1. CASE IsStreaming
    <3>1. SetMessage(Len(messages), Message("assistant", Last(messages).text, FALSE))
      BY <1>1, <2>1 DEF CloseStream
    <3>2. Last(messages).text \in Texts
      BY <2>1, LastText
    <3> QED
      BY <2>1, <3>1, <3>2, AssistantSets
  <2>2. CASE ~IsStreaming
    <3>1. Changed /\ messages' = messages
      BY <1>1, <2>2, NothingChanges DEF CloseStream
    <3>2. messages \in Seq(Messages) /\ Streams(messages, turn \/ stray)
      BY InStepType DEF TranscriptInv
    <3>3. messages = << >> \/ ~Last(messages).streaming
      BY <2>2, <3>2, NotStreaming
    <3> QED
      BY <3>1, <3>2, <3>3, StreamsTurn
  <2> QED
    BY <2>1, <2>2
<1> QED
  BY <1>1, <1>2, <1>3, InvAfter

(* handle_provider_failure: what streamed streams on. *)
LEMMA ProviderLostKeeps ==
  ASSUME TranscriptInv, revision < MaxRevision, ProviderLost
  PROVE  TranscriptInv' /\ Stays
<1>1. Changed /\ messages' = messages
  BY NothingChanges DEF ProviderLost
<1>2. turn' = FALSE /\ stray' = (IsStreaming /\ (stray \/ turn)) /\ state' = "gone"
  BY DEF ProviderLost
<1>3. messages \in Seq(Messages) /\ Streams(messages, turn \/ stray)
  BY InStepType DEF TranscriptInv
<1>4. PICK now \in BOOLEAN : now = (turn' \/ stray')
  BY <1>2
<1>5. messages = << >> \/ ~Last(messages).streaming \/ now
  <2>1. CASE ~IsStreaming
    BY <1>3, <2>1, NotStreaming
  <2>2. CASE IsStreaming
    <3>1. messages # << >> /\ Last(messages).streaming
      BY <2>2 DEF IsStreaming
    <3>2. /\ Len(messages) \in DOMAIN messages
          /\ messages[Len(messages)].streaming
      BY <1>3, <3>1 DEF Last
    <3>3. turn \/ stray
      BY <1>3, <3>2 DEF Streams
    <3> QED
      BY <1>2, <1>4, <2>2, <3>3
  <2> QED
    BY <2>1, <2>2
<1>6. Streams(messages', now)
  BY <1>1, <1>3, <1>5, StreamsTurn
<1>7. stray' \in BOOLEAN
  BY <1>2
<1> QED
  BY <1>1, <1>2, <1>4, <1>6, <1>7, InvAfter

(* replace_transcript_history: no reported message streams. *)
LEMMA ReplaceHistoryKeeps ==
  ASSUME TranscriptInv, revision < MaxRevision, ReplaceHistory
  PROVE  TranscriptInv'
<1>1. PICK history \in Histories :
        LET replaced == [i \in DOMAIN history |->
                           Message(history[i].role, history[i].text, FALSE)]
        IN  /\ messages' = replaced
            /\ Splice(0, Len(lines),
                 FlattenSeq([i \in DOMAIN replaced |-> Render(replaced[i])]))
  BY DEF ReplaceHistory
<1>2. PICK ms : ms = [i \in DOMAIN history |->
                        Message(history[i].role, history[i].text, FALSE)]
  OBVIOUS
<1>3. /\ messages' = ms /\ Splice(0, Len(lines), Shown(ms))
      /\ stray' = FALSE /\ UNCHANGED <<state, turn>>
  BY <1>1, <1>2 DEF Shown, Renders, ReplaceHistory
<1>4. PICK n \in Nat : /\ DOMAIN history = 1 .. n
                       /\ \A i \in 1 .. n : /\ history[i].role \in Roles
                                            /\ history[i].text \in Texts
  <2> DEFINE Reported == [role : Roles, text : Texts]
  <2>1. history \in Seq(Reported)
    BY TranscriptAssumption
  <2> HIDE DEF Reported
  <2>2. Len(history) \in Nat /\ DOMAIN history = 1 .. Len(history)
    BY <2>1
  <2>3. \A i \in 1 .. Len(history) : history[i] \in Reported
    BY <2>1
  <2> QED
    BY <2>2, <2>3 DEF Reported
<1>5. ASSUME NEW i \in 1 .. n
      PROVE  /\ ms[i] \in Messages /\ ms[i].streaming = FALSE
             /\ ms[i].count = Len(Render(ms[i]))
  <2>1. ms[i] = Message(history[i].role, history[i].text, FALSE)
    BY <1>2, <1>4
  <2>2. PICK role \in Roles, text \in Texts : role = history[i].role /\ text = history[i].text
    BY <1>4
  <2>3. /\ Message(role, text, FALSE) \in Messages
        /\ Message(role, text, FALSE).streaming = FALSE
        /\ Message(role, text, FALSE).count = Len(Render(Message(role, text, FALSE)))
    <3>1. FALSE \in BOOLEAN
      OBVIOUS
    <3> QED
      BY <3>1, MessageType
  <2> QED
    BY <2>1, <2>2, <2>3
<1>6. ms \in Seq(Messages) /\ DOMAIN ms = 1 .. n
  <2>1. ms = [i \in 1 .. n |-> ms[i]]
    BY <1>2, <1>4
  <2>2. \A i \in 1 .. n : ms[i] \in Messages
    BY <1>5
  <2> QED
    BY <2>1, <2>2
<1>7. Counted(ms)
  BY <1>5, <1>6 DEF Counted
<1>8. InStep /\ revision \in Nat
  BY TranscriptAssumption DEF TranscriptInv
<1>9. InStep' /\ revision' = revision + 1 /\ patch'.revision = revision'
  BY <1>3, <1>7, <1>8, ReplaceInStep
<1>10. Streams(messages', turn' \/ stray')
  BY <1>3, <1>5, <1>6 DEF Streams
<1>11. /\ state' \in {"ready", "running", "waiting", "gone"}
       /\ turn' \in BOOLEAN /\ stray' \in BOOLEAN
  BY <1>3 DEF TranscriptInv
<1>12. revision' \in 0 .. MaxRevision
  BY <1>8, <1>9, TranscriptAssumption
<1> QED
  BY <1>9, <1>10, <1>11, <1>12 DEF TranscriptInv

(* Every step keeps the invariant, and unless it reports a history it      *)
(* leaves the lines above the last message alone.                          *)
LEMMA StepKeeps ==
  ASSUME TranscriptInv, Next
  PROVE  TranscriptInv' /\ (ReplaceHistory \/ Stays)
<1>1. revision < MaxRevision /\ Change
  BY DEF Next
<1>2. CASE \E text \in UserTexts : Prompt(text) \/ Steer(text)
  BY <1>1, <1>2, InputKeeps
<1>3. CASE ChannelClosed \/ TurnStarted \/ Asks \/ Resolves
  BY <1>1, <1>3, SilenceKeeps
<1>4. CASE Delta
  BY <1>1, <1>4, DeltaKeeps
<1>5. CASE Completed
  BY <1>1, <1>5, CompletedKeeps
<1>6. CASE TurnCompletes \/ TurnFails
  BY <1>1, <1>6, TurnEndKeeps
<1>7. CASE ProviderLost
  BY <1>1, <1>7, ProviderLostKeeps
<1>8. CASE ReplaceHistory
  BY <1>1, <1>8, ReplaceHistoryKeeps
<1> QED
  BY <1>1, <1>2, <1>3, <1>4, <1>5, <1>6, <1>7, <1>8 DEF Change

(* Nothing happens at all. *)
LEMMA StutterKeeps ==
  ASSUME TranscriptInv, UNCHANGED vars
  PROVE  TranscriptInv'
BY DEF TranscriptInv, InStep, vars, agent

(* Transcript::default: no message, no line, no revision. *)
LEMMA InitInv ==
  ASSUME Init
  PROVE  TranscriptInv
<1>1. messages = << >> /\ lines = << >> /\ revision = 0 /\ patch.revision = 0
      /\ state = "ready" /\ turn = FALSE /\ stray = FALSE
  BY DEF Init
<1>2. Counted(messages)
  <2>1. << >> \in Seq(Messages)
    BY EmptyType
  <2>2. DOMAIN << >> = {}
    OBVIOUS
  <2> QED
    BY <1>1, <2>1, <2>2 DEF Counted
<1>3. InStep
  BY <1>1, <1>2, ShownNone DEF InStep
<1>4. Streams(messages, turn \/ stray)
  BY <1>1 DEF Streams
<1>5. revision \in 0 .. MaxRevision
  BY <1>1, TranscriptAssumption
<1> QED
  BY <1>1, <1>3, <1>4, <1>5 DEF TranscriptInv

(* The invariant holds of every behaviour. *)
LEMMA TranscriptInvariant == Spec => []TranscriptInv
<1>1. Init => TranscriptInv
  BY InitInv
<1>2. TranscriptInv /\ [Next]_vars => TranscriptInv'
  BY StepKeeps, StutterKeeps
<1> QED
  BY <1>1, <1>2, PTL DEF Spec

(* The transcript's type invariant: messages with a role and a text of at  *)
(* least one line, numbered patches (struct Transcript).                   *)
THEOREM TranscriptTypeCorrect == Spec => []TypeOK
<1>1. ASSUME TranscriptInv
      PROVE  TypeOK
  <2>1. messages \in Seq(Messages) /\ lines \in Seq(Painted)
    BY <1>1, InStepType DEF TranscriptInv
  <2>2. \A i \in DOMAIN messages :
          /\ messages[i].role \in Roles
          /\ messages[i].text \in Texts
          /\ messages[i].streaming \in BOOLEAN
          /\ messages[i].count \in Nat
    <3>1. \A i \in DOMAIN messages : messages[i] \in Messages
      BY <2>1
    <3> QED
      BY <3>1 DEF Messages
  <2>3. \A i \in DOMAIN lines : lines[i].size \in Nat
    <3>1. \A i \in DOMAIN lines : lines[i] \in Painted
      BY <2>1
    <3> QED
      BY <3>1 DEF Painted
  <2> QED
    BY <1>1, <2>2, <2>3 DEF TranscriptInv, TypeOK
<1> QED
  BY <1>1, TranscriptInvariant, PTL

(* The patches of splice, applied one after the other to what the editor   *)
(* has, give the rendering of the conversation, and every line_count is    *)
(* that of its message: for every text, every history, every number of     *)
(* changes.                                                                *)
THEOREM LinesFollow == Spec => []LinesAreTheMessages
<1>1. ASSUME TranscriptInv
      PROVE  LinesAreTheMessages
  BY <1>1 DEF TranscriptInv, InStep, Counted, Shown, Renders, LinesAreTheMessages
<1> QED
  BY <1>1, TranscriptInvariant, PTL

(* What still streams has an input behind it, or is the last message and   *)
(* its turn is not over, began outside a turn, or lost its turn without an *)
(* end (streaming_assistant): for every order in which deltas, ends,       *)
(* inputs, requests, histories and failures come.                          *)
THEOREM StreamsWereSteered == Spec => []OpenStreamsWereSteered
<1>1. ASSUME TranscriptInv
      PROVE  OpenStreamsWereSteered
  BY <1>1 DEF TranscriptInv, Streams, OpenStreamsWereSteered
<1> QED
  BY <1>1, TranscriptInvariant, PTL

(* A step that reports no history changes no line above the message that   *)
(* streams: set_message starts its splice where the counts of the earlier  *)
(* messages end.                                                           *)
THEOREM FinishedStay == Spec => FinishedLinesStay
<1> DEFINE Step == \/ ReplaceHistory
                   \/ \A i \in 1 .. Len(lines)
                                      - (IF IsStreaming THEN Last(messages).count ELSE 0) :
                        i \in DOMAIN lines' /\ lines'[i] = lines[i]
<1>1. TranscriptInv /\ [Next]_vars => [Step]_vars
  <2> SUFFICES ASSUME TranscriptInv, Next
               PROVE  Step
    OBVIOUS
  <2> QED
    BY StepKeeps DEF Stays
<1>2. FinishedLinesStay <=> [][Step]_vars
  BY DEF FinishedLinesStay
<1> HIDE DEF Step
<1> QED
  BY <1>1, <1>2, TranscriptInvariant, PTL DEF Spec
=================================================================================
