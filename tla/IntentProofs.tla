------------------------------ MODULE IntentProofs ------------------------------
(***************************************************************************)
(* Where an intent is kept: what the operators of PendingList return for lists *)
(* of any length and entries, and what an append to an EffectJournal file, cut *)
(* off anywhere, leaves of what the file said.  Proved with TLAPS;             *)
(* RecoverableEffectsProofs and ProtectedBoundaryProofs cite these lemmas.     *)
(***************************************************************************)
EXTENDS EffectJournal, PendingList, SequenceTheorems, TLAPS

----------------------------------------------------------------------------
(* The pending list *)

\* No entry is in the list twice.
Once(seq) == \A i, j \in DOMAIN seq : seq[i] = seq[j] => i = j

\* The empty list has no entries.
LEMMA EmptyList ==
  ASSUME NEW S
  PROVE  /\ <<>> \in Seq(S)
         /\ Once(<<>>)
         /\ \A x : ~InList(<<>>, x)
  BY DEF Once, InList

\* The entries of a list are of its type.
LEMMA ListType ==
  ASSUME NEW S, NEW seq \in Seq(S), NEW x, InList(seq, x)
  PROVE  x \in S
  BY DEF InList

\* What Append does to each place of a list.
LEMMA AppendEntry ==
  ASSUME NEW S, NEW seq \in Seq(S), NEW c \in S, NEW t, t = Append(seq, c)
  PROVE  /\ t \in Seq(S) /\ t # <<>> /\ Len(t) = Len(seq) + 1
         /\ DOMAIN seq = 1..Len(seq) /\ DOMAIN t = 1..(Len(seq) + 1) /\ Len(seq) \in Nat
         /\ t[Len(seq) + 1] = c
         /\ \A i \in 1..Len(seq) : t[i] = seq[i]
  OBVIOUS

\* A new entry is added behind the others.
LEMMA AppendList ==
  ASSUME NEW S, NEW seq \in Seq(S), NEW c \in S
  PROVE  /\ Append(seq, c) \in Seq(S)
         /\ \A x : InList(Append(seq, c), x) <=> x = c \/ InList(seq, x)
         /\ Once(seq) /\ ~InList(seq, c) => Once(Append(seq, c))
<1> DEFINE t == Append(seq, c)
<1>1. /\ t \in Seq(S) /\ Len(t) = Len(seq) + 1 /\ t[Len(seq) + 1] = c
      /\ \A i \in 1..Len(seq) : t[i] = seq[i]
      /\ DOMAIN seq = 1..Len(seq) /\ DOMAIN t = 1..(Len(seq) + 1) /\ Len(seq) \in Nat
  BY AppendEntry
<1> HIDE DEF t
<1>2. ASSUME NEW x PROVE InList(t, x) <=> x = c \/ InList(seq, x)
  BY <1>1 DEF InList
<1>3. ASSUME Once(seq), ~InList(seq, c) PROVE Once(t)
  BY <1>1, <1>3 DEF InList, Once
<1> QED BY <1>1, <1>2, <1>3 DEF t

\* Without takes the entry away and leaves every other one.
LEMMA WithoutList ==
  ASSUME NEW S, NEW seq \in Seq(S), NEW c, Once(seq)
  PROVE  /\ Without(seq, c) \in Seq(S)
         /\ \A x : InList(Without(seq, c), x) <=> x # c /\ InList(seq, x)
         /\ Once(Without(seq, c))
<1>1. CASE ~InList(seq, c)
  <2>1. Without(seq, c) = seq
    BY <1>1 DEF Without
  <2> QED BY <1>1, <2>1
<1>2. CASE InList(seq, c)
  <2> DEFINE at == CHOOSE i \in DOMAIN seq : seq[i] = c
             n == Len(seq) - 1
             t == [i \in 1..n |-> seq[IF i < at THEN i ELSE i + 1]]
  <2>1. at \in 1..Len(seq) /\ seq[at] = c
    BY <1>2 DEF InList
  <2>2. Without(seq, c) = t
    BY <1>2 DEF Without
  <2> HIDE DEF at
  <2>3. n \in Nat /\ Len(seq) \in Nat /\ DOMAIN seq = 1..Len(seq)
    BY <2>1
  <2>4. \A i \in 1..n : t[i] = seq[IF i < at THEN i ELSE i + 1]
    OBVIOUS
  <2>5. \A i \in 1..n : (IF i < at THEN i ELSE i + 1) \in 1..Len(seq) \ {at}
    BY <2>1, <2>3
  <2>6. t \in Seq(S)
    <3>1. \A i \in 1..n : seq[IF i < at THEN i ELSE i + 1] \in S
      BY <2>5
    <3> QED BY <2>3, <3>1
  <2>7. DOMAIN t = 1..n
    OBVIOUS
  <2> HIDE DEF t
  <2>8. ASSUME NEW x PROVE InList(t, x) <=> x # c /\ InList(seq, x)
    <3>1. ASSUME InList(t, x) PROVE x # c /\ InList(seq, x)
      <4>1. PICK i \in 1..n : t[i] = x
        BY <2>7, <3>1 DEF InList
      <4> DEFINE j == IF i < at THEN i ELSE i + 1
      <4>2. j \in DOMAIN seq /\ j # at /\ seq[j] = x
        BY <2>3, <2>4, <2>5, <4>1
      <4> HIDE DEF j
      <4> QED BY <2>1, <2>3, <4>2 DEF InList, Once
    <3>2. ASSUME x # c, InList(seq, x) PROVE InList(t, x)
      <4>1. PICK j \in 1..Len(seq) : seq[j] = x
        BY <2>3, <3>2 DEF InList
      <4>2. CASE j < at
        <5>1. j \in 1..n /\ t[j] = x
          BY <2>1, <2>3, <2>4, <4>1, <4>2
        <5> QED BY <2>7, <5>1 DEF InList
      <4>3. CASE j > at
        <5>1. j - 1 \in 1..n /\ t[j - 1] = x
          BY <2>1, <2>3, <2>4, <4>1, <4>3
        <5> QED BY <2>7, <5>1 DEF InList
      <4>4. j # at
        BY <2>1, <3>2, <4>1
      <4> QED BY <2>1, <2>3, <4>2, <4>3, <4>4
    <3> QED BY <3>1, <3>2
  <2>9. Once(t)
    <3> SUFFICES ASSUME NEW i \in 1..n, NEW j \in 1..n, t[i] = t[j] PROVE i = j
      BY <2>7 DEF Once
    <3>1. (IF i < at THEN i ELSE i + 1) = (IF j < at THEN j ELSE j + 1)
      BY <2>3, <2>4, <2>5 DEF Once
    <3> QED BY <2>1, <2>3, <3>1
  <2> QED BY <2>2, <2>6, <2>8, <2>9
<1> QED BY <1>1, <1>2

\* The head of a list without duplicates is not in its tail.
LEMMA TailList ==
  ASSUME NEW S, NEW seq \in Seq(S), seq # <<>>
  PROVE  /\ Head(seq) \in S /\ InList(seq, Head(seq))
         /\ Tail(seq) \in Seq(S)
         /\ \A x : InList(Tail(seq), x) => InList(seq, x)
         /\ Once(seq) => Once(Tail(seq)) /\ ~InList(Tail(seq), Head(seq))
<1> DEFINE t == Tail(seq)
<1>1. /\ Head(seq) = seq[1] /\ seq[1] \in S
      /\ t \in Seq(S) /\ Len(t) = Len(seq) - 1 /\ Len(seq) \in Nat \ {0}
      /\ \A i \in 1..(Len(seq) - 1) : t[i] = seq[i + 1]
      /\ DOMAIN seq = 1..Len(seq) /\ DOMAIN t = 1..(Len(seq) - 1)
  OBVIOUS
<1> HIDE DEF t
<1>2. InList(seq, Head(seq))
  BY <1>1 DEF InList
<1>3. ASSUME NEW x, InList(t, x) PROVE InList(seq, x)
  <2>1. PICK i \in 1..(Len(seq) - 1) : t[i] = x
    BY <1>1, <1>3 DEF InList
  <2>2. i + 1 \in DOMAIN seq /\ seq[i + 1] = x
    BY <1>1, <2>1
  <2> QED BY <2>2 DEF InList
<1>4. ASSUME Once(seq) PROVE Once(t)
  <2> SUFFICES ASSUME NEW i \in 1..(Len(seq) - 1), NEW j \in 1..(Len(seq) - 1), t[i] = t[j]
               PROVE  i = j
    BY <1>1 DEF Once
  <2>1. i + 1 \in DOMAIN seq /\ j + 1 \in DOMAIN seq /\ seq[i + 1] = seq[j + 1]
    BY <1>1
  <2>2. i + 1 = j + 1
    BY <1>4, <2>1 DEF Once
  <2> QED BY <2>2
<1>5. ASSUME Once(seq) PROVE ~InList(t, Head(seq))
  <2> SUFFICES ASSUME NEW i \in 1..(Len(seq) - 1), t[i] = seq[1] PROVE FALSE
    BY <1>1 DEF InList
  <2>1. i + 1 \in DOMAIN seq /\ seq[i + 1] = seq[1] /\ 1 \in DOMAIN seq
    BY <1>1
  <2> QED BY <1>5, <2>1 DEF Once
<1> QED BY <1>1, <1>2, <1>3, <1>4, <1>5 DEF t

----------------------------------------------------------------------------
(* The journal file *)

\* A record's newline is missing only when there is a record.
Sound(file) == file \in Files /\ (file.open => file.lines # <<>>)

\* The key is on record, or was concluded, as far as the lines of the file are whole.
SafeIn(file, c) == Whole(file) => Recorded(file, c)

EndedIn(file, c) ==
  Whole(file) => Concluded(file, c, "COMMITTED") \/ Concluded(file, c, "REFUSED")

\* A line is added behind the others, or the open one becomes unreadable.
LEMMA Lines ==
  ASSUME NEW f \in Files, f.open => f.lines # <<>>,
         NEW x \in Records \cup {Torn}, NEW open \in BOOLEAN,
         NEW g, g = WithLine(f, x, open)
  PROVE  /\ g \in Files /\ g.lines # <<>> /\ g.open = open
         /\ DOMAIN f.lines = 1..Len(f.lines) /\ Len(f.lines) \in Nat
         /\ \/ /\ f.open
               /\ DOMAIN g.lines = DOMAIN f.lines
               /\ Len(f.lines) \in DOMAIN f.lines
               /\ g.lines[Len(f.lines)] = Torn
               /\ \A i \in DOMAIN f.lines : i # Len(f.lines) => g.lines[i] = f.lines[i]
            \/ /\ ~f.open
               /\ DOMAIN g.lines = 1..(Len(f.lines) + 1)
               /\ g.lines[Len(f.lines) + 1] = x
               /\ \A i \in DOMAIN f.lines : g.lines[i] = f.lines[i]
<1> DEFINE s == f.lines
<1>1. s \in Seq(Records \cup {Torn}) /\ f.open \in BOOLEAN
  BY DEF Files
<1>2. DOMAIN s = 1..Len(s) /\ Len(s) \in Nat
  BY <1>1
<1> HIDE DEF s
<1>3. CASE f.open
  <2>1. s # <<>> /\ Len(s) \in DOMAIN s
    BY <1>1, <1>2, <1>3 DEF s
  <2>2. g = [lines |-> [s EXCEPT ![Len(s)] = Torn], open |-> open]
    BY <1>3 DEF WithLine, s
  <2>3. [s EXCEPT ![Len(s)] = Torn] \in Seq(Records \cup {Torn})
    BY <1>1, <1>2, <2>1, ExceptSeq
  <2>4. g.lines # <<>>
    BY <1>1, <1>2, <2>1, <2>2, <2>3
  <2> QED BY <1>1, <1>2, <1>3, <2>1, <2>2, <2>3, <2>4 DEF Files, s
<1>4. CASE ~f.open
  <2>1. g = [lines |-> Append(s, x), open |-> open]
    BY <1>4 DEF WithLine, s
  <2> DEFINE t == Append(s, x)
  <2>2. /\ t \in Seq(Records \cup {Torn}) /\ t # <<>> /\ DOMAIN t = 1..(Len(s) + 1)
        /\ t[Len(s) + 1] = x /\ \A i \in 1..Len(s) : t[i] = s[i]
    BY <1>1, AppendEntry
  <2> HIDE DEF t
  <2>3. g.lines = t /\ g.open = open /\ g = [lines |-> t, open |-> open]
    BY <2>1 DEF t
  <2> QED BY <1>2, <1>4, <2>2, <2>3 DEF Files, s
<1> QED BY <1>3, <1>4

\* A file whose lines are all whole was so, and not open, before its last line was added;
\* and what it said before it still says.
LEMMA WholeBefore ==
  ASSUME NEW f \in Files, f.open => f.lines # <<>>,
         NEW x \in Records \cup {Torn}, NEW open \in BOOLEAN,
         NEW g, g = WithLine(f, x, open), Whole(g)
  PROVE  /\ ~f.open /\ Whole(f)
         /\ \A c : Recorded(f, c) => Recorded(g, c)
         /\ \A c, st : Concluded(f, c, st) => Concluded(g, c, st)
<1>1. ~f.open
  BY Lines DEF Whole
<1>2. \A i \in DOMAIN f.lines : i \in DOMAIN g.lines /\ g.lines[i] = f.lines[i]
  BY <1>1, Lines
<1>3. Whole(f)
  BY <1>2 DEF Whole
<1>4. \A c : LinesOf(f, c) \subseteq LinesOf(g, c)
  BY <1>2 DEF LinesOf
<1>5. \A c : \A i \in LinesOf(f, c) : g.lines[i] = f.lines[i]
  BY <1>2 DEF LinesOf
<1> QED BY <1>1, <1>3, <1>4, <1>5 DEF Recorded, Concluded

\* A record that was written whole is on record, unless a line is torn.
LEMMA SaidNew ==
  ASSUME NEW f, Sound(f), NEW r \in Records, Whole(Appended(f, r))
  PROVE  /\ Recorded(Appended(f, r), r.key)
         /\ Concluded(Appended(f, r), r.key, r.status)
<1> DEFINE g == Appended(f, r)
<1>1. f \in Files /\ (f.open => f.lines # <<>>) /\ r \in Records \cup {Torn}
  BY DEF Sound
<1>2. PICK open \in BOOLEAN : g = WithLine(f, r, open) /\ Whole(g)
  BY DEF Appended
<1> HIDE DEF g
<1>3. ~f.open
  BY <1>1, <1>2, WholeBefore
<1>4. /\ DOMAIN g.lines = 1..(Len(f.lines) + 1) /\ Len(f.lines) \in Nat
      /\ g.lines[Len(f.lines) + 1] = r
  BY <1>1, <1>2, <1>3, Lines
<1>5. Len(f.lines) + 1 \in LinesOf(g, r.key)
  BY <1>4, TornAssumption DEF LinesOf
<1>6. Recorded(g, r.key) /\ Concluded(g, r.key, r.status)
  BY <1>4, <1>5 DEF Recorded, Concluded
<1> QED BY <1>6 DEF g

\* An append concludes nothing but what its record says.
LEMMA ConcludedBefore ==
  ASSUME NEW f \in Files, f.open => f.lines # <<>>,
         NEW x \in Records \cup {Torn}, NEW open \in BOOLEAN,
         NEW g, g = WithLine(f, x, open), NEW c, NEW st, Concluded(g, c, st)
  PROVE  Concluded(f, c, st) \/ (x # Torn /\ x.key = c /\ x.status = st)
<1>1. PICK i \in DOMAIN g.lines :
        g.lines[i] # Torn /\ g.lines[i].key = c /\ g.lines[i].status = st
  BY DEF Concluded, LinesOf
<1>2. CASE i \in DOMAIN f.lines /\ g.lines[i] = f.lines[i]
  BY <1>1, <1>2 DEF Concluded, LinesOf
<1>3. CASE ~f.open /\ i = Len(f.lines) + 1
  BY <1>1, <1>3, Lines
<1>4. CASE f.open
  <2>1. /\ DOMAIN g.lines = DOMAIN f.lines /\ g.lines[Len(f.lines)] = Torn
        /\ \A j \in DOMAIN f.lines : j # Len(f.lines) => g.lines[j] = f.lines[j]
    BY <1>4, Lines
  <2> QED BY <1>1, <1>2, <2>1
<1>5. CASE ~f.open
  <2>1. /\ DOMAIN g.lines = 1..(Len(f.lines) + 1) /\ DOMAIN f.lines = 1..Len(f.lines)
        /\ Len(f.lines) \in Nat
        /\ \A j \in DOMAIN f.lines : g.lines[j] = f.lines[j]
    BY <1>5, Lines
  <2>2. i \in DOMAIN f.lines \/ i = Len(f.lines) + 1
    BY <1>1, <2>1
  <2> QED BY <1>2, <1>3, <1>5, <2>1, <2>2
<1> QED BY <1>4, <1>5

\* From file f to g: what was said remains said, and nothing is concluded but what record r
\* says.
Continues(f, g, r) ==
  /\ \A c : SafeIn(f, c) => SafeIn(g, c)
  /\ \A c : EndedIn(f, c) => EndedIn(g, c)
  /\ \A c, st : Concluded(g, c, st) => Concluded(f, c, st) \/ (r.key = c /\ r.status = st)

\* Whatever of an append reaches the file continues it.
LEMMA AppendContinues ==
  ASSUME NEW f, Sound(f), NEW r \in Records, NEW g \in AppendFailed(f, r)
  PROVE  Sound(g) /\ Continues(f, g, r)
<1>1. CASE g = f
  BY <1>1 DEF Continues
<1>2. ASSUME NEW x \in {r, Torn}, NEW open \in BOOLEAN, g = WithLine(f, x, open)
      PROVE  Sound(g) /\ Continues(f, g, r)
  <2>1. x \in Records \cup {Torn} /\ f \in Files /\ (f.open => f.lines # <<>>)
    BY DEF Sound
  <2>2. Sound(g)
    BY <1>2, <2>1, Lines DEF Sound
  <2>3. \A c : (SafeIn(f, c) => SafeIn(g, c)) /\ (EndedIn(f, c) => EndedIn(g, c))
    BY <1>2, <2>1, WholeBefore DEF SafeIn, EndedIn
  <2>4. \A c, st : Concluded(g, c, st) =>
              Concluded(f, c, st) \/ (x # Torn /\ x.key = c /\ x.status = st)
    BY <1>2, <2>1, ConcludedBefore
  <2> QED BY <2>2, <2>3, <2>4 DEF Continues
<1>3. \/ g = f
      \/ g = WithLine(f, Torn, TRUE)
      \/ g = WithLine(f, r, TRUE)
      \/ g = WithLine(f, r, FALSE)
  BY DEF AppendFailed, Appended
<1> QED BY <1>1, <1>2, <1>3

\* The record an operation writes is one.
LEMMA RecordIs ==
  ASSUME NEW c \in Keys, NEW st \in Statuses
  PROVE  Record(c, st) \in Records /\ Record(c, st).key = c /\ Record(c, st).status = st
  BY DEF Record, Records
=============================================================================
