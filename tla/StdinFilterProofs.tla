-------------------------- MODULE StdinFilterProofs --------------------------
(***************************************************************************)
(* Theorems about StdinFilter, for any number of keys and any reads.       *)
(***************************************************************************)
EXTENDS StdinFilter, SequenceTheorems, FiniteSetTheorems, NaturalsInduction,
        WellFoundedInduction, TLAPS

\* The counter cannot pass zero because it is the length of the line: neither fact is
\* inductive without the other.
FilterInv == TypeOK /\ ScreenMatches

LEMMA UnescapeType == \A c \in Keys : Unescape(c) \in Seq(Keys)
  <1> SUFFICES ASSUME NEW c \in Keys PROVE Unescape(c) \in Seq(Keys)
    OBVIOUS
  <1>1. "~" \in Keys
    BY DEF Keys
  <1>2. <<>> \in Seq(Keys) /\ <<"~">> \in Seq(Keys) /\ <<"~", c>> \in Seq(Keys)
    BY <1>1
  <1>3. QED BY <1>2 DEF Unescape

\* A backspace leaves the counter at the length of the line.
LEMMA EraseKeeps ==
  ASSUME FilterInv, EraseLast
  PROVE  line_buffer' \in Seq(Keys) /\ blind_write_count' = Len(line_buffer')
  <1>1. line_buffer \in Seq(Keys) /\ blind_write_count = Len(line_buffer)
    BY DEF FilterInv, TypeOK, ScreenMatches
  <1>2. CASE line_buffer = <<>>
    BY <1>1, <1>2 DEF EraseLast, lineVars
  <1>3. CASE line_buffer # <<>>
    <2>1. Len(line_buffer) \in Nat \ {0}
      BY <1>1, <1>3
    <2>2. /\ line_buffer' = SubSeq(line_buffer, 1, Len(line_buffer) - 1)
          /\ blind_write_count' = Len(line_buffer) - 1
      BY <1>1, <1>3 DEF EraseLast, EraseBlindly, Front
    <2>3. QED BY <1>1, <2>1, <2>2
  <1>4. QED BY <1>2, <1>3

\* What every key does to the records of keys.
LEMMA TypeKeeps ==
  ASSUME FilterInv, NEW c \in Keys, Type(c)
  PROVE  typed' \in Seq(Keys) /\ batch' \in Seq(Keys) /\ orderly' \in BOOLEAN
  BY DEF FilterInv, TypeOK, Type

LEMMA KeyTypes == "cr" \in Keys /\ "flush" \in Keys /\ "bs" \in Keys /\ "~" \in Keys
  BY DEF Keys

LEMMA InitInv == Init => FilterInv
  <1> SUFFICES ASSUME Init PROVE FilterInv
    OBVIOUS
  <1>1. /\ typed \in Seq(Keys) /\ batch \in Seq(Keys) /\ data \in Seq(Keys)
        /\ line_buffer \in Seq(Keys) /\ data_buffer \in Seq(Keys \cup {"ctrl_d"})
    BY DEF Init
  <1>2. blind_write_count \in Nat /\ blind_write_count = Len(line_buffer)
    BY DEF Init
  <1>3. QED BY <1>1, <1>2 DEF Init, FilterInv, TypeOK, ScreenMatches

LEMMA NextInv == FilterInv /\ [Next]_vars => FilterInv'
  <1> SUFFICES ASSUME FilterInv, [Next]_vars PROVE FilterInv'
    OBVIOUS
  <1> USE DEF FilterInv, keyVars, escVars, lineVars, endVars
  <1>1. CASE Newline
    <2>1. data' \in Seq(Keys)
      BY <1>1, KeyTypes DEF Newline, TypeOK
    <2>2. QED BY <1>1, <2>1, KeyTypes, TypeKeeps DEF Newline, TypeOK, ScreenMatches
  <1>2. CASE FlushKey
    <2>1. data' \in Seq(Keys)
      BY <1>2, KeyTypes DEF FlushKey, TypeOK
    <2>2. QED BY <1>2, <2>1, KeyTypes, TypeKeeps DEF FlushKey, TypeOK, ScreenMatches
  <1>3. CASE Backspace
    <2>1. line_buffer' \in Seq(Keys) /\ blind_write_count' = Len(line_buffer')
      BY <1>3, EraseKeeps DEF Backspace
    <2>2. blind_write_count' \in Nat
      BY <2>1
    <2>3. QED BY <1>3, <2>1, <2>2, KeyTypes, TypeKeeps DEF Backspace, TypeOK, ScreenMatches
  <1>4. CASE EscapeKey
    BY <1>4, KeyTypes, TypeKeeps DEF EscapeKey, TypeOK, ScreenMatches
  <1>5. CASE EndRead
    <2>1. CASE PassOn
      <3>1. data_buffer' \in Seq(Keys \cup {"ctrl_d"})
        <4>1. data \in Seq(Keys \cup {"ctrl_d"}) /\ data_buffer \in Seq(Keys \cup {"ctrl_d"})
          BY DEF TypeOK
        <4>2. QED BY <2>1, <4>1 DEF PassOn
      <3>2. QED BY <1>5, <2>1, <3>1 DEF EndRead, PassOn, TypeOK, ScreenMatches
    <2>2. CASE SendLine
      <3>1. data_buffer' \in Seq(Keys \cup {"ctrl_d"})
        <4>1. /\ data \in Seq(Keys \cup {"ctrl_d"}) /\ line_buffer \in Seq(Keys \cup {"ctrl_d"})
              /\ data_buffer \in Seq(Keys \cup {"ctrl_d"})
          BY DEF TypeOK
        <4>2. data_buffer \o line_buffer \in Seq(Keys \cup {"ctrl_d"})
          BY <4>1
        <4>3. QED BY <2>2, <4>1, <4>2 DEF SendLine
      <3>2. /\ batch' \in Seq(Keys) /\ data' \in Seq(Keys)
            /\ line_buffer' \in Seq(Keys) /\ blind_write_count' = Len(line_buffer')
        BY <1>5, <2>2 DEF EndRead, SendLine
      <3>3. blind_write_count' \in Nat /\ line_flush' \in BOOLEAN
        BY <2>2 DEF SendLine
      <3>4. UNCHANGED <<use_tty, typed, orderly, pre_esc, esc, line_mode, stdin_eof, torn>>
        BY <1>5 DEF EndRead
      <3>5. QED BY <3>1, <3>2, <3>3, <3>4 DEF TypeOK, ScreenMatches
    <2>3. CASE Echo
      <3>1. line_buffer' \in Seq(Keys) /\ Len(line_buffer') = Len(line_buffer) + Len(data)
        BY <2>3 DEF Echo, TypeOK
      <3>2. blind_write_count' = Len(line_buffer') /\ blind_write_count' \in Nat
        BY <2>3, <3>1 DEF Echo, TypeOK, ScreenMatches
      <3>3. QED BY <1>5, <2>3, <3>1, <3>2 DEF EndRead, Echo, TypeOK, ScreenMatches
    <2>4. QED BY <1>5, <2>1, <2>2, <2>3 DEF EndRead
  <1>6. CASE EndOfInput
    <2>1. data_buffer' \in Seq(Keys \cup {"ctrl_d"})
      BY <1>6 DEF EndOfInput, is_stdin_pipe, TypeOK
    <2>2. QED BY <1>6, <2>1 DEF EndOfInput, is_stdin_pipe, TypeOK, ScreenMatches
  <1>7. ASSUME NEW c \in Keys, RawKey(c) PROVE FilterInv'
    <2>1. data' \in Seq(Keys)
      BY <1>7 DEF RawKey, TypeOK
    <2>2. QED BY <1>7, <2>1, TypeKeeps DEF RawKey, TypeOK, ScreenMatches
  <1>8. ASSUME NEW c \in Keys, Escaped(c) PROVE FilterInv'
    <2>1. data' \in Seq(Keys)
      <3>1. data \in Seq(Keys) /\ Unescape(c) \in Seq(Keys)
        BY <1>8, UnescapeType DEF TypeOK
      <3>2. QED BY <1>8, <3>1 DEF Escaped
    <2>2. line_mode' \in BOOLEAN /\ torn' \in BOOLEAN /\ esc' \in BOOLEAN
      BY <1>8 DEF Escaped, TypeOK
    <2>3. QED BY <1>8, <2>1, <2>2, TypeKeeps DEF Escaped, TypeOK, ScreenMatches
  <1>9. ASSUME NEW c \in Keys, OtherKey(c) PROVE FilterInv'
    <2>1. data' \in Seq(Keys)
      BY <1>9 DEF OtherKey, TypeOK
    <2>2. QED BY <1>9, <2>1, TypeKeeps DEF OtherKey, TypeOK, ScreenMatches
  <1>10. CASE UNCHANGED vars
    BY <1>10 DEF vars, TypeOK, ScreenMatches
  <1>11. QED
    BY <1>1, <1>2, <1>3, <1>4, <1>5, <1>6, <1>7, <1>8, <1>9, <1>10 DEF Next

\* The filter's variables keep their types; in particular the count of characters to
\* take off the screen is never negative (initiator.py:338-341).
THEOREM FilterTypeCorrect == Spec => []TypeOK
  <1>1. FilterInv => TypeOK
    BY DEF FilterInv
  <1>2. QED BY <1>1, InitInv, NextInv, PTL DEF Spec

\* The screen shows exactly the line that is held back, for any keys in any reads.
THEOREM ScreenMatchesHolds == Spec => []ScreenMatches
  <1>1. FilterInv => ScreenMatches
    BY DEF FilterInv
  <1>2. QED BY <1>1, InitInv, NextInv, PTL DEF Spec

(***************************************************************************)
(* Meant, key by key.  The provers do not induct over a sequence; the      *)
(* least number for which a statement fails does instead.                  *)
(***************************************************************************)
LEMMA Least ==
  ASSUME NEW S \in SUBSET Nat, S # {}
  PROVE  \E n \in S : \A m \in S : n <= m
  <1> DEFINE Below == {p \in Nat \X Nat : p[1] < p[2]}
  <1>1. IsWellFoundedOn(Below, Nat)
    BY NatLessThanWellFounded, Zenon DEF OpToRel
  <1> HIDE DEF Below
  <1>2. PICK n \in S : \A m \in S : ~ (<<m, n>> \in Below)
    BY <1>1, WFMin, Zenon
  <1>3. \A k, m \in Nat : k < m => <<k, m>> \in Below
    BY Zenon DEF Below
  <1>4. \A m \in S : ~(m < n)
    BY <1>2, <1>3
  <1>5. QED BY <1>4

Nothing == <<<<>>, <<>>>>

\* f says what each number of keys of t, up to n, means.
Reads(t, n, f) == f = [i \in 0..n |-> IF i = 0 THEN Nothing ELSE Add(t, f[i - 1], i)]

LEMMA ReadsExist == \A t : \A n \in Nat : \E f : Reads(t, n, f)
  <1> SUFFICES ASSUME NEW t, \E n \in Nat : ~ \E f : Reads(t, n, f) PROVE FALSE
    OBVIOUS
  <1> DEFINE None == {n \in Nat : ~ \E f : Reads(t, n, f)}
  <1>1. PICK n \in None : \A m \in None : n <= m
    BY Least
  <1>2. n # 0
    <2> DEFINE g == [i \in 0..0 |-> Nothing]
    <2>1. Reads(t, 0, g)
      BY DEF Reads
    <2>2. QED BY <2>1
  <1>3. n - 1 \in Nat /\ n - 1 \notin None
    BY <1>1, <1>2
  <1>4. PICK f : Reads(t, n - 1, f)
    BY <1>3
  <1> DEFINE g == [i \in 0..n |-> IF i = 0 THEN Nothing ELSE Add(t, f[i - 1], i)]
  <1>5. \A i \in 0..(n - 1) : g[i] = f[i]
    BY <1>3, <1>4 DEF Reads
  <1>6. g = [i \in 0..n |-> IF i = 0 THEN Nothing ELSE Add(t, g[i - 1], i)]
    <2>1. \A i \in 0..n : i # 0 => i - 1 \in 0..(n - 1)
      BY <1>3
    <2>2. \A i \in 0..n : i # 0 => g[i - 1] = f[i - 1]
      BY <1>5, <2>1
    <2>3. QED BY <2>2
  <1>7. Reads(t, n, g)
    BY <1>6 DEF Reads
  <1>8. QED BY <1>1, <1>7

LEMMA ReadsAgree ==
  ASSUME NEW t, NEW u, NEW n \in Nat, NEW m \in Nat, n <= m, NEW f, NEW g,
         Reads(t, n, f), Reads(u, m, g),
         \A r : \A i \in 1..n : Add(u, r, i) = Add(t, r, i)
  PROVE  \A i \in 0..n : g[i] = f[i]
  <1> SUFFICES ASSUME \E i \in 0..n : g[i] # f[i] PROVE FALSE
    OBVIOUS
  <1> DEFINE Differ == {i \in 0..n : g[i] # f[i]}
  <1>1. PICK i \in Differ : \A j \in Differ : i <= j
    <2>1. Differ \in SUBSET Nat /\ Differ # {}
      OBVIOUS
    <2> HIDE DEF Differ
    <2>2. QED BY <2>1, Least
  <1>2. i # 0
    BY DEF Reads
  <1>3. i - 1 \in 0..n /\ i - 1 \notin Differ /\ i \in 1..n
    BY <1>1, <1>2
  <1>4. g[i] = Add(u, g[i - 1], i) /\ f[i] = Add(t, f[i - 1], i)
    BY <1>2, <1>3 DEF Reads
  <1>5. QED BY <1>1, <1>3, <1>4

LEMMA MeantReads ==
  ASSUME NEW t \in Seq(Keys)
  PROVE  \E f : Reads(t, Len(t), f) /\ Meant(t) = f[Len(t)]
  <1> DEFINE f == CHOOSE f : Reads(t, Len(t), f)
  <1>1. \E g : Reads(t, Len(t), g)
    <2>1. Len(t) \in Nat
      OBVIOUS
    <2>2. QED BY <2>1, ReadsExist
  <1>2. Reads(t, Len(t), f)
    BY <1>1
  <1>3. Meant(t) = f[Len(t)]
    BY DEF Meant, Reads, Nothing
  <1>4. QED BY <1>2, <1>3

\* The places of an appended sequence are those of the sequence, and one more.
LEMMA Places ==
  ASSUME NEW t \in Seq(Keys), NEW c \in Keys, NEW u, u = Append(t, c),
         NEW n \in Nat, n = Len(t)
  PROVE  /\ u \in Seq(Keys) /\ Len(u) = n + 1 /\ u[n + 1] = c
         /\ \A i \in 1..n : u[i] = t[i]
  OBVIOUS

LEMMA EscapesOfAppend ==
  ASSUME NEW t \in Seq(Keys), NEW c \in Keys, NEW u, u = Append(t, c),
         NEW n \in Nat, n = Len(t)
  PROVE  /\ \A i \in 0..n : i \in Escapes(u) <=> i \in Escapes(t)
         /\ n + 1 \in Escapes(u) <=> c = "~" /\ (t = <<>> \/ Last(t) = "cr")
  <1>1. /\ u \in Seq(Keys) /\ Len(u) = n + 1 /\ u[n + 1] = c
        /\ \A i \in 1..n : u[i] = t[i]
    BY Places
  <1>2. \A i \in 0..n : i \in Escapes(u) <=> i \in Escapes(t)
    <2> SUFFICES ASSUME NEW i \in 1..n PROVE i \in Escapes(u) <=> i \in Escapes(t)
      BY <1>1 DEF Escapes
    <2>1. i # 1 => i - 1 \in 1..n
      OBVIOUS
    <2>2. QED BY <1>1, <2>1 DEF Escapes
  <1>3. n + 1 \in Escapes(u) <=> c = "~" /\ (n = 0 \/ u[n] = "cr")
    BY <1>1 DEF Escapes
  <1>4. t = <<>> <=> n = 0
    OBVIOUS
  <1>5. n # 0 => u[n] = Last(t)
    BY <1>1 DEF Last
  <1>6. QED BY <1>2, <1>3, <1>4, <1>5

LEMMA ModesOfAppend ==
  ASSUME NEW t \in Seq(Keys), NEW c \in Keys, NEW u, u = Append(t, c),
         NEW n \in Nat, n = Len(t)
  PROVE  /\ \A i \in 1..(n + 1) : Sequence(u, i) <=> Sequence(t, i)
         /\ \A i \in 1..(n + 1) : InLineMode(u, i) <=> InLineMode(t, i)
         /\ InLineMode(u, n + 2) <=>
              IF n \in Escapes(t) /\ c = "L" THEN ~InLineMode(t, n + 1)
                                             ELSE InLineMode(t, n + 1)
  <1>1. /\ u \in Seq(Keys) /\ Len(u) = n + 1 /\ u[n + 1] = c
        /\ \A i \in 1..n : u[i] = t[i]
    BY Places
  <1>2. \A i \in 1..(n + 1) : Sequence(u, i) <=> Sequence(t, i)
    <2> SUFFICES ASSUME NEW i \in 1..(n + 1) PROVE Sequence(u, i) <=> Sequence(t, i)
      OBVIOUS
    <2>1. i - 1 \in 0..n
      OBVIOUS
    <2>2. \A j \in 0..n : j \in Escapes(u) <=> j \in Escapes(t)
      BY EscapesOfAppend
    <2>3. QED BY <2>1, <2>2 DEF Sequence
  <1>3. \A k \in 0..n : Toggles(u, k) = Toggles(t, k)
    BY <1>1, <1>2 DEF Toggles
  <1>4. \A i \in 1..(n + 1) : InLineMode(u, i) <=> InLineMode(t, i)
    <2> SUFFICES ASSUME NEW i \in 1..(n + 1) PROVE InLineMode(u, i) <=> InLineMode(t, i)
      OBVIOUS
    <2>1. i - 1 \in 0..n
      OBVIOUS
    <2>2. QED BY <1>3, <2>1 DEF InLineMode
  <1>5. Sequence(t, n + 1) <=> n \in Escapes(t)
    BY DEF Sequence
  <1>6. Toggles(u, n + 1) = Toggles(t, n) \cup (IF n \in Escapes(t) /\ c = "L"
                                                 THEN {n + 1} ELSE {})
    <2>1. \A i \in 1..(n + 1) : i \in 1..n \/ i = n + 1
      OBVIOUS
    <2>2. n + 1 \in Toggles(u, n + 1) <=> n \in Escapes(t) /\ c = "L"
      BY <1>1, <1>2, <1>5 DEF Toggles
    <2>3. \A i \in 1..n : i \in Toggles(u, n + 1) <=> i \in Toggles(t, n)
      BY <1>1, <1>2 DEF Toggles
    <2>4. Toggles(u, n + 1) \subseteq 1..(n + 1) /\ Toggles(t, n) \subseteq 1..n
      BY DEF Toggles
    <2>5. n + 1 \notin 1..n
      OBVIOUS
    <2>6. QED BY <2>1, <2>2, <2>3, <2>4, <2>5
  <1>7. /\ IsFiniteSet(Toggles(t, n)) /\ n + 1 \notin Toggles(t, n)
    <2>1. IsFiniteSet(1..n)
      BY FS_Interval
    <2>2. Toggles(t, n) \in SUBSET (1..n)
      BY DEF Toggles
    <2>3. QED BY <2>1, <2>2, FS_Subset
  <1>8. PICK k \in Nat : k = Cardinality(Toggles(t, n))
    BY <1>7, FS_CardinalityType
  <1>9. Cardinality(Toggles(u, n + 1)) = IF n \in Escapes(t) /\ c = "L" THEN k + 1 ELSE k
    <2>1. CASE n \in Escapes(t) /\ c = "L"
      <3>1. Toggles(u, n + 1) = Toggles(t, n) \cup {n + 1}
        BY <1>6, <2>1
      <3>2. QED BY <1>7, <1>8, <2>1, <3>1, FS_AddElement
    <2>2. CASE ~(n \in Escapes(t) /\ c = "L")
      <3>1. Toggles(u, n + 1) = Toggles(t, n)
        BY <1>6, <2>2
      <3>2. QED BY <1>8, <2>2, <3>1
    <2>3. QED BY <2>1, <2>2
  <1>10. (k + 1) % 2 = 1 <=> ~(k % 2 = 1)
    OBVIOUS
  <1>11. (n + 2) - 1 = n + 1 /\ (n + 1) - 1 = n
    OBVIOUS
  <1>12. InLineMode(u, n + 2) <=> Cardinality(Toggles(u, n + 1)) % 2 = 1
    BY <1>11 DEF InLineMode
  <1>13. InLineMode(t, n + 1) <=> k % 2 = 1
    BY <1>8, <1>11 DEF InLineMode
  <1>14. QED BY <1>2, <1>4, <1>9, <1>10, <1>12, <1>13

LEMMA CompletedOfAppend ==
  ASSUME NEW t \in Seq(Keys), NEW c \in Keys, NEW u, u = Append(t, c),
         NEW n \in Nat, n = Len(t), Completed(u)
  PROVE  /\ Completed(t)
         /\ n \in Escapes(t) =>
              c # "cr" /\ ~(InLineMode(t, n + 1) /\ c \in {"flush", "bs"})
  <1>1. /\ u \in Seq(Keys) /\ Len(u) = n + 1 /\ u[n + 1] = c
        /\ \A i \in 1..n : u[i] = t[i]
    BY Places
  <1>2. \A i \in 1..n : i \in Escapes(u) <=> i \in Escapes(t)
    <2>1. \A i \in 0..n : i \in Escapes(u) <=> i \in Escapes(t)
      BY EscapesOfAppend
    <2>2. QED BY <2>1
  <1>3. \A i \in 1..(n + 1) : InLineMode(u, i) <=> InLineMode(t, i)
    BY ModesOfAppend
  <1>4. \A i \in Escapes(t) : i \in 1..n
    BY DEF Escapes
  <1>5. Completed(t)
    <2> SUFFICES ASSUME NEW i \in Escapes(t), i < n
                 PROVE  t[i + 1] # "cr"
                        /\ ~(InLineMode(t, i + 1) /\ t[i + 1] \in {"flush", "bs"})
      BY DEF Completed
    <2>1. i \in 1..n /\ i + 1 \in 1..n /\ i \in Escapes(u) /\ i < Len(u)
      BY <1>1, <1>2, <1>4
    <2>2. i + 1 \in 1..(n + 1)
      BY <2>1
    <2>3. QED BY <1>1, <1>3, <2>1, <2>2 DEF Completed
  <1>6. ASSUME n \in Escapes(t)
        PROVE  c # "cr" /\ ~(InLineMode(t, n + 1) /\ c \in {"flush", "bs"})
    <2>1. n \in Escapes(u) /\ n < Len(u) /\ n + 1 \in 1..(n + 1)
      BY <1>1, <1>2, <1>4, <1>6
    <2>2. QED BY <1>1, <1>3, <2>1 DEF Completed
  <1>7. QED BY <1>5, <1>6

LEMMA AddOfAppend ==
  ASSUME NEW t \in Seq(Keys), NEW c \in Keys, NEW r, NEW i \in 1..Len(t)
  PROVE  Add(Append(t, c), r, i) = Add(t, r, i)
  <1>0. PICK u : u = Append(t, c)
    OBVIOUS
  <1>1. PICK n \in Nat : u = Append(t, c) /\ n = Len(t)
    <2>1. Len(t) \in Nat
      OBVIOUS
    <2>2. QED BY <1>0, <2>1
  <1>2. u[i] = t[i]
    BY <1>1, Places
  <1>3. i \in 0..n /\ i \in 1..(n + 1)
    BY <1>1
  <1>4. /\ i \in Escapes(u) <=> i \in Escapes(t)
        /\ Sequence(u, i) <=> Sequence(t, i)
        /\ InLineMode(u, i) <=> InLineMode(t, i)
    BY <1>1, <1>3, EscapesOfAppend, ModesOfAppend
  <1>5. Meaning(u, i) = Meaning(t, i)
    BY <1>2, <1>4 DEF Meaning
  <1>6. QED BY <1>1, <1>2, <1>4, <1>5 DEF Add

\* What one more key adds.
LEMMA MeantOfAppend ==
  ASSUME NEW t \in Seq(Keys), NEW c \in Keys, NEW u, u = Append(t, c),
         NEW n \in Nat, n = Len(t)
  PROVE  Meant(u) = Add(u, Meant(t), n + 1)
  <1>1. u \in Seq(Keys) /\ Len(u) = n + 1
    BY Places
  <1>2. PICK f : Reads(t, n, f) /\ Meant(t) = f[n]
    BY MeantReads
  <1>3. PICK g : Reads(u, n + 1, g) /\ Meant(u) = g[n + 1]
    BY <1>1, MeantReads
  <1>4. n + 1 \in Nat /\ n <= n + 1 /\ n \in 0..n
    OBVIOUS
  <1>5. \A i \in 0..n : g[i] = f[i]
    <2>1. \A r : \A i \in 1..n : Add(u, r, i) = Add(t, r, i)
      BY AddOfAppend
    <2>2. Reads(t, n, f) /\ Reads(u, n + 1, g) /\ n + 1 \in Nat /\ n <= n + 1
      BY <1>2, <1>3, <1>4
    <2>3. QED BY <2>1, <2>2, ReadsAgree
  <1>6. g[n + 1] = Add(u, g[n], n + 1)
    <2>1. n + 1 \in 0..(n + 1) /\ n + 1 # 0 /\ (n + 1) - 1 = n
      OBVIOUS
    <2>2. QED BY <1>3, <2>1 DEF Reads
  <1>7. QED BY <1>2, <1>3, <1>4, <1>5, <1>6

LEMMA MeantIsPair ==
  ASSUME NEW t \in Seq(Keys)
  PROVE  Meant(t) = <<Meant(t)[1], Meant(t)[2]>> /\ (t = <<>> => Meant(t) = Nothing)
  <1>1. PICK f : Reads(t, Len(t), f) /\ Meant(t) = f[Len(t)]
    BY MeantReads
  <1>2. Len(t) \in 0..Len(t)
    OBVIOUS
  <1>3. Meant(t) = IF Len(t) = 0 THEN Nothing ELSE Add(t, f[Len(t) - 1], Len(t))
    BY <1>1, <1>2 DEF Reads
  <1>4. t = <<>> => Len(t) = 0
    OBVIOUS
  <1>5. Nothing = <<Nothing[1], Nothing[2]>>
    BY DEF Nothing
  <1>6. \A r, i : Add(t, r, i) = <<Add(t, r, i)[1], Add(t, r, i)[2]>>
    BY DEF Add
  <1>7. QED BY <1>3, <1>4, <1>5, <1>6

(***************************************************************************)
(* The keys are kept.                                                      *)
(***************************************************************************)

\* The flags that the code carries from key to key say what the keys' places say.
FlagInv ==
  /\ pre_esc <=> typed = <<>> \/ Last(typed) = "cr"
  /\ esc <=> Len(typed) \in Escapes(typed)
  /\ line_mode <=> InLineMode(typed, Len(typed) + 1)
  /\ torn <=> \E i \in 2..Len(typed) : Sequence(typed, i) /\ typed[i] = "."

\* What is still to be done with the keys kept when the session is to have got sent and
\* line is to be held back.
Awaits(sent, line) ==
  /\ batch = <<>> => data = <<>>
  /\ ~line_mode => data_buffer \o data = sent /\ line_buffer = <<>> /\ line = <<>>
  /\ line_mode /\ ~line_flush => data_buffer = sent /\ line_buffer \o data = line
  /\ line_mode /\ line_flush =>
       /\ data_buffer \o line_buffer \o data = sent /\ line = <<>>
       /\ batch # <<>> /\ Last(batch) \in {"cr", "flush", "L"}
  /\ line_mode /\ ~line_flush /\ (pre_esc \/ esc) => line_buffer = <<>> /\ data = <<>>

BufferInv == Awaits(Meant(typed)[1], Meant(typed)[2])

KeyInv ==
  use_tty /\ Completed(typed) =>
    /\ FlagInv
    /\ ~stdin_eof /\ orderly => BufferInv

KeyGot(c) == IF BeginsEscape(c) THEN <<>> ELSE IF esc THEN Unescape(c) ELSE <<c>>

\* What a key means, in terms of the flags.
LEMMA KeyMeans ==
  ASSUME TypeOK, FlagInv, NEW c \in Keys, Completed(Append(typed, c))
  PROVE  Meant(Append(typed, c)) =
           LET sent == Meant(typed)[1]   line == Meant(typed)[2]
           IN  IF ~line_mode                THEN <<sent \o KeyGot(c), line>>
               ELSE IF c = "bs"             THEN <<sent, SubSeq(line, 1, Len(line) - 1)>>
               ELSE IF c \in {"cr", "flush"} THEN <<sent \o line \o KeyGot(c), <<>>>>
               ELSE                              <<sent, line \o KeyGot(c)>>
  <1>1. PICK n \in Nat : n = Len(typed) /\ typed \in Seq(Keys)
    BY DEF TypeOK
  <1>a. PICK u : u = Append(typed, c)
    OBVIOUS
  <1>2. u \in Seq(Keys) /\ Len(u) = n + 1 /\ u[n + 1] = c
    BY <1>1, <1>a, Places
  <1>3. Meant(u) = Add(u, Meant(typed), n + 1)
    BY <1>1, <1>a, MeantOfAppend
  <1>4. n + 1 \in Escapes(u) <=> BeginsEscape(c)
    <2>1. n + 1 \in Escapes(u) <=> c = "~" /\ (typed = <<>> \/ Last(typed) = "cr")
      BY <1>1, <1>a, EscapesOfAppend
    <2>2. QED BY <2>1 DEF FlagInv, BeginsEscape
  <1>5. /\ Sequence(u, n + 1) <=> esc
        /\ InLineMode(u, n + 1) <=> line_mode
    <2>1. /\ \A i \in 1..(n + 1) : Sequence(u, i) <=> Sequence(typed, i)
          /\ \A i \in 1..(n + 1) : InLineMode(u, i) <=> InLineMode(typed, i)
      BY <1>1, <1>a, ModesOfAppend
    <2>2. n + 1 \in 1..(n + 1) /\ (n + 1) - 1 = n
      OBVIOUS
    <2>3. Sequence(typed, n + 1) <=> esc
      BY <1>1, <2>2 DEF Sequence, FlagInv
    <2>4. QED BY <1>1, <2>1, <2>2, <2>3 DEF FlagInv
  <1>6. Meaning(u, n + 1) = KeyGot(c)
    BY <1>2, <1>4, <1>5 DEF Meaning, KeyGot, Unescape
  <1>7. QED BY <1>a, <1>2, <1>3, <1>5, <1>6 DEF Add

\* Every key leaves the flags as the places say, unless it leaves a sequence open.
LEMMA FlagsFollow ==
  ASSUME TypeOK, FlagInv, NEW c \in Keys, typed' = Append(typed, c), Completed(typed'),
         pre_esc' <=> c = "cr",
         esc' <=> BeginsEscape(c),
         line_mode' <=> IF esc /\ c = "L" THEN ~line_mode ELSE line_mode,
         torn' <=> torn \/ (esc /\ c = ".")
  PROVE  FlagInv'
  <1>1. PICK n \in Nat : n = Len(typed) /\ typed \in Seq(Keys)
    BY DEF TypeOK
  <1>a. PICK u : u = typed'
    OBVIOUS
  <1>2. /\ u \in Seq(Keys) /\ Len(u) = n + 1 /\ u[n + 1] = c
        /\ \A i \in 1..n : u[i] = typed[i]
    BY <1>1, <1>a, Places
  <1>3. pre_esc' <=> typed' = <<>> \/ Last(typed') = "cr"
    <2>1. u # <<>> /\ Last(u) = c
      BY <1>2 DEF Last
    <2>2. QED BY <1>a, <2>1
  <1>4. esc' <=> Len(typed') \in Escapes(typed')
    <2>1. n + 1 \in Escapes(u) <=> c = "~" /\ (typed = <<>> \/ Last(typed) = "cr")
      BY <1>1, <1>a, EscapesOfAppend
    <2>2. QED BY <1>2, <1>a, <2>1 DEF FlagInv, BeginsEscape
  <1>5. /\ \A i \in 1..(n + 1) : Sequence(u, i) <=> Sequence(typed, i)
        /\ InLineMode(u, n + 2) <=>
             IF n \in Escapes(typed) /\ c = "L" THEN ~InLineMode(typed, n + 1)
                                                ELSE InLineMode(typed, n + 1)
    BY <1>1, <1>a, ModesOfAppend
  <1>6. line_mode' <=> InLineMode(typed', Len(typed') + 1)
    <2>1. Len(u) + 1 = n + 2
      BY <1>2
    <2>2. QED BY <1>1, <1>a, <1>5, <2>1 DEF FlagInv
  <1>7. torn' <=> \E i \in 2..Len(typed') : Sequence(typed', i) /\ typed'[i] = "."
    <2>1. \A i \in 2..(n + 1) : i \in 2..n \/ (i = n + 1 /\ n + 1 \in 2..(n + 1))
      OBVIOUS
    <2>2. \A i \in 2..n : i \in 2..(n + 1) /\ i \in 1..(n + 1) /\ i \in 1..n
      OBVIOUS
    <2>3. Sequence(typed, n + 1) <=> esc
      <3>1. (n + 1) - 1 = n
        OBVIOUS
      <3>2. QED BY <1>1, <3>1 DEF Sequence, FlagInv
    <2>4. esc => n + 1 \in 2..(n + 1)
      BY <1>1 DEF FlagInv, Escapes
    <2>5. n + 1 \in 1..(n + 1)
      OBVIOUS
    <2>6. (\E i \in 2..(n + 1) : Sequence(u, i) /\ u[i] = ".")
            <=> torn \/ (esc /\ c = ".")
      BY <1>1, <1>2, <1>5, <2>1, <2>2, <2>3, <2>4, <2>5 DEF FlagInv
    <2>7. QED BY <1>2, <1>a, <2>6
  <1>8. QED BY <1>3, <1>4, <1>6, <1>7 DEF FlagInv

AllKeys == Keys \cup {"ctrl_d"}

LEMMA Joins ==
  ASSUME TypeOK, NEW k \in Seq(Keys)
  PROVE  /\ data_buffer \in Seq(AllKeys) /\ line_buffer \in Seq(AllKeys)
         /\ data \in Seq(AllKeys) /\ k \in Seq(AllKeys)
         /\ (data_buffer \o data) \o k = data_buffer \o (data \o k)
         /\ (line_buffer \o data) \o k = line_buffer \o (data \o k)
         /\ (data_buffer \o (line_buffer \o data)) \o k
              = (data_buffer \o line_buffer) \o (data \o k)
  <1>1. /\ data_buffer \in Seq(AllKeys) /\ line_buffer \in Seq(AllKeys)
        /\ data \in Seq(AllKeys) /\ k \in Seq(AllKeys)
    BY DEF TypeOK, AllKeys
  <1>2. /\ (data_buffer \o data) \o k = data_buffer \o (data \o k)
        /\ (line_buffer \o data) \o k = line_buffer \o (data \o k)
    <2>1. (data_buffer \o data) \o k = data_buffer \o (data \o k)
      BY <1>1, ConcatAssociative
    <2>2. (line_buffer \o data) \o k = line_buffer \o (data \o k)
      BY <1>1, ConcatAssociative
    <2>3. QED BY <2>1, <2>2
  <1>3. /\ data_buffer \o line_buffer \in Seq(AllKeys) /\ line_buffer \o data \in Seq(AllKeys)
    BY <1>1
  <1>4. data_buffer \o (line_buffer \o data) = (data_buffer \o line_buffer) \o data
    BY <1>1, ConcatAssociative
  <1>5. ((data_buffer \o line_buffer) \o data) \o k
          = (data_buffer \o line_buffer) \o (data \o k)
    BY <1>1, <1>3, ConcatAssociative
  <1>6. QED BY <1>1, <1>2, <1>4, <1>5

\* A key that is typed in order meets no line that waits to be sent.
LEMMA NothingDue ==
  ASSUME TypeOK, NEW S, NEW L, Awaits(S, L), NEW c \in Keys, Type(c), orderly'
  PROVE  /\ ~(line_mode /\ line_flush)
         /\ batch' # <<>> /\ Last(batch') = c
         /\ (esc /\ c = "L") \/ (line_mode /\ c = "bs") => data = <<>>
  <1>1. batch \in Seq(Keys) /\ batch' = Append(batch, c)
    BY DEF TypeOK, Type
  <1>2. batch' # <<>> /\ Last(batch') = c
    BY <1>1 DEF Last
  <1>3. batch = <<>> \/ Follows(c)
    BY DEF Type
  <1>4. QED BY <1>2, <1>3 DEF Awaits, Follows

\* What the appended key does to the pair that Meant gives, for each key and mode.
LEMMA NewlineKeeps ==
  ASSUME TypeOK, FlagInv, NEW S, NEW L, Awaits(S, L), Newline, orderly', ~esc
  PROVE  IF line_mode THEN Awaits(S \o L \o <<"cr">>, <<>>)'
                      ELSE Awaits(S \o <<"cr">>, L)'
  <1>1. "cr" \in Keys /\ <<"cr">> \in Seq(Keys)
    BY DEF Keys
  <1>2. data' = data \o <<"cr">>
    BY <1>1 DEF Newline, TypeOK
  <1>3. /\ ~(line_mode /\ line_flush)
        /\ batch' # <<>> /\ Last(batch') = "cr"
    BY <1>1, NothingDue DEF Newline
  <1>4. UNCHANGED <<line_mode, line_buffer, data_buffer>> /\ line_flush'
    BY DEF Newline, lineVars, endVars
  <1>5. CASE line_mode
    <2>1. data_buffer = S /\ line_buffer \o data = L
      BY <1>3, <1>5 DEF Awaits, TypeOK
    <2>2. data_buffer' \o line_buffer' \o data' = S \o L \o <<"cr">>
      BY <1>1, <1>2, <1>4, <2>1, Joins
    <2>3. QED BY <1>3, <1>4, <1>5, <2>2 DEF Awaits
  <1>6. CASE ~line_mode
    <2>1. data_buffer \o data = S /\ line_buffer = <<>> /\ L = <<>>
      BY <1>6 DEF Awaits
    <2>2. data_buffer' \o data' = S \o <<"cr">>
      BY <1>1, <1>2, <1>4, <2>1, Joins
    <2>3. QED BY <1>3, <1>4, <1>6, <2>1, <2>2 DEF Awaits
  <1>7. QED BY <1>5, <1>6

LEMMA FlushKeeps ==
  ASSUME TypeOK, FlagInv, NEW S, NEW L, Awaits(S, L), FlushKey, orderly', ~esc
  PROVE  Awaits(S \o L \o <<"flush">>, <<>>)'
  <1>1. "flush" \in Keys /\ <<"flush">> \in Seq(Keys)
    BY DEF Keys
  <1>2. data' = data \o <<"flush">>
    BY <1>1 DEF FlushKey, TypeOK
  <1>3. /\ ~(line_mode /\ line_flush)
        /\ batch' # <<>> /\ Last(batch') = "flush"
    BY <1>1, NothingDue DEF FlushKey
  <1>4. UNCHANGED <<line_mode, line_buffer, data_buffer>> /\ line_flush' /\ line_mode
    BY DEF FlushKey, lineVars, endVars
  <1>5. data_buffer = S /\ line_buffer \o data = L
    BY <1>3, <1>4 DEF Awaits, TypeOK
  <1>6. data_buffer' \o line_buffer' \o data' = S \o L \o <<"flush">>
    BY <1>1, <1>2, <1>4, <1>5, Joins
  <1>7. QED BY <1>3, <1>4, <1>6 DEF Awaits

LEMMA BackspaceKeeps ==
  ASSUME TypeOK, FlagInv, NEW S, NEW L, Awaits(S, L), Backspace, orderly', ~esc
  PROVE  Awaits(S, SubSeq(L, 1, Len(L) - 1))'
  <1>1. "bs" \in Keys
    BY DEF Keys
  <1>2. /\ ~(line_mode /\ line_flush) /\ batch' # <<>>
        /\ line_mode /\ data = <<>>
    BY <1>1, NothingDue DEF Backspace
  <1>3. /\ UNCHANGED <<line_mode, data_buffer, data, line_flush, esc>> /\ ~pre_esc'
    BY DEF Backspace, endVars
  <1>4. data_buffer = S /\ line_buffer = L /\ L \in Seq(Keys)
    <2>1. data_buffer = S /\ line_buffer \o <<>> = L
      BY <1>2 DEF Awaits, TypeOK
    <2>2. QED BY <2>1 DEF TypeOK
  <1>5. line_buffer' = SubSeq(L, 1, Len(L) - 1)
    <2>1. CASE L = <<>>
      BY <1>4, <2>1 DEF Backspace, EraseLast, lineVars
    <2>2. CASE L # <<>>
      BY <1>4, <2>2 DEF Backspace, EraseLast, EraseBlindly, Front
    <2>3. QED BY <2>1, <2>2
  <1>6. line_buffer' \in Seq(Keys)
    <2>1. Len(L) \in Nat /\ Len(L) - 1 \in Int
      BY <1>4
    <2>2. QED BY <1>4, <1>5, <2>1
  <1>7. line_buffer' \o data' = SubSeq(L, 1, Len(L) - 1)
    BY <1>2, <1>3, <1>5, <1>6
  <1>8. ~line_flush' /\ ~esc'
    BY <1>2, <1>3 DEF TypeOK
  <1>9. QED BY <1>2, <1>3, <1>4, <1>7, <1>8 DEF Awaits

LEMMA EscapeKeyKeeps ==
  ASSUME TypeOK, FlagInv, NEW S, NEW L, Awaits(S, L), EscapeKey, orderly'
  PROVE  Awaits(S, L)'
  <1>1. "~" \in Keys
    BY DEF Keys
  <1>2. ~(line_mode /\ line_flush) /\ batch' # <<>>
    BY <1>1, NothingDue DEF EscapeKey
  <1>3. UNCHANGED <<line_mode, line_flush, data, line_buffer, data_buffer>> /\ pre_esc
    BY DEF EscapeKey, lineVars, endVars, BeginsEscape
  <1>4. QED BY <1>2, <1>3 DEF Awaits

LEMMA EscapedKeeps ==
  ASSUME TypeOK, FlagInv, NEW S, NEW L, Awaits(S, L), NEW c \in Keys, Escaped(c), orderly'
  PROVE  IF line_mode THEN Awaits(S, L \o Unescape(c))' ELSE Awaits(S \o Unescape(c), L)'
  <1>1. PICK k \in Seq(Keys) : k = Unescape(c)
    BY UnescapeType
  <1>2. /\ ~(line_mode /\ line_flush) /\ batch' # <<>>
        /\ c = "L" => data = <<>>
    BY NothingDue DEF Escaped
  <1>3. /\ UNCHANGED <<line_flush, line_buffer, data_buffer>> /\ data' = data \o k
        /\ ~esc' /\ line_mode' = IF c = "L" THEN ~line_mode ELSE line_mode
    BY <1>1 DEF Escaped, lineVars, endVars
  <1>4. ~pre_esc'
    <2>1. esc /\ pre_esc' = pre_esc
      BY DEF Escaped
    <2>2. typed # <<>> /\ Last(typed) # "cr"
      <3>1. typed[Len(typed)] = "~" /\ Len(typed) \in 1..Len(typed)
        BY <2>1 DEF FlagInv, Escapes
      <3>2. QED BY <3>1 DEF Last, TypeOK
    <2>3. QED BY <2>1, <2>2 DEF FlagInv
  <1>5. CASE c = "L"
    <2>1. k = <<>> /\ data = <<>> /\ data' = <<>>
      BY <1>1, <1>2, <1>3, <1>5 DEF Unescape
    <2>2. CASE line_mode
      <3>1. esc /\ ~line_flush
        BY <1>2, <2>2 DEF Escaped
      <3>2. data_buffer = S /\ line_buffer \o data = L /\ line_buffer = <<>>
        BY <2>2, <3>1 DEF Awaits
      <3>3. L = <<>> /\ L \o k = <<>>
        BY <2>1, <3>2
      <3>4. data_buffer' \o data' = S
        BY <1>3, <2>1, <3>2 DEF TypeOK
      <3>5. ~line_mode' /\ line_buffer' = <<>>
        BY <1>3, <1>5, <2>2, <3>2
      <3>6. Awaits(S, L \o k)'
        BY <1>2, <3>3, <3>4, <3>5 DEF Awaits
      <3>7. QED BY <1>1, <2>2, <3>6
    <2>3. CASE ~line_mode
      <3>1. data_buffer \o data = S /\ line_buffer = <<>> /\ L = <<>>
        BY <2>3 DEF Awaits
      <3>2. data_buffer = S /\ S \in Seq(AllKeys)
        BY <2>1, <3>1 DEF TypeOK, AllKeys
      <3>3. S \o k = S
        BY <2>1, <3>2
      <3>4. /\ data_buffer' = S /\ line_buffer' \o data' = L
            /\ data_buffer' \o line_buffer' \o data' = S
        BY <1>3, <2>1, <3>1, <3>2
      <3>5. line_mode' /\ line_buffer' = <<>>
        BY <1>3, <1>5, <2>3, <3>1
      <3>6. Last(batch') = "L"
        BY <1>5, NothingDue DEF Escaped
      <3>7. Awaits(S \o k, L)'
        BY <1>2, <2>1, <3>1, <3>3, <3>4, <3>5, <3>6 DEF Awaits
      <3>8. QED BY <1>1, <2>3, <3>7
    <2>4. QED BY <2>2, <2>3
  <1>6. CASE c # "L"
    <2>1. CASE line_mode
      <3>1. data_buffer = S /\ line_buffer \o data = L
        BY <1>2, <2>1 DEF Awaits
      <3>2. line_buffer' \o data' = L \o k
        BY <1>3, <3>1, Joins
      <3>3. Awaits(S, L \o k)'
        BY <1>2, <1>3, <1>4, <1>6, <2>1, <3>1, <3>2 DEF Awaits
      <3>4. QED BY <1>1, <2>1, <3>3
    <2>2. CASE ~line_mode
      <3>1. data_buffer \o data = S /\ line_buffer = <<>> /\ L = <<>>
        BY <2>2 DEF Awaits
      <3>2. data_buffer' \o data' = S \o k
        BY <1>3, <3>1, Joins
      <3>3. Awaits(S \o k, L)'
        BY <1>2, <1>3, <1>6, <2>2, <3>1, <3>2 DEF Awaits
      <3>4. QED BY <1>1, <2>2, <3>3
    <2>3. QED BY <2>1, <2>2
  <1>7. QED BY <1>5, <1>6

LEMMA OtherKeeps ==
  ASSUME TypeOK, FlagInv, NEW S, NEW L, Awaits(S, L), NEW c \in Keys, OtherKey(c), orderly'
  PROVE  IF line_mode THEN Awaits(S, L \o <<c>>)' ELSE Awaits(S \o <<c>>, L)'
  <1>1. <<c>> \in Seq(Keys) /\ data' = data \o <<c>>
    BY DEF OtherKey, TypeOK
  <1>2. ~(line_mode /\ line_flush) /\ batch' # <<>>
    BY NothingDue DEF OtherKey
  <1>3. /\ UNCHANGED <<line_mode, line_flush, line_buffer, data_buffer>>
        /\ ~pre_esc' /\ ~esc'
    BY DEF OtherKey, lineVars, endVars
  <1>4. CASE line_mode
    <2>1. data_buffer = S /\ line_buffer \o data = L
      BY <1>2, <1>4 DEF Awaits
    <2>2. line_buffer' \o data' = L \o <<c>>
      BY <1>1, <1>3, <2>1, Joins
    <2>3. QED BY <1>2, <1>3, <1>4, <2>1, <2>2 DEF Awaits
  <1>5. CASE ~line_mode
    <2>1. data_buffer \o data = S /\ line_buffer = <<>> /\ L = <<>>
      BY <1>5 DEF Awaits
    <2>2. data_buffer' \o data' = S \o <<c>>
      BY <1>1, <1>3, <2>1, Joins
    <2>3. QED BY <1>2, <1>3, <1>5, <2>1, <2>2 DEF Awaits
  <1>6. QED BY <1>4, <1>5

\* The end of a read does what was due.
LEMMA EndReadKeeps ==
  ASSUME TypeOK, NEW S, NEW L, Awaits(S, L), EndRead, use_tty
  PROVE  Awaits(S, L)'
  <1>1. batch' = <<>> /\ data' = <<>> /\ UNCHANGED <<pre_esc, esc, line_mode>>
    BY DEF EndRead, escVars
  <1>2. /\ data_buffer \in Seq(AllKeys) /\ line_buffer \in Seq(AllKeys)
        /\ data \in Seq(AllKeys)
    BY DEF TypeOK, AllKeys
  <1>3. /\ data_buffer \o data \in Seq(AllKeys) /\ line_buffer \o data \in Seq(AllKeys)
    BY <1>2
  <1>4. CASE ~line_mode
    <2>1. data_buffer' = S /\ line_buffer' = <<>> /\ L = <<>> /\ S \in Seq(AllKeys)
      BY <1>3, <1>4 DEF EndRead, PassOn, lineVars, Awaits
    <2>2. S \o <<>> = S
      BY <2>1
    <2>3. QED BY <1>1, <1>4, <2>1, <2>2 DEF Awaits
  <1>5. CASE line_mode /\ line_flush
    <2>1. data_buffer' = S /\ L = <<>> /\ line_buffer' = <<>> /\ ~line_flush'
      BY <1>5 DEF EndRead, SendLine, Awaits
    <2>2. QED BY <1>1, <1>5, <2>1 DEF Awaits
  <1>6. CASE line_mode /\ ~line_flush
    <2>1. /\ data_buffer' = S /\ line_buffer' = L /\ ~line_flush' /\ L \in Seq(AllKeys)
      BY <1>3, <1>6 DEF EndRead, Echo, Awaits
    <2>2. L \o <<>> = L
      BY <2>1
    <2>3. pre_esc \/ esc => L = <<>>
      <3>1. pre_esc \/ esc => line_buffer = <<>> /\ data = <<>> /\ L = line_buffer \o data
        BY <1>6 DEF Awaits
      <3>2. <<>> \o <<>> = <<>>
        OBVIOUS
      <3>3. QED BY <3>1, <3>2
    <2>4. QED BY <1>1, <1>6, <2>1, <2>2, <2>3 DEF Awaits
  <1>7. QED BY <1>4, <1>5, <1>6

LEMMA InitKey == Init => KeyInv
  <1> SUFFICES ASSUME Init PROVE KeyInv
    OBVIOUS
  <1>1. typed = <<>> /\ typed \in Seq(Keys) /\ Len(typed) = 0
    BY DEF Init
  <1>2. Toggles(typed, 0) = {} /\ Escapes(typed) = {}
    BY <1>1 DEF Toggles, Escapes
  <1>3. ~InLineMode(typed, Len(typed) + 1)
    <2>1. (0 + 1) - 1 = 0 /\ 0 % 2 # 1
      OBVIOUS
    <2>2. QED BY <1>1, <1>2, <2>1, FS_EmptySet DEF InLineMode
  <1>4. FlagInv
    BY <1>1, <1>2, <1>3 DEF Init, FlagInv
  <1>5. Meant(typed) = Nothing
    BY <1>1, MeantIsPair
  <1>6. BufferInv
    <2>1. <<>> \o <<>> = <<>>
      OBVIOUS
    <2>2. QED BY <1>5, <2>1 DEF Init, BufferInv, Awaits, Nothing
  <1>7. QED BY <1>4, <1>6 DEF KeyInv

LEMMA NextKey == FilterInv /\ KeyInv /\ [Next]_vars => KeyInv'
  <1> SUFFICES ASSUME TypeOK, KeyInv, [Next]_vars, use_tty', Completed(typed')
               PROVE  FlagInv' /\ (~stdin_eof' /\ orderly' => BufferInv')
    BY DEF FilterInv, KeyInv
  <1> USE DEF keyVars, escVars, lineVars, endVars
  <1>1. use_tty
    BY DEF Next, RawKey, Newline, FlushKey, Backspace, EscapeKey, Escaped, OtherKey, EndRead,
           EndOfInput, vars
  <1>2. PICK S, L : S = Meant(typed)[1] /\ L = Meant(typed)[2]
    OBVIOUS
  <1>a. PICK u : u = typed'
    OBVIOUS
  <1>3. ASSUME NEW c \in Keys, Type(c)
        PROVE  /\ u = Append(typed, c) /\ Completed(u) /\ FlagInv
               /\ esc => c # "cr" /\ ~(line_mode /\ c \in {"flush", "bs"})
               /\ orderly' => Awaits(S, L)
    <2>1. u = Append(typed, c) /\ Completed(u) /\ typed \in Seq(Keys)
      BY <1>3, <1>a DEF Type, TypeOK
    <2>2. PICK n \in Nat : n = Len(typed)
      BY <2>1
    <2>3. /\ Completed(typed)
          /\ n \in Escapes(typed) =>
               c # "cr" /\ ~(InLineMode(typed, n + 1) /\ c \in {"flush", "bs"})
      BY <1>3, <2>1, <2>2, CompletedOfAppend
    <2>4. FlagInv
      BY <1>1, <2>3 DEF KeyInv
    <2>5. esc => c # "cr" /\ ~(line_mode /\ c \in {"flush", "bs"})
      BY <2>2, <2>3, <2>4 DEF FlagInv
    <2>6. orderly' => Awaits(S, L)
      BY <1>1, <1>2, <1>3, <2>3 DEF KeyInv, BufferInv, Type
    <2>7. QED BY <2>1, <2>4, <2>5, <2>6
  <1>b. ASSUME NEW c \in Keys, u = Append(typed, c), Completed(u), FlagInv
        PROVE  /\ ~line_mode => Meant(u) = <<S \o KeyGot(c), L>>
               /\ line_mode /\ c = "bs" => Meant(u) = <<S, SubSeq(L, 1, Len(L) - 1)>>
               /\ line_mode /\ c \in {"cr", "flush"} =>
                    Meant(u) = <<S \o L \o KeyGot(c), <<>>>>
               /\ line_mode /\ c \notin {"bs", "cr", "flush"} =>
                    Meant(u) = <<S, L \o KeyGot(c)>>
    <2>1. Meant(u) = IF ~line_mode                  THEN <<S \o KeyGot(c), L>>
                     ELSE IF c = "bs"               THEN <<S, SubSeq(L, 1, Len(L) - 1)>>
                     ELSE IF c \in {"cr", "flush"} THEN <<S \o L \o KeyGot(c), <<>>>>
                     ELSE                                <<S, L \o KeyGot(c)>>
      BY <1>1, <1>2, <1>b, KeyMeans
    <2>2. QED BY <2>1
  <1>4. ASSUME NEW P, NEW Q, Meant(u) = <<P, Q>>, Awaits(P, Q)' PROVE BufferInv'
    BY <1>4, <1>a DEF BufferInv
  <1>5. CASE Newline
    <2>1. "cr" \in Keys /\ Type("cr")
      BY <1>5, KeyTypes DEF Newline
    <2>2. /\ u = Append(typed, "cr") /\ Completed(u) /\ FlagInv /\ ~esc
          /\ orderly' => Awaits(S, L)
      BY <1>3, <2>1
    <2>3. KeyGot("cr") = <<"cr">>
      BY <2>2 DEF KeyGot, BeginsEscape
    <2>4. FlagInv'
      BY <1>5, <1>a, <2>1, <2>2, FlagsFollow DEF Newline, BeginsEscape
    <2>5. ASSUME orderly' PROVE BufferInv'
      <3>1. IF line_mode THEN Awaits(S \o L \o <<"cr">>, <<>>)'
                         ELSE Awaits(S \o <<"cr">>, L)'
        BY <1>5, <2>2, <2>5, NewlineKeeps
      <3>2. Meant(u) = IF line_mode THEN <<S \o L \o <<"cr">>, <<>>>> ELSE <<S \o <<"cr">>, L>>
        BY <1>b, <2>1, <2>2, <2>3
      <3>3. QED BY <1>4, <3>1, <3>2
    <2>6. QED BY <2>4, <2>5
  <1>6. CASE FlushKey
    <2>1. "flush" \in Keys /\ Type("flush") /\ line_mode
      BY <1>6, KeyTypes DEF FlushKey
    <2>2. /\ u = Append(typed, "flush") /\ Completed(u) /\ FlagInv /\ ~esc
          /\ orderly' => Awaits(S, L)
      BY <1>3, <2>1
    <2>3. KeyGot("flush") = <<"flush">>
      BY <2>2 DEF KeyGot, BeginsEscape
    <2>4. FlagInv'
      BY <1>6, <1>a, <2>1, <2>2, FlagsFollow DEF FlushKey, BeginsEscape
    <2>5. ASSUME orderly' PROVE BufferInv'
      <3>1. Awaits(S \o L \o <<"flush">>, <<>>)'
        BY <1>6, <2>2, <2>5, FlushKeeps
      <3>2. Meant(u) = <<S \o L \o <<"flush">>, <<>>>>
        BY <1>b, <2>1, <2>2, <2>3
      <3>3. QED BY <1>4, <3>1, <3>2
    <2>6. QED BY <2>4, <2>5
  <1>7. CASE Backspace
    <2>1. "bs" \in Keys /\ Type("bs") /\ line_mode
      BY <1>7, KeyTypes DEF Backspace
    <2>2. /\ u = Append(typed, "bs") /\ Completed(u) /\ FlagInv /\ ~esc
          /\ orderly' => Awaits(S, L)
      BY <1>3, <2>1
    <2>3. FlagInv'
      BY <1>7, <1>a, <2>1, <2>2, FlagsFollow DEF Backspace, BeginsEscape
    <2>4. ASSUME orderly' PROVE BufferInv'
      <3>1. Awaits(S, SubSeq(L, 1, Len(L) - 1))'
        BY <1>7, <2>2, <2>4, BackspaceKeeps
      <3>2. Meant(u) = <<S, SubSeq(L, 1, Len(L) - 1)>>
        BY <1>b, <2>1, <2>2
      <3>3. QED BY <1>4, <3>1, <3>2
    <2>5. QED BY <2>3, <2>4
  <1>8. CASE EscapeKey
    <2>1. "~" \in Keys /\ Type("~") /\ BeginsEscape("~")
      BY <1>8, KeyTypes DEF EscapeKey
    <2>2. /\ u = Append(typed, "~") /\ Completed(u) /\ FlagInv
          /\ orderly' => Awaits(S, L)
      BY <1>3, <2>1
    <2>3. KeyGot("~") = <<>>
      BY <2>1 DEF KeyGot
    <2>4. FlagInv'
      BY <1>8, <1>a, <2>1, <2>2, FlagsFollow DEF EscapeKey
    <2>5. ASSUME orderly' PROVE BufferInv'
      <3>1. Awaits(S, L)' /\ Awaits(S, L)
        BY <1>8, <2>2, <2>5, EscapeKeyKeeps
      <3>2. ~(line_mode /\ line_flush)
        BY <2>1, <2>5, <3>1, NothingDue
      <3>3. IF line_mode THEN L \o <<>> = L ELSE S \o <<>> = S
        <4>1. /\ data_buffer \in Seq(AllKeys) /\ line_buffer \in Seq(AllKeys)
              /\ data \in Seq(AllKeys)
          BY <1>1 DEF TypeOK, AllKeys
        <4>2. data_buffer \o data \in Seq(AllKeys) /\ line_buffer \o data \in Seq(AllKeys)
          BY <4>1
        <4>3. line_mode => L = line_buffer \o data
          BY <3>1, <3>2 DEF Awaits
        <4>4. ~line_mode => S = data_buffer \o data
          BY <3>1 DEF Awaits
        <4>5. QED BY <4>2, <4>3, <4>4
      <3>4. Meant(u) = <<S, L>>
        BY <1>b, <2>1, <2>2, <2>3, <3>3
      <3>5. QED BY <1>4, <3>1, <3>4
    <2>6. QED BY <2>4, <2>5
  <1>9. ASSUME NEW c \in Keys, Escaped(c)
        PROVE  FlagInv' /\ (~stdin_eof' /\ orderly' => BufferInv')
    <2>1. Type(c) /\ ~EditingKey(c) /\ ~BeginsEscape(c) /\ esc
      BY <1>9 DEF Escaped
    <2>2. /\ u = Append(typed, c) /\ Completed(u) /\ FlagInv
          /\ orderly' => Awaits(S, L)
      BY <1>3, <2>1
    <2>3. KeyGot(c) = Unescape(c)
      BY <2>1 DEF KeyGot
    <2>4. ~pre_esc' /\ c # "cr"
      <3>1. typed[Len(typed)] = "~" /\ typed # <<>>
        BY <2>1, <2>2 DEF FlagInv, Escapes
      <3>2. ~pre_esc
        BY <2>2, <3>1 DEF FlagInv, Last
      <3>3. QED BY <1>9, <2>1, <3>2 DEF Escaped, EditingKey
    <2>5. FlagInv'
      BY <1>9, <1>a, <2>1, <2>2, <2>4, FlagsFollow DEF Escaped
    <2>6. ASSUME orderly' PROVE BufferInv'
      <3>1. IF line_mode THEN Awaits(S, L \o Unescape(c))' ELSE Awaits(S \o Unescape(c), L)'
        BY <1>9, <2>2, <2>6, EscapedKeeps
      <3>2. line_mode => c \notin {"bs", "cr", "flush"}
        BY <2>1 DEF EditingKey
      <3>3. Meant(u) = IF line_mode THEN <<S, L \o Unescape(c)>> ELSE <<S \o Unescape(c), L>>
        BY <1>b, <2>2, <2>3, <3>2
      <3>4. QED BY <1>4, <3>1, <3>3
    <2>7. QED BY <2>5, <2>6
  <1>10. ASSUME NEW c \in Keys, OtherKey(c)
         PROVE  FlagInv' /\ (~stdin_eof' /\ orderly' => BufferInv')
    <2>1. Type(c) /\ ~EditingKey(c) /\ ~BeginsEscape(c) /\ ~esc
      BY <1>10 DEF OtherKey
    <2>2. /\ u = Append(typed, c) /\ Completed(u) /\ FlagInv
          /\ orderly' => Awaits(S, L)
      BY <1>3, <2>1
    <2>3. KeyGot(c) = <<c>>
      BY <2>1 DEF KeyGot
    <2>4. FlagInv'
      BY <1>10, <1>a, <2>1, <2>2, FlagsFollow DEF OtherKey, EditingKey
    <2>5. ASSUME orderly' PROVE BufferInv'
      <3>1. IF line_mode THEN Awaits(S, L \o <<c>>)' ELSE Awaits(S \o <<c>>, L)'
        BY <1>10, <2>2, <2>5, OtherKeeps
      <3>2. line_mode => c \notin {"bs", "cr", "flush"}
        BY <2>1 DEF EditingKey
      <3>3. Meant(u) = IF line_mode THEN <<S, L \o <<c>>>> ELSE <<S \o <<c>>, L>>
        BY <1>b, <2>2, <2>3, <3>2
      <3>4. QED BY <1>4, <3>1, <3>3
    <2>6. QED BY <2>4, <2>5
  <1>11. CASE EndRead
    <2>1. UNCHANGED <<typed, orderly, pre_esc, esc, line_mode, stdin_eof, torn>>
      BY <1>11 DEF EndRead
    <2>2. FlagInv /\ FlagInv'
      BY <1>1, <2>1 DEF KeyInv, FlagInv
    <2>3. ASSUME ~stdin_eof', orderly' PROVE BufferInv'
      <3>1. Awaits(S, L)
        BY <1>1, <1>2, <2>1, <2>3 DEF KeyInv, BufferInv
      <3>2. Awaits(S, L)'
        BY <1>1, <1>11, <3>1, EndReadKeeps
      <3>3. QED BY <1>2, <2>1, <3>2 DEF BufferInv
    <2>4. QED BY <2>2, <2>3
  <1>12. CASE EndOfInput
    BY <1>1, <1>12 DEF EndOfInput, is_stdin_pipe, KeyInv, FlagInv
  <1>13. CASE UNCHANGED vars
    BY <1>1, <1>13 DEF vars, KeyInv, FlagInv, BufferInv, Awaits
  <1>14. QED
    BY <1>1, <1>5, <1>6, <1>7, <1>8, <1>9, <1>10, <1>11, <1>12, <1>13 DEF Next, RawKey

\* Whatever is typed on a terminal, the session gets in order what the keys' places
\* mean, but for the two exceptions that KeysKept names, and "~." alone tears the link
\* down: for any number of keys, split into any reads (initiator.py:291-368).
THEOREM KeysKeptHolds == Spec => []KeysKept
  <1>1. TypeOK /\ KeyInv => KeysKept
    <2> SUFFICES ASSUME TypeOK, KeyInv, use_tty, batch = <<>>, ~stdin_eof, orderly,
                        Completed(typed)
                 PROVE  /\ <<data_buffer, line_buffer>> = Meant(typed)
                        /\ torn = \E i \in 2..Len(typed) : Sequence(typed, i) /\ typed[i] = "."
      BY DEF KeysKept
    <2>1. PICK S, L : S = Meant(typed)[1] /\ L = Meant(typed)[2]
      OBVIOUS
    <2>2. Awaits(S, L) /\ FlagInv
      BY <2>1 DEF KeyInv, BufferInv
    <2>3. Meant(typed) = <<S, L>>
      BY <2>1, MeantIsPair DEF TypeOK
    <2>4. data = <<>> /\ data_buffer \o <<>> = data_buffer /\ line_buffer \o <<>> = line_buffer
      BY <2>2 DEF Awaits, TypeOK
    <2>5. data_buffer = S /\ line_buffer = L
      BY <2>2, <2>4 DEF Awaits, TypeOK
    <2>6. torn = \E i \in 2..Len(typed) : Sequence(typed, i) /\ typed[i] = "."
      BY <2>2 DEF FlagInv, TypeOK
    <2>7. QED BY <2>3, <2>5, <2>6
  <1>2. FilterInv => TypeOK
    BY DEF FilterInv
  <1>3. Spec => [](FilterInv /\ KeyInv)
    BY InitInv, NextInv, InitKey, NextKey, PTL DEF Spec
  <1>4. QED BY <1>1, <1>2, <1>3, PTL
=============================================================================
