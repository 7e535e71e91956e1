-------------------------- MODULE TextSearchProofs --------------------------
(***************************************************************************)
(* Theorems about TextSearch for every text and every string, with their   *)
(* proofs: the types, the positions of the matches, and that taking the    *)
(* first character that fits loses no occurrence.                          *)
(***************************************************************************)
EXTENDS TextSearch, FiniteSetTheorems, TLAPS

\* findMatch runs from a character that fits, and nothing the scan has left
\* behind equals EOF.
ScanInv ==
  /\ \A q \in 1 .. pos - 1 : text[q] # EOF
  /\ mode = "match" => /\ CharAt(pos) = string[1] /\ string[1] # EOF
                       /\ i < Len(string)
  /\ mode = "done" => CharAt(pos) = EOF

TypeInv == TypeOK /\ ScanInv

\* A text and a string have lengths, and the string is not empty.
LEMMA Lengths ==
  ASSUME TypeOK
  PROVE  Len(text) \in Nat /\ Len(string) \in Nat \ {0}
BY CharacterAssumption DEF TypeOK

\* A step beyond currentChar.
LEMMA AdvanceType ==
  ASSUME TypeInv, CharAt(pos) # EOF,
         pos' = pos + 1, mode' = "search", UNCHANGED <<text, string>>
  PROVE  ScanInv' /\ pos' \in 1 .. Len(text) + 1
<1>1. pos <= Len(text) /\ text[pos] # EOF
  BY Lengths DEF TypeInv, TypeOK, CharAt
<1>2. pos' \in 1 .. Len(text) + 1
  BY <1>1, Lengths DEF TypeInv, TypeOK
<1>3. \A q \in 1 .. pos' - 1 : text[q] # EOF
  BY <1>1, Lengths DEF TypeInv, TypeOK, ScanInv
<1> QED
  BY <1>2, <1>3 DEF ScanInv

\* The list of matches with one more is a list of matches.
LEMMA RecordType ==
  ASSUME TypeInv PROVE Record \in Seq(Hit)
BY DEF TypeInv, TypeOK, Record, Hit

\* The types hold at first.
LEMMA TypeInit == Init => TypeInv
<1> SUFFICES ASSUME Init PROVE TypeInv
  OBVIOUS
<1>1. Len(text) \in Nat /\ Len(string) \in Nat \ {0}
  BY CharacterAssumption DEF Init
<1> QED
  BY <1>1 DEF Init, TypeInv, TypeOK, ScanInv

\* Every step keeps the types.
LEMMA TypeStep == TypeInv /\ [Next]_vars => TypeInv'
<1> SUFFICES ASSUME TypeInv, [Next]_vars PROVE TypeInv'
  OBVIOUS
<1>0. Len(text) \in Nat /\ Len(string) \in Nat \ {0}
  BY Lengths DEF TypeInv
<1>1. CASE Open
  BY <1>1 DEF Open, TypeInv, TypeOK, ScanInv
<1>2. CASE Finish
  BY <1>2 DEF Finish, TypeInv, TypeOK, ScanInv, CharAt
<1>3. CASE MatchSingle
  <2>1. CharAt(pos) # EOF /\ Advance /\ hits' = Record /\ UNCHANGED <<next, i>>
    BY <1>3 DEF MatchSingle
  <2>2. ScanInv' /\ pos' \in 1 .. Len(text) + 1
    BY <2>1, AdvanceType DEF Advance
  <2> QED
    BY <2>1, <2>2, RecordType DEF Advance, TypeInv, TypeOK
<1>4. CASE BeginMatch
  BY <1>4, <1>0 DEF BeginMatch, TypeInv, TypeOK, ScanInv, CharAt
<1>5. CASE ReadNewline
  <2>1. CharAt(pos) # EOF
    BY <1>5, CharacterAssumption DEF ReadNewline
  <2>2. mode' = "search"
    BY <1>5 DEF ReadNewline
  <2> QED
    BY <1>5, <2>1, <2>2, AdvanceType DEF ReadNewline, TypeInv, TypeOK
<1>6. CASE ReadOther
  BY <1>6, AdvanceType DEF ReadOther, Advance, TypeInv, TypeOK
<1>7. CASE MatchNext
  BY <1>7, <1>0 DEF MatchNext, TypeInv, TypeOK, ScanInv, CharAt
<1>8. CASE MatchLast
  <2>1. CharAt(pos) # EOF
    BY <1>8 DEF MatchLast, TypeInv, ScanInv
  <2> QED
    BY <1>8, <2>1, AdvanceType, RecordType DEF MatchLast, Advance, TypeInv, TypeOK
<1>9. CASE MatchSkip
  BY <1>9, <1>0 DEF MatchSkip, TypeInv, TypeOK, ScanInv, CharAt
<1>10. CASE MatchFail
  <2>1. CharAt(pos) # EOF
    BY <1>10 DEF MatchFail, TypeInv, ScanInv
  <2> QED
    BY <1>10, <2>1, AdvanceType DEF MatchFail, Advance, TypeInv, TypeOK
<1>11. CASE UNCHANGED vars
  BY <1>11 DEF vars, TypeInv, TypeOK, ScanInv, CharAt
<1> QED
  BY <1>1, <1>2, <1>3, <1>4, <1>5, <1>6, <1>7, <1>8, <1>9, <1>10, <1>11 DEF Next

\* The types hold in every reachable state.
LEMMA TypeInvariant == Spec => []TypeInv
BY TypeInit, TypeStep, PTL DEF Spec

-----------------------------------------------------------------------------
(***************************************************************************)
(* Rows and columns.                                                       *)
(***************************************************************************)

\* Row r and column c are those of position p.
Place(p, r, c) ==
  /\ r = Cardinality(NewlinesBefore(p)) + 1
  /\ p - c \in NewlinesBefore(p) \cup {0}
  /\ \A q \in NewlinesBefore(p) : q <= p - c

PlaceInv ==
  string[1] # Newline =>
    /\ Place(pos, row, col)
    /\ \A k \in DOMAIN hits : Place(hits[k].at, hits[k].row, hits[k].col)

\* A newline adds one to the newlines before, any other character none.
LEMMA NewlinesStep ==
  ASSUME NEW p \in Nat \ {0}
  PROVE  /\ IsFiniteSet(NewlinesBefore(p))
         /\ text[p] = Newline => NewlinesBefore(p + 1) = NewlinesBefore(p) \cup {p}
         /\ text[p] # Newline => NewlinesBefore(p + 1) = NewlinesBefore(p)
         /\ p \notin NewlinesBefore(p)
<1>1. NewlinesBefore(p) \subseteq 1 .. p - 1 /\ IsFiniteSet(1 .. p - 1)
  BY FS_Interval DEF NewlinesBefore
<1>2. IsFiniteSet(NewlinesBefore(p))
  BY <1>1, FS_Subset
<1> QED
  BY <1>2 DEF NewlinesBefore

\* A character that is no newline moves the place by one column.
LEMMA PlaceAdvances ==
  ASSUME TypeInv, Place(pos, row, col), text[pos] # Newline
  PROVE  Place(pos + 1, row, col + 1)
<1>1. NewlinesBefore(pos + 1) = NewlinesBefore(pos)
  BY NewlinesStep DEF TypeInv, TypeOK
<1>2. (pos + 1) - (col + 1) = pos - col
  BY DEF TypeInv, TypeOK
<1> QED
  BY <1>1, <1>2 DEF Place

\* A newline begins the next row.
LEMMA PlaceNextRow ==
  ASSUME TypeInv, Place(pos, row, col), text[pos] = Newline
  PROVE  Place(pos + 1, row + 1, 1)
<1> DEFINE N == NewlinesBefore(pos)
<1>1. /\ pos \in Nat \ {0} /\ row \in Nat
      /\ row = Cardinality(N) + 1
  BY DEF TypeInv, TypeOK, Place
<1>2. NewlinesBefore(pos + 1) = N \cup {pos} /\ pos \notin N /\ IsFiniteSet(N)
  BY <1>1, NewlinesStep
<1>3. Cardinality(N \cup {pos}) = Cardinality(N) + 1
  BY <1>2, FS_AddElement
<1>4. Cardinality(N) \in Nat
  BY <1>2, FS_CardinalityType
<1>5. \A q \in N : q <= pos
  BY <1>1 DEF NewlinesBefore
<1>6. (pos + 1) - 1 = pos
  BY <1>1
<1>7. row + 1 = Cardinality(N \cup {pos}) + 1
  BY <1>1, <1>3, <1>4
<1>8. \A q \in N \cup {pos} : q <= pos
  BY <1>1, <1>5
<1> HIDE DEF N
<1> QED
  BY <1>2, <1>6, <1>7, <1>8 DEF Place

\* The scan begins in the first row and column.
LEMMA PlaceInit == Init => PlaceInv
<1> SUFFICES ASSUME Init PROVE PlaceInv
  OBVIOUS
<1>1. NewlinesBefore(1) = {}
  BY DEF NewlinesBefore
<1>2. Place(1, 1, 1)
  BY <1>1, FS_EmptySet DEF Place
<1> QED
  BY <1>2 DEF Init, PlaceInv

\* Steps that move no place.
LEMMA PlaceKept ==
  ASSUME PlaceInv, UNCHANGED <<text, string, pos, row, col, hits>>
  PROVE  PlaceInv'
<1>1. \A p : NewlinesBefore(p)' = NewlinesBefore(p)
  BY DEF NewlinesBefore
<1> QED
  BY <1>1 DEF PlaceInv, Place

\* Steps that go on behind currentChar, with or without a match.
LEMMA PlaceMoves ==
  ASSUME TypeInv, PlaceInv, hits' \in {hits, Record}, UNCHANGED <<text, string>>,
         string[1] # Newline => Place(pos', row', col')
  PROVE  PlaceInv'
<1> SUFFICES ASSUME string[1] # Newline
             PROVE  PlaceInv'
  BY DEF PlaceInv
<1>1. \A p : NewlinesBefore(p)' = NewlinesBefore(p)
  BY DEF NewlinesBefore
<1>2. /\ Place(pos, row, col)
      /\ \A k \in DOMAIN hits : Place(hits[k].at, hits[k].row, hits[k].col)
  BY DEF PlaceInv
<1>3. ASSUME NEW k \in DOMAIN hits'
      PROVE  Place(hits'[k].at, hits'[k].row, hits'[k].col)
  <2>1. CASE hits' = hits
    BY <1>2, <2>1
  <2>2. CASE hits' = Record
    <3> DEFINE h == [at |-> pos, row |-> row, col |-> col]
    <3>1. h \in Hit /\ hits \in Seq(Hit) /\ hits' = Append(hits, h)
      BY <2>2 DEF Record, Hit, TypeInv, TypeOK
    <3>2. CASE k \in DOMAIN hits
      <4>1. hits'[k] = hits[k]
        BY <3>1, <3>2
      <4> QED
        BY <1>2, <3>2, <4>1
    <3>3. CASE k \notin DOMAIN hits
      <4>1. hits'[k] = h
        BY <3>1, <3>3
      <4> QED
        BY <1>2, <4>1
    <3> QED
      BY <3>2, <3>3
  <2> QED
    BY <2>1, <2>2
<1>4. Place(pos', row', col')
  OBVIOUS
<1> QED
  BY <1>1, <1>3, <1>4 DEF PlaceInv, Place

\* Every step moves row and column along with the position.
LEMMA PlaceStep == TypeInv /\ PlaceInv /\ [Next]_vars => PlaceInv'
<1> SUFFICES ASSUME TypeInv, PlaceInv, [Next]_vars PROVE PlaceInv'
  OBVIOUS
<1>0. pos \in Nat \ {0} /\ \A p \in 1 .. Len(text) : CharAt(p) = text[p]
  BY DEF TypeInv, TypeOK, CharAt
<1>1. ASSUME Advance, hits' \in {hits, Record}, CharAt(pos) # EOF,
             CharAt(pos) = string[1] \/ CharAt(pos) # Newline
      PROVE  PlaceInv'
  <2>1. pos \in 1 .. Len(text)
    BY <1>1 DEF CharAt
  <2>2. string[1] # Newline => Place(pos', row', col')
    BY <1>0, <1>1, <2>1, PlaceAdvances DEF Advance, PlaceInv
  <2> QED
    BY <1>1, <2>2, PlaceMoves DEF Advance
<1>2. CASE UNCHANGED <<text, string, pos, row, col, hits>>
  BY <1>2, PlaceKept
<1>3. CASE MatchSingle
  BY <1>1, <1>3 DEF MatchSingle
<1>4. CASE ReadNewline
  <2>1. pos \in 1 .. Len(text) /\ text[pos] = Newline
    BY <1>4, CharacterAssumption DEF ReadNewline, CharAt
  <2>2. string[1] # Newline => Place(pos', row', col')
    BY <1>4, <2>1, PlaceNextRow DEF ReadNewline, PlaceInv
  <2> QED
    BY <1>4, <2>2, PlaceMoves DEF ReadNewline
<1>5. CASE ReadOther
  BY <1>1, <1>5 DEF ReadOther
<1>6. CASE MatchLast
  BY <1>1, <1>6 DEF MatchLast, TypeInv, ScanInv
<1>7. CASE MatchFail
  BY <1>1, <1>7 DEF MatchFail, TypeInv, ScanInv
<1> QED
  BY <1>2, <1>3, <1>4, <1>5, <1>6, <1>7
  DEF Next, Open, Finish, BeginMatch, MatchNext, MatchSkip, vars

-----------------------------------------------------------------------------
(***************************************************************************)
(* The matches.                                                            *)
(***************************************************************************)

NoEOF == \A k \in 1 .. Len(string) : string[k] # EOF

\* e[k] is where the k-th of the first n characters of the string is.
Embeds(e, n) ==
  /\ \A k \in 1 .. n : text[e[k]] = string[k]
  /\ \A k \in 1 .. n - 1 :
       /\ e[k] < e[k + 1]
       /\ \A q \in e[k] + 1 .. e[k + 1] - 1 : text[q] \in White

\* The occurrences at p.
Occurrences(p) ==
  {e \in [1 .. Len(string) -> Seen] : e[1] = p /\ Embeds(e, Len(string))}

\* Every match found so far is an occurrence, none that the scan has passed is
\* missing, and they are in order.
HitInv ==
  NoEOF =>
    /\ HitPositions = {p \in Seen : p < pos /\ Occurs(p)}
    /\ \A j, k \in DOMAIN hits : j < k => hits[j].at < hits[k].at

\* Where findMatch found the first n characters, when it reads position m next.
Found(g, n, m) ==
  /\ g[1] = pos /\ Embeds(g, n)
  /\ \A q \in g[n] + 1 .. m - 1 : text[q] \in White

\* findMatch has found the first i characters, with nothing but white space
\* between them and behind.
FoundInv ==
  mode = "match" =>
    /\ next \in 1 .. Len(text) + 1
    /\ \A q \in 1 .. next - 1 : text[q] # EOF
    /\ \E g \in [1 .. i -> 1 .. next - 1] : Found(g, i, next)

\* What findMatch has read of an occurrence e is its first j characters; if
\* these are less than findMatch has found, the others are white space.
Lags(e, j) ==
  /\ e[j] < next /\ next <= e[j + 1]
  /\ \A k \in j + 1 .. i : string[k] \in White

LagInv ==
  mode = "match" => \A e \in Occurrences(pos) : \E j \in 1 .. i : Lags(e, j)

\* A string occurs where it has an occurrence.
LEMMA OccursDef == \A p : Occurs(p) <=> Occurrences(p) # {}
BY DEF Occurs, Occurrences, Embeds

MatchInv == NoEOF => FoundInv /\ LagInv

\* A match with position p behind the matches s.
LEMMA AppendHit ==
  ASSUME NEW s \in Seq(Hit), NEW h \in Hit, NEW t, t = Append(s, h)
  PROVE  /\ {t[k].at : k \in DOMAIN t} = {s[k].at : k \in DOMAIN s} \cup {h.at}
         /\ (\A k \in DOMAIN s : s[k].at < h.at)
              /\ (\A j, k \in DOMAIN s : j < k => s[j].at < s[k].at)
            => \A j, k \in DOMAIN t : j < k => t[j].at < t[k].at
<1> DEFINE n == Len(s)
<1>1. /\ n \in Nat /\ DOMAIN s = 1 .. n /\ DOMAIN t = 1 .. n + 1
      /\ t[n + 1] = h
      /\ \A k \in 1 .. n : t[k] = s[k]
  OBVIOUS
<1> HIDE DEF n
<1>2. ASSUME NEW k \in DOMAIN t PROVE k = n + 1 \/ k \in DOMAIN s
  BY <1>1
<1>3. n + 1 \in DOMAIN t /\ DOMAIN s \subseteq DOMAIN t
  BY <1>1
<1>4. {t[k].at : k \in DOMAIN t} = {s[k].at : k \in DOMAIN s} \cup {h.at}
  <2>1. ASSUME NEW k \in DOMAIN t
        PROVE  t[k].at \in {s[l].at : l \in DOMAIN s} \cup {h.at}
    BY <1>1, <1>2
  <2>2. ASSUME NEW k \in DOMAIN s PROVE s[k].at \in {t[l].at : l \in DOMAIN t}
    BY <1>1, <1>3
  <2>3. h.at \in {t[l].at : l \in DOMAIN t}
    BY <1>1, <1>3
  <2> QED
    BY <2>1, <2>2, <2>3
<1>5. ASSUME \A k \in DOMAIN s : s[k].at < h.at,
             \A j, k \in DOMAIN s : j < k => s[j].at < s[k].at,
             NEW j \in DOMAIN t, NEW k \in DOMAIN t, j < k
      PROVE  t[j].at < t[k].at
  <2>1. j \in DOMAIN s /\ t[j] = s[j]
    BY <1>1, <1>5
  <2>2. CASE k = n + 1
    BY <1>1, <1>5, <2>1, <2>2
  <2>3. CASE k # n + 1
    BY <1>1, <1>2, <1>5, <2>1, <2>3
  <2> QED
    BY <2>2, <2>3
<1> QED
  BY <1>4, <1>5

\* The search goes on behind currentChar and has recorded it if it was a match.
LEMMA HitMoves ==
  ASSUME TypeInv, HitInv, NoEOF, pos' = pos + 1, UNCHANGED <<text, string>>,
         CharAt(pos) # EOF,
         \/ Occurs(pos) /\ hits' = Record
         \/ ~Occurs(pos) /\ hits' = hits
  PROVE  HitInv'
<1>1. pos \in 1 .. Len(text) /\ pos \in Seen
  BY Lengths DEF CharAt, Seen, TypeInv, TypeOK, ScanInv
<1>2. Seen' = Seen /\ \A p : Occurs(p)' = Occurs(p)
  BY DEF Seen, Occurs, White
<1>3. /\ HitPositions = {p \in Seen : p < pos /\ Occurs(p)}
      /\ \A j, k \in DOMAIN hits : j < k => hits[j].at < hits[k].at
  BY DEF HitInv
<1>4. Seen \subseteq Nat
  BY DEF Seen
<1>5. CASE Occurs(pos) /\ hits' = Record
  <2>1. PICK h \in Hit : h.at = pos /\ hits' = Append(hits, h)
    BY <1>5 DEF Record, Hit, TypeInv, TypeOK
  <2>2. hits \in Seq(Hit)
    BY DEF TypeInv, TypeOK
  <2>3. \A k \in DOMAIN hits : hits[k].at < h.at
    BY <1>3, <2>1 DEF HitPositions
  <2>4. /\ HitPositions' = HitPositions \cup {pos}
        /\ \A j, k \in DOMAIN hits' : j < k => hits'[j].at < hits'[k].at
    <3>1. /\ {hits'[k].at : k \in DOMAIN hits'} = {hits[k].at : k \in DOMAIN hits} \cup {h.at}
          /\ \A j, k \in DOMAIN hits' : j < k => hits'[j].at < hits'[k].at
      BY <1>3, <2>1, <2>2, <2>3, AppendHit
    <3> QED
      BY <2>1, <3>1 DEF HitPositions
  <2>5. \A p \in Seen : p < pos + 1 <=> p < pos \/ p = pos
    BY <1>1, <1>4
  <2>6. HitPositions' = {p \in Seen : p < pos + 1 /\ Occurs(p)}
    BY <1>1, <1>3, <1>5, <2>4, <2>5
  <2> QED
    BY <1>2, <2>4, <2>6 DEF HitInv
<1>6. CASE ~Occurs(pos) /\ hits' = hits
  <2>0. \A p \in Seen : p < pos + 1 <=> p < pos \/ p = pos
    BY <1>1, <1>4
  <2>1. HitPositions = {p \in Seen : p < pos + 1 /\ Occurs(p)}
    BY <1>3, <1>6, <2>0
  <2> QED
    BY <1>2, <1>3, <1>6, <2>1 DEF HitInv, HitPositions
<1> QED
  BY <1>5, <1>6

\* Steps that find nothing and do not move.
LEMMA HitKept ==
  ASSUME HitInv, UNCHANGED <<text, string, pos, hits>>
  PROVE  HitInv'
<1>1. Seen' = Seen /\ \A p : Occurs(p)' = Occurs(p)
  BY DEF Seen, Occurs, White
<1> QED
  BY <1>1 DEF HitInv, HitPositions, NoEOF

\* Where the first character does not fit there is no occurrence.
LEMMA OccursFits ==
  ASSUME TypeInv, CharAt(pos) # string[1]
  PROVE  ~Occurs(pos)
<1> SUFFICES ASSUME Occurs(pos) PROVE FALSE
  OBVIOUS
<1>1. PICK e \in Occurrences(pos) : TRUE
  BY OccursDef
<1>2. 1 \in 1 .. Len(string)
  BY Lengths DEF TypeInv
<1>3. pos \in Seen /\ text[pos] = string[1]
  BY <1>1, <1>2 DEF Occurrences, Embeds
<1> QED
  BY <1>3 DEF Seen, CharAt

\* The character that fits next extends what findMatch has found.
LEMMA FoundMore ==
  ASSUME TypeInv, NoEOF, FoundInv, mode = "match", CharAt(next) = string[i + 1]
  PROVE  /\ next \in 1 .. Len(text)
         /\ \A q \in 1 .. next : text[q] # EOF
         /\ \E g \in [1 .. i + 1 -> 1 .. next] :
              g[1] = pos /\ g[i + 1] = next /\ Embeds(g, i + 1)
<1>0. /\ Len(text) \in Nat /\ Len(string) \in Nat /\ i \in 1 .. Len(string) - 1
      /\ next \in 1 .. Len(text) + 1
  BY Lengths DEF TypeInv, TypeOK, ScanInv, FoundInv
<1>1. string[i + 1] # EOF
  BY <1>0 DEF NoEOF
<1>2. next \in 1 .. Len(text) /\ text[next] = string[i + 1]
  BY <1>1 DEF CharAt
<1>3. \A q \in 1 .. next : text[q] # EOF
  BY <1>0, <1>1, <1>2 DEF FoundInv
<1>4. PICK f \in [1 .. i -> 1 .. next - 1] :
        /\ f[1] = pos /\ Embeds(f, i)
        /\ \A q \in f[i] + 1 .. next - 1 : text[q] \in White
  BY DEF FoundInv, Found
<1> DEFINE g == [k \in 1 .. i + 1 |-> IF k = i + 1 THEN next ELSE f[k]]
<1>5. g \in [1 .. i + 1 -> 1 .. next]
  BY <1>0, <1>4
<1>6. g[i + 1] = next /\ \A k \in 1 .. i : g[k] = f[k]
  BY <1>0
<1> HIDE DEF g
<1>7. ASSUME NEW k \in 1 .. i + 1 PROVE text[g[k]] = string[k]
  <2>1. CASE k = i + 1
    BY <1>2, <1>6, <2>1
  <2>2. CASE k # i + 1
    <3>1. k \in 1 .. i
      BY <1>0, <2>2
    <3> QED
      BY <1>4, <1>6, <3>1 DEF Embeds
  <2> QED
    BY <2>1, <2>2
<1>8. ASSUME NEW k \in 1 .. i
      PROVE  g[k] < g[k + 1] /\ \A q \in g[k] + 1 .. g[k + 1] - 1 : text[q] \in White
  <2>1. CASE k = i
    BY <1>0, <1>4, <1>6, <2>1
  <2>2. CASE k # i
    BY <1>0, <1>4, <1>6, <2>2 DEF Embeds
  <2> QED
    BY <2>1, <2>2
<1>9. Embeds(g, i + 1)
  BY <1>0, <1>7, <1>8 DEF Embeds
<1> QED
  BY <1>0, <1>2, <1>3, <1>4, <1>5, <1>6, <1>9

\* What an occurrence has at the place findMatch reads.
LEMMA LagReads ==
  ASSUME TypeInv, mode = "match", NEW e \in Occurrences(pos), NEW j \in 1 .. i, Lags(e, j)
  PROVE  /\ i \in Nat /\ i < Len(string) /\ Len(string) \in Nat /\ next \in Nat
         /\ \A k \in 1 .. Len(string) : e[k] \in Nat
         /\ CharAt(next) # EOF
         /\ e[j + 1] = next => CharAt(next) = string[j + 1]
         /\ e[j + 1] # next => CharAt(next) \in White
<1>1. /\ Len(text) \in Nat /\ Len(string) \in Nat /\ i \in 1 .. Len(string) - 1
      /\ next \in Nat /\ j \in 1 .. Len(string) - 1
  BY Lengths DEF TypeInv, TypeOK, ScanInv
<1>2. /\ e \in [1 .. Len(string) -> Seen] /\ Embeds(e, Len(string))
  BY DEF Occurrences
<1>3. e[j] \in Seen /\ e[j + 1] \in Seen
  BY <1>1, <1>2
<1>4. next \in 1 .. e[j + 1] /\ e[j] < next
  BY <1>1, <1>3 DEF Lags, Seen
<1>5. next \in 1 .. Len(text) /\ text[next] # EOF
  BY <1>1, <1>3, <1>4 DEF Seen
<1>6. CharAt(next) = text[next]
  BY <1>5 DEF CharAt
<1>7. text[e[j + 1]] = string[j + 1]
  BY <1>1, <1>2 DEF Embeds
<1>8. e[j + 1] # next => text[next] \in White
  <2>1. \A q \in e[j] + 1 .. e[j + 1] - 1 : text[q] \in White
    BY <1>1, <1>2 DEF Embeds
  <2>2. e[j] \in Nat /\ e[j + 1] \in Nat
    BY <1>3 DEF Seen
  <2> QED
    BY <1>1, <1>4, <2>1, <2>2
<1>9. \A k \in 1 .. Len(string) : e[k] \in Nat
  BY <1>2 DEF Seen
<1> QED
  BY <1>1, <1>5, <1>6, <1>7, <1>8, <1>9

\* Where findMatch gives up, no occurrence goes on either.
LEMMA GivesUp ==
  ASSUME TypeInv, LagInv, MatchFail
  PROVE  ~Occurs(pos)
<1> SUFFICES ASSUME NEW e \in Occurrences(pos) PROVE FALSE
  BY OccursDef
<1>1. mode = "match" /\ CharAt(next) \notin White \cup {string[i + 1]}
  BY DEF MatchFail
<1>2. PICK j \in 1 .. i : Lags(e, j)
  BY <1>1 DEF LagInv
<1>3. i \in Nat /\ CharAt(next) = string[j + 1]
  BY <1>1, <1>2, LagReads
<1>4. CASE j = i
  BY <1>1, <1>3, <1>4
<1>5. CASE j # i
  <2>1. j + 1 \in j + 1 .. i
    BY <1>2, <1>3, <1>5
  <2> QED
    BY <1>1, <1>2, <1>3, <2>1 DEF Lags
<1> QED
  BY <1>4, <1>5

\* findMatch reads the next character: what fits, or white space.
LEMMA LagMoves ==
  ASSUME TypeInv, NoEOF, LagInv, mode = "match", next' = next + 1,
         UNCHANGED <<text, string, pos>>,
         \/ CharAt(next) = string[i + 1] /\ i' = i + 1 /\ i + 1 < Len(string)
         \/ CharAt(next) \in White \ {string[i + 1]} /\ i' = i
  PROVE  LagInv'
<1>0. Occurrences(pos)' = Occurrences(pos)
  BY DEF Occurrences, Embeds, Seen, White
<1> SUFFICES ASSUME NEW e \in Occurrences(pos)
             PROVE  \E j \in 1 .. i' : Lags(e, j)'
  BY <1>0 DEF LagInv
<1>1. PICK j \in 1 .. i : Lags(e, j)
  BY DEF LagInv
<1>2. /\ i \in Nat /\ i < Len(string) /\ Len(string) \in Nat /\ next \in Nat
      /\ \A k \in 1 .. Len(string) : e[k] \in Nat
      /\ e[j + 1] = next => CharAt(next) = string[j + 1]
      /\ e[j + 1] # next => CharAt(next) \in White
  BY <1>1, LagReads
<1>3. e[j] < next /\ next <= e[j + 1] /\ \A k \in j + 1 .. i : string[k] \in White
  BY <1>1 DEF Lags
<1>4. \A k \in 1 .. Len(string) - 1 : e[k] < e[k + 1]
  BY DEF Occurrences, Embeds
<1>5. White' = White
  BY DEF White
<1>6. CASE e[j + 1] = next
  <2>1. j + 1 \in 1 .. i'
    <3>1. CASE i' = i + 1
      BY <1>1, <1>2, <3>1
    <3>2. CASE i' = i
      BY <1>1, <1>2, <1>6, <3>2
    <3> QED
      BY <3>1, <3>2
  <2>2. j + 1 \in 1 .. Len(string) - 1
    BY <1>1, <1>2, <2>1
  <2>3. e[j + 1] < next + 1 /\ next + 1 <= e[(j + 1) + 1]
    BY <1>2, <1>4, <1>6, <2>2
  <2>4. \A k \in (j + 1) + 1 .. i' : string[k] \in White
    <3>1. CASE i' = i
      BY <1>1, <1>2, <1>3, <3>1
    <3>2. CASE i' # i /\ string[i + 1] \in White
      BY <1>1, <1>2, <1>3, <3>2
    <3>3. CASE i' # i /\ string[i + 1] \notin White
      <4>1. i' = i + 1 /\ string[j + 1] = string[i + 1]
        BY <1>2, <1>6, <3>3
      <4>2. j = i
        BY <1>1, <1>2, <1>3, <3>3, <4>1
      <4> QED
        BY <1>2, <4>1, <4>2
    <3> QED
      BY <3>1, <3>2, <3>3
  <2> QED
    BY <1>5, <2>1, <2>3, <2>4 DEF Lags
<1>7. CASE e[j + 1] # next
  <2>1. CharAt(next) \in White
    BY <1>2, <1>7
  <2>2. j \in 1 .. i' /\ j + 1 \in 1 .. Len(string)
    BY <1>1, <1>2
  <2>3. e[j] < next + 1 /\ next + 1 <= e[j + 1]
    BY <1>1, <1>2, <1>3, <1>7, <2>2
  <2>4. \A k \in j + 1 .. i' : string[k] \in White
    BY <1>1, <1>2, <1>3, <2>1
  <2> QED
    BY <1>5, <2>2, <2>3, <2>4 DEF Lags
<1> QED
  BY <1>6, <1>7

\* What findMatch has found depends on the text and the string only.
LEMMA FoundKept ==
  ASSUME UNCHANGED <<text, string, pos>>
  PROVE  \A g, n, m : Found(g, n, m)' <=> Found(g, n, m)
BY DEF Found, Embeds, White

\* Every step of findMatch keeps behind any occurrence, or gives up with reason.
LEMMA MatchStep == TypeInv /\ MatchInv /\ [Next]_vars => MatchInv'
<1> SUFFICES ASSUME TypeInv, MatchInv, [Next]_vars, NoEOF, mode' = "match"
             PROVE  FoundInv' /\ LagInv'
  BY DEF MatchInv, NoEOF, FoundInv, LagInv, Next, Open, Finish, MatchSingle, BeginMatch,
         ReadNewline, ReadOther, MatchNext, MatchLast, MatchSkip, MatchFail, Advance, vars
<1>0. /\ Len(text) \in Nat /\ Len(string) \in Nat \ {0} /\ i \in Nat \ {0}
      /\ pos \in 1 .. Len(text) + 1 /\ next \in Nat
  BY Lengths DEF TypeInv, TypeOK
<1>1. CASE BeginMatch
  <2>1. /\ pos \in 1 .. Len(text) /\ text[pos] = string[1] /\ text[pos] # EOF
        /\ 1 < Len(string)
        /\ next' = pos + 1 /\ i' = 1 /\ UNCHANGED <<text, string, pos>>
    BY <1>0, <1>1 DEF BeginMatch, CharAt
  <2>9. \A g, n, m : Found(g, n, m)' <=> Found(g, n, m)
    BY <2>1, FoundKept
  <2>2. FoundInv'
    <3> DEFINE g == [k \in 1 .. 1 |-> pos]
    <3>1. /\ next' \in 1 .. Len(text) + 1
          /\ \A q \in 1 .. next' - 1 : text[q] # EOF
      BY <1>0, <2>1 DEF TypeInv, ScanInv
    <3>2. g \in [1 .. 1 -> 1 .. pos] /\ g[1] = pos
      BY <1>0, <2>1
    <3> HIDE DEF g
    <3>3. /\ text[g[1]] = string[1]
          /\ 1 .. 1 - 1 = {} /\ g[1] + 1 .. (pos + 1) - 1 = {}
          /\ \A k \in 1 .. 1 : k = 1
      BY <1>0, <2>1, <3>2
    <3>4. Embeds(g, 1)
      BY <3>3 DEF Embeds
    <3>5. (pos + 1) - 1 = pos
      BY <1>0
    <3>6. Found(g, 1, pos + 1)
      BY <3>2, <3>3, <3>4 DEF Found
    <3> QED
      BY <2>1, <2>9, <3>1, <3>2, <3>5, <3>6 DEF FoundInv
  <2>3. LagInv'
    <3>1. Occurrences(pos)' = Occurrences(pos)
      BY <2>1 DEF Occurrences, Embeds, Seen, White
    <3>2. ASSUME NEW e \in Occurrences(pos) PROVE Lags(e, 1)'
      <4>1. e[1] = pos /\ e[1] < e[1 + 1] /\ e[1 + 1] \in Nat
        BY <1>0, <2>1 DEF Occurrences, Embeds, Seen
      <4>2. 1 + 1 .. 1 = {}
        OBVIOUS
      <4> QED
        BY <1>0, <2>1, <4>1, <4>2 DEF Lags
    <3>3. 1 \in 1 .. i'
      BY <2>1
    <3> QED
      BY <3>1, <3>2, <3>3 DEF LagInv
  <2> QED
    BY <2>2, <2>3
<1>2. CASE MatchNext
  <2>1. /\ mode = "match" /\ CharAt(next) = string[i + 1] /\ i + 1 < Len(string)
        /\ i' = i + 1 /\ next' = next + 1 /\ UNCHANGED <<text, string, pos>>
        /\ FoundInv /\ LagInv
    BY <1>2 DEF MatchNext, MatchInv
  <2>2. LagInv'
    BY <2>1, LagMoves
  <2>3. /\ next \in 1 .. Len(text) /\ \A q \in 1 .. next : text[q] # EOF
        /\ \E g \in [1 .. i + 1 -> 1 .. next] :
             g[1] = pos /\ g[i + 1] = next /\ Embeds(g, i + 1)
    BY <2>1, FoundMore
  <2>4. PICK g \in [1 .. i + 1 -> 1 .. next] :
          g[1] = pos /\ g[i + 1] = next /\ Embeds(g, i + 1)
    BY <2>3
  <2>5. \A f, n, m : Found(f, n, m)' <=> Found(f, n, m)
    BY <2>1, FoundKept
  <2>6. next' - 1 = next /\ next' \in 1 .. Len(text) + 1 /\ g[i + 1] + 1 .. next' - 1 = {}
    BY <1>0, <2>1, <2>3, <2>4
  <2>7. Found(g, i + 1, next')
    BY <2>4, <2>6 DEF Found
  <2>8. FoundInv'
    BY <2>1, <2>3, <2>4, <2>5, <2>6, <2>7 DEF FoundInv
  <2> QED
    BY <2>2, <2>8
<1>3. CASE MatchSkip
  <2>1. /\ mode = "match" /\ CharAt(next) \in White \ {string[i + 1]}
        /\ i' = i /\ next' = next + 1 /\ UNCHANGED <<text, string, pos>>
        /\ FoundInv /\ LagInv
    BY <1>3 DEF MatchSkip, MatchInv
  <2>2. LagInv'
    BY <2>1, LagMoves
  <2>3. next \in 1 .. Len(text) /\ text[next] \in White /\ text[next] # EOF
    BY <2>1, CharacterAssumption DEF CharAt, White
  <2>4. PICK g \in [1 .. i -> 1 .. next - 1] :
          Found(g, i, next)
    BY <2>1 DEF FoundInv
  <2>5. \A f, n, m : Found(f, n, m)' <=> Found(f, n, m)
    BY <2>1, FoundKept
  <2>6. /\ next' \in 1 .. Len(text) + 1 /\ \A q \in 1 .. next' - 1 : text[q] # EOF
    BY <1>0, <2>1, <2>3 DEF FoundInv
  <2>7. g \in [1 .. i -> 1 .. next' - 1] /\ g[i] \in Nat
    BY <1>0, <2>1, <2>4
  <2>8. Found(g, i, next')
    BY <1>0, <2>1, <2>3, <2>4, <2>7 DEF Found
  <2>9. FoundInv'
    BY <2>1, <2>5, <2>6, <2>7, <2>8 DEF FoundInv
  <2> QED
    BY <2>2, <2>9
<1>4. CASE UNCHANGED vars
  <2>1. /\ UNCHANGED <<text, string, mode, pos, next, i>> /\ mode = "match"
        /\ FoundInv /\ LagInv
    BY <1>4 DEF vars, MatchInv
  <2>2. \A g, n, m : Found(g, n, m)' <=> Found(g, n, m)
    BY <2>1, FoundKept
  <2>3. FoundInv'
    BY <2>1, <2>2 DEF FoundInv
  <2>4. Occurrences(pos)' = Occurrences(pos) /\ \A e, j : Lags(e, j)' <=> Lags(e, j)
    BY <2>1 DEF Occurrences, Embeds, Seen, White, Lags
  <2> QED
    BY <2>1, <2>3, <2>4 DEF LagInv
<1> QED
  BY <1>1, <1>2, <1>3, <1>4
  DEF Next, Open, Finish, MatchSingle, ReadNewline, ReadOther, MatchLast, MatchFail, Advance

\* A match is recorded exactly where the string occurs.
LEMMA HitStep == TypeInv /\ MatchInv /\ HitInv /\ [Next]_vars => HitInv'
<1> SUFFICES ASSUME TypeInv, MatchInv, HitInv, [Next]_vars, NoEOF PROVE HitInv'
  BY DEF HitInv, NoEOF, Next, Open, Finish, MatchSingle, BeginMatch,
         ReadNewline, ReadOther, MatchNext, MatchLast, MatchSkip, MatchFail, Advance, vars
<1>0. Len(text) \in Nat /\ Len(string) \in Nat \ {0} /\ pos \in Nat \ {0}
  BY Lengths DEF TypeInv, TypeOK
<1>1. CASE UNCHANGED <<text, string, pos, hits>>
  BY <1>1, HitKept
<1>2. CASE MatchSingle
  <2>1. /\ CharAt(pos) = string[1] /\ CharAt(pos) # EOF /\ Len(string) = 1
        /\ hits' = Record /\ pos' = pos + 1 /\ UNCHANGED <<text, string>>
    BY <1>2 DEF MatchSingle, Advance
  <2>2. pos \in Seen /\ text[pos] = string[1]
    BY <1>0, <2>1 DEF CharAt, Seen, TypeInv, ScanInv
  <2>3. Occurs(pos)
    <3> DEFINE e == [k \in 1 .. Len(string) |-> pos]
    <3>1. e \in [1 .. Len(string) -> Seen] /\ e[1] = pos
      BY <1>0, <2>1, <2>2
    <3> HIDE DEF e
    <3>2. (\A k \in 1 .. 1 : k = 1) /\ 1 .. 1 - 1 = {}
      OBVIOUS
    <3>3. Embeds(e, Len(string))
      BY <2>1, <2>2, <3>1, <3>2 DEF Embeds
    <3> QED
      BY <3>1, <3>3, OccursDef DEF Occurrences
  <2> QED
    BY <2>1, <2>3, HitMoves
<1>3. CASE ReadNewline
  <2>1. CharAt(pos) # string[1] /\ CharAt(pos) # EOF
    BY <1>3, CharacterAssumption DEF ReadNewline
  <2> QED
    BY <1>3, <2>1, OccursFits, HitMoves DEF ReadNewline
<1>4. CASE ReadOther
  BY <1>4, OccursFits, HitMoves DEF ReadOther, Advance
<1>5. CASE MatchLast
  <2>1. /\ mode = "match" /\ CharAt(next) = string[i + 1] /\ i + 1 = Len(string)
        /\ hits' = Record /\ pos' = pos + 1 /\ UNCHANGED <<text, string>>
        /\ FoundInv /\ CharAt(pos) # EOF
    BY <1>5 DEF MatchLast, Advance, MatchInv, TypeInv, ScanInv
  <2>2. /\ next \in 1 .. Len(text) /\ \A q \in 1 .. next : text[q] # EOF
        /\ \E g \in [1 .. i + 1 -> 1 .. next] :
             g[1] = pos /\ g[i + 1] = next /\ Embeds(g, i + 1)
    BY <2>1, FoundMore
  <2>3. 1 .. next \subseteq Seen
    BY <1>0, <2>2 DEF Seen
  <2>4. Occurs(pos)
    BY <2>1, <2>2, <2>3, OccursDef DEF Occurrences
  <2> QED
    BY <2>1, <2>4, HitMoves
<1>6. CASE MatchFail
  BY <1>6, GivesUp, HitMoves DEF MatchFail, Advance, MatchInv, TypeInv, ScanInv
<1> QED
  BY <1>1, <1>2, <1>3, <1>4, <1>5, <1>6
  DEF Next, Open, Finish, BeginMatch, MatchNext, MatchSkip, vars

IInv == TypeInv /\ PlaceInv /\ MatchInv /\ HitInv

\* The inductive invariant of the search.
LEMMA Invariant == Spec => []IInv
<1>1. Init => IInv
  <2> SUFFICES ASSUME Init PROVE MatchInv /\ HitInv
    BY TypeInit, PlaceInit DEF IInv
  <2>1. MatchInv
    BY DEF Init, MatchInv, FoundInv, LagInv
  <2>2. HitPositions = {} /\ DOMAIN hits = {}
    BY DEF Init, HitPositions
  <2>3. \A p \in Seen : ~(p < pos)
    BY DEF Init, Seen
  <2> QED
    BY <2>1, <2>2, <2>3 DEF HitInv
<1>2. IInv /\ [Next]_vars => IInv'
  BY TypeStep, PlaceStep, MatchStep, HitStep DEF IInv
<1> QED
  BY <1>1, <1>2, PTL DEF Spec

-----------------------------------------------------------------------------
(***************************************************************************)
(* Theorems.                                                               *)
(***************************************************************************)

\* searchInFile and findMatch keep their types: the position stays in the
\* text or just behind it.
THEOREM TypeCorrect == Spec => []TypeOK
<1>1. IInv => TypeOK
  BY DEF IInv, TypeInv
<1> QED
  BY <1>1, Invariant, PTL

\* For every text: each match is reported with the row and the column of its
\* first character, whatever findMatch has read behind it.
THEOREM PositionsAreTheirs == Spec => []PositionsExact
<1>1. IInv => PositionsExact
  <2> SUFFICES ASSUME IInv, string[1] # Newline, NEW k \in DOMAIN hits
               PROVE  Place(hits[k].at, hits[k].row, hits[k].col)
    BY DEF PositionsExact, Place
  <2> QED
    BY DEF IInv, PlaceInv
<1> QED
  BY <1>1, Invariant, PTL

\* For every text and every string: findMatch, which takes the first character
\* that fits and never tries another, finds exactly the occurrences, in order.
THEOREM MatchesAreTheOccurrences == Spec => []HitsExact
<1>1. IInv => HitsExact
  <2> SUFFICES ASSUME IInv, mode = "done", NoEOF
               PROVE  /\ HitPositions = {p \in Seen : Occurs(p)}
                      /\ \A j, k \in DOMAIN hits : j < k => hits[j].at < hits[k].at
    BY DEF HitsExact, NoEOF
  <2>1. CharAt(pos) = EOF /\ Len(text) \in Nat /\ pos \in 1 .. Len(text) + 1
    BY Lengths DEF IInv, TypeInv, TypeOK, ScanInv
  <2>2. \A p \in Seen : p < pos
    BY <2>1 DEF CharAt, Seen
  <2> QED
    BY <2>2 DEF IInv, HitInv
<1> QED
  BY <1>1, Invariant, PTL
=============================================================================
