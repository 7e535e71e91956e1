---------------------------- MODULE TextSearch ----------------------------
(***************************************************************************)
(* searchInFile and findMatch, which HW01/hw1.c introduces and the later   *)
(* programs repeat (HW05/main.c lines 343-426 among them): the search of   *)
(* one text for one string.  A match begins where the first character of   *)
(* the string is; the others follow it in order, and white space that is   *)
(* not the character expected next is passed over.  Positions are those of *)
(* the file, from 1; a match is recorded with its row and column.          *)
(***************************************************************************)
EXTENDS Integers, Sequences, FiniteSets

CONSTANTS
  Texts,      \* the contents of the files searched
  Strings,    \* the strings searched for
  Blank,      \* the space and the tabulator
  Newline,    \* the newline character
  EOF         \* (char) EOF, which is also the byte 0xFF of a file

ASSUME CharacterAssumption ==
  /\ Newline \notin Blank
  /\ EOF \notin Blank \cup {Newline}
  /\ \A s \in Texts \cup Strings : Len(s) \in Nat
  /\ \A s \in Strings : Len(s) > 0

VARIABLES
  text,       \* the file
  string,     \* findString
  mode,       \* which function reads, or how the search ended
  pos,        \* in searchInFile, the position of currentChar
  next,       \* in findMatch, the position getc reads next
  i,          \* in findMatch, how many characters of the string were found
  row, col,   \* currentRow and currentColumn
  lines,      \* totalSearchedLine
  hits        \* the matches, in the order they were found

vars == <<text, string, mode, pos, next, i, row, col, lines, hits>>

Hit == [at : Nat, row : Nat, col : Nat]

TypeOK ==
  /\ text \in Texts
  /\ string \in Strings
  /\ mode \in {"open", "search", "match", "done", "failed"}
  /\ pos \in 1 .. Len(text) + 1
  /\ next \in Nat
  /\ i \in 1 .. Len(string)
  /\ row \in Nat \ {0}
  /\ col \in Nat \ {0}
  /\ lines \in Nat
  /\ hits \in Seq(Hit)

\* getc: at the end of the file EOF, again and again.
CharAt(p) == IF p \in 1 .. Len(text) THEN text[p] ELSE EOF

White == Blank \cup {Newline}

Init ==
  /\ text \in Texts
  /\ string \in Strings
  /\ mode = "open"
  /\ pos = 1
  /\ next = 1
  /\ i = 1
  /\ row = 1
  /\ col = 1
  /\ lines = 0
  /\ hits = <<>>

Open ==
  /\ mode = "open"
  /\ mode' \in {"search", "failed"}
  /\ UNCHANGED <<text, string, pos, next, i, row, col, lines, hits>>

\* The loop of searchInFile ends at the first character equal to EOF.
Finish ==
  /\ mode = "search"
  /\ CharAt(pos) = EOF
  /\ mode' = "done"
  /\ UNCHANGED <<text, string, pos, next, i, row, col, lines, hits>>

Record == Append(hits, [at |-> pos, row |-> row, col |-> col])

\* Goes on behind currentChar, which is not taken for a newline.
Advance ==
  /\ mode' = "search"
  /\ pos' = pos + 1
  /\ col' = col + 1
  /\ UNCHANGED <<text, string, row, lines>>

MatchSingle ==
  /\ mode = "search"
  /\ CharAt(pos) = string[1]
  /\ string[1] # EOF
  /\ Len(string) = 1
  /\ hits' = Record
  /\ Advance
  /\ UNCHANGED <<next, i>>

BeginMatch ==
  /\ mode = "search"
  /\ CharAt(pos) = string[1]
  /\ string[1] # EOF
  /\ Len(string) > 1
  /\ mode' = "match"
  /\ next' = pos + 1
  /\ i' = 1
  /\ UNCHANGED <<text, string, pos, row, col, lines, hits>>

\* Fault: the column goes on into the next row.
ReadNewlineKeepCol ==
  /\ mode = "search"
  /\ CharAt(pos) = Newline
  /\ string[1] # Newline
  /\ pos' = pos + 1
  /\ row' = row + 1
  /\ lines' = lines + 1
  /\ UNCHANGED <<text, string, mode, next, i, col, hits>>

\* A newline is counted when it is not the first character of the string.
ReadNewline ==
  /\ mode = "search"
  /\ CharAt(pos) = Newline
  /\ string[1] # Newline
  /\ pos' = pos + 1
  /\ row' = row + 1
  /\ col' = 1
  /\ lines' = lines + 1
  /\ UNCHANGED <<text, string, mode, next, i, hits>>

\* Fault: the loop does not stop at EOF.
ReadOtherPastEnd ==
  /\ mode = "search"
  /\ CharAt(pos) \notin {string[1], Newline}
  /\ Advance
  /\ UNCHANGED <<next, i, hits>>

ReadOther ==
  /\ mode = "search"
  /\ CharAt(pos) \notin {string[1], Newline, EOF}
  /\ Advance
  /\ UNCHANGED <<next, i, hits>>

\* findMatch.  Whatever it returns, searchInFile seeks back to the character
\* behind currentChar.
MatchNext ==
  /\ mode = "match"
  /\ CharAt(next) = string[i + 1]
  /\ i + 1 < Len(string)
  /\ i' = i + 1
  /\ next' = next + 1
  /\ UNCHANGED <<text, string, mode, pos, row, col, lines, hits>>

MatchLast ==
  /\ mode = "match"
  /\ CharAt(next) = string[i + 1]
  /\ i + 1 = Len(string)
  /\ hits' = Record
  /\ Advance
  /\ UNCHANGED <<next, i>>

\* Fault: a passed-over character is put back.
MatchSkipStuck ==
  /\ mode = "match"
  /\ CharAt(next) \in White \ {string[i + 1]}
  /\ UNCHANGED vars

MatchSkip ==
  /\ mode = "match"
  /\ CharAt(next) \in White \ {string[i + 1]}
  /\ next' = next + 1
  /\ UNCHANGED <<text, string, mode, pos, i, row, col, lines, hits>>

\* Fault: no fseek back to the character behind currentChar.
MatchFailNoSeek ==
  /\ mode = "match"
  /\ CharAt(next) \notin White \cup {string[i + 1]}
  /\ mode' = "search"
  /\ pos' = IF next > Len(text) THEN Len(text) + 1 ELSE next + 1
  /\ col' = col + 1
  /\ UNCHANGED <<text, string, next, i, row, lines, hits>>

MatchFail ==
  /\ mode = "match"
  /\ CharAt(next) \notin White \cup {string[i + 1]}
  /\ Advance
  /\ UNCHANGED <<next, i, hits>>

Next ==
  \/ Open \/ Finish
  \/ MatchSingle \/ BeginMatch \/ ReadNewline \/ ReadOther
  \/ MatchNext \/ MatchLast \/ MatchSkip \/ MatchFail

Spec == Init /\ [][Next]_vars

\* One thread, which nothing blocks.
FairSpec == Spec /\ WF_vars(Next)

-----------------------------------------------------------------------------
(***************************************************************************)
(* What the search promises, stated without the scan.                      *)
(***************************************************************************)

\* The part of the file the loop sees: up to the first character that equals
\* EOF.
Seen == {p \in 1 .. Len(text) : \A q \in 1 .. p : text[q] # EOF}

\* The string is in the text from p on with nothing but white space between
\* its characters: e[k] is where its k-th character is.
Occurs(p) ==
  \E e \in [1 .. Len(string) -> Seen] :
    /\ e[1] = p
    /\ \A k \in 1 .. Len(string) : text[e[k]] = string[k]
    /\ \A k \in 1 .. Len(string) - 1 :
         /\ e[k] < e[k + 1]
         /\ \A q \in e[k] + 1 .. e[k + 1] - 1 : text[q] \in White

NewlinesBefore(p) == {q \in 1 .. p - 1 : text[q] = Newline}

HitPositions == {hits[k].at : k \in DOMAIN hits}

\* The matches are the occurrences, each found once and in order: taking the
\* first character that fits loses none.  (A string with the character 0xFF
\* would match at the end of the file.)
HitsExact ==
  mode = "done" /\ (\A k \in 1 .. Len(string) : string[k] # EOF) =>
    /\ HitPositions = {p \in Seen : Occurs(p)}
    /\ \A j, k \in DOMAIN hits : j < k => hits[j].at < hits[k].at

\* The row and the column reported for a match are those of its first
\* character, although findMatch has read over newlines behind it, provided
\* that character is not itself the newline.
PositionsExact ==
  string[1] # Newline =>
    \A k \in DOMAIN hits :
      LET N == NewlinesBefore(hits[k].at)
      IN  /\ hits[k].row = Cardinality(N) + 1
          /\ hits[k].at - hits[k].col \in N \cup {0}
          /\ \A q \in N : q <= hits[k].at - hits[k].col

\* The search ends, whatever the text and the string are.
Ends == <>(mode \in {"done", "failed"})
=============================================================================
