------------------------------ MODULE LogConfig ------------------------------
(***************************************************************************)
(* The configuration file of the logger (src/src/libs/log4z.cpp): the      *)
(* editor that rewrites it, what its text parses to, and the checksum that *)
(* decides whether an update looks at it.  A text is a sequence of lines   *)
(* and a line a key with a value, both numbers in the text's place: a      *)
(* section by its name, a switch as 0 (its "false" or "0") or anything     *)
(* else.                                                                   *)
(***************************************************************************)
EXTENDS Naturals, Sequences, SequencesExt

CONSTANTS
  Main,           \* the section, and name, of the main logger
  Versions,       \* the texts the file is given, each in one rewrite
  Weight(_),      \* the sum of the bytes of a line
  DefaultLimit,   \* LOG4Z_DEFAULT_LIMITSIZE
  MaxEdits        \* bound on the rewrites of the file

ASSUME ConfigAssumption ==
  /\ Main \in Nat /\ DefaultLimit \in Nat /\ MaxEdits \in Nat
  /\ \A v \in Versions : v \in Seq([key : STRING, value : Nat])

VARIABLES
  conf,           \* the lines that are in the file
  unwritten,      \* the lines the editor has still to write
  edits,          \* how often it was rewritten
  checksum        \* _checksum, of the last text that was looked at

confVars == <<conf, unwritten, edits, checksum>>

-----------------------------------------------------------------------------
\* The sum of a text's bytes.
Sum(text) == FoldLeft(LAMBDA sum, line : sum + Weight(line), 0, text)

\* A section starts with the defaults, under its own name.
LoggerInfo(section) ==
  [name |-> section, outfile |-> TRUE, limitsize |-> DefaultLimit, enable |-> TRUE]

\* One line: it opens a section, or sets a key of the section that is open.
\* "reserve" is read like the others, into a field that nobody asks for.
ParseConfigLine(acc, line) ==
  IF line.key = "section"
  THEN [key  |-> line.value,
        info |-> IF line.value \in DOMAIN acc.info THEN acc.info
                 ELSE [s \in DOMAIN acc.info \cup {line.value} |->
                         IF s \in DOMAIN acc.info THEN acc.info[s] ELSE LoggerInfo(s)]]
  ELSE IF acc.key \notin DOMAIN acc.info THEN acc
  ELSE [acc EXCEPT !.info[acc.key] =
          CASE line.key = "name"      -> [@ EXCEPT !.name = line.value]
            [] line.key = "outfile"   -> [@ EXCEPT !.outfile = line.value # 0]
            [] line.key = "limitsize" -> [@ EXCEPT !.limitsize = line.value]
            [] line.key = "enable"    -> [@ EXCEPT !.enable = line.value # 0]
            [] OTHER                  -> @]

Parse(text) ==
  FoldLeft(ParseConfigLine, [key |-> 0, info |-> [s \in {} |-> LoggerInfo(s)]], text).info

\* What the text says of the main logger, if it speaks of it.
Mentions(text) == Main \in DOMAIN Parse(text)
Wanted(text) == Parse(text)[Main]

\* What an update may find in the file: a text as far as it is written.
PartTexts == UNION {{SubSeq(v, 1, k) : k \in 0..Len(v)} : v \in Versions}

\* The limits that the texts and the default give.
LimitValues ==
  {DefaultLimit} \cup
    UNION {{v[i].value : i \in {j \in DOMAIN v : v[j].key = "limitsize"}} : v \in Versions}

\* Whatever part of a text the editor has written parses to settings: names and
\* limits are numbers here, switches on or off, and a limit is the default or some
\* line's.
Infos == [name : Nat, outfile : BOOLEAN, limitsize : LimitValues, enable : BOOLEAN]
ASSUME ParseAssumption ==
  \A text \in PartTexts : Sum(text) \in Nat /\ (Mentions(text) => Wanted(text) \in Infos)

\* Texts whose bytes have the same sum say the same of the main logger: an update
\* that goes by the sum overlooks no change.
NoCollision ==
  \A s, t \in PartTexts :
    Sum(s) = Sum(t) /\ Mentions(t) => Mentions(s) /\ Wanted(s) = Wanted(t)

-----------------------------------------------------------------------------
\* The file is rewritten: emptied, then written line by line.
EditorTruncates(v) ==
  /\ unwritten = <<>> /\ edits < MaxEdits /\ v # conf
  /\ conf' = <<>>
  /\ unwritten' = v
  /\ edits' = edits + 1
  /\ UNCHANGED checksum

EditorWrites ==
  /\ unwritten # <<>>
  /\ conf' = Append(conf, Head(unwritten))
  /\ unwritten' = Tail(unwritten)
  /\ UNCHANGED <<edits, checksum>>

EditorStep == EditorWrites \/ \E v \in Versions : EditorTruncates(v)
=============================================================================
