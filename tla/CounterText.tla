---------------------------- MODULE CounterText ----------------------------
(***************************************************************************)
(* The counters in the nodes of the oblivious map are texts: one decimal   *)
(* number, or two with a dash between them, in the array Node::value,      *)
(* which is filled with zero bytes first.  A text is a sequence of digits  *)
(* 0 .. 9, dash and nul.                                                   *)
(*                                                                         *)
(* The array is copied into without a test of the length: what is longer   *)
(* than it runs over into pos, the next member of Node.                    *)
(***************************************************************************)
EXTENDS Integers, FiniteSetsExt, SequencesExt

CONSTANTS valueSize  \* bytes of Node::value (16 in the code)

ASSUME CounterTextAssumption == valueSize \in Nat \ {0}

dash == -1

nul == -2

to_string[n \in Nat] == IF n < 10 THEN <<n>> ELSE Append(to_string[n \div 10], n % 10)

\* The text t before the first character that is not in S.
Leading(t, S) ==
    LET stops == {i \in 1 .. Len(t) : t[i] \notin S}
    IN  IF stops = {} THEN t ELSE SubSeq(t, 1, Min(stops) - 1)

\* The number at the beginning of t; there is one in all texts of the model.
stoi(t) == FoldLeft(LAMBDA n, c : 10 * n + c, 0, Leading(t, 0 .. 9))

c_str(t) == Leading(t, {dash} \cup 0 .. 9)

\* The parts of t between the dashes, without the empty ones.
splitData(t) ==
    SelectSeq(FoldLeft(LAMBDA parts, c :
                           IF c = dash THEN Append(parts, <<>>)
                           ELSE Append(Front(parts), Append(Last(parts), c)),
                       <<<<>>>>, t),
              LAMBDA part : part # <<>>)

\* One or two counters as the callers write and read them.
Text(v) == IF Len(v) = 1 THEN to_string[v[1]]
                         ELSE to_string[v[1]] \o <<dash>> \o to_string[v[2]]

Counters(t) == LET parts == splitData(t) IN [i \in DOMAIN parts |-> stoi(parts[i])]

\* Node::value after the fill and the copy of t.
Field(t) == [i \in 1 .. valueSize |-> IF i <= Len(t) THEN t[i] ELSE nul]

(***************************************************************************)
(* pos after the copy.  At most one byte runs over, the last nul of an     *)
(* array that was read, changed and written back: it becomes the low byte. *)
(***************************************************************************)
SpilledOn(t, pos) == IF Len(t) > valueSize THEN 256 * (pos \div 256) ELSE pos
=============================================================================
