------------------------------- MODULE Extras -------------------------------
(***************************************************************************)
(* The dictionaries of afl-fuzz: extras, loaded from a file or a directory *)
(* with -x, and a_extras, the tokens that fuzz_one finds by itself.  A     *)
(* token is a sequence of bytes.  The stages of fuzz_one (Stages) and the  *)
(* sessions that save and reload the dictionary (AutoDict) use this        *)
(* module.                                                                 *)
(***************************************************************************)
EXTENDS Integers, Sequences, FiniteSets

CONSTANTS
  Interesting16,   \* interesting_16 as pairs of bytes in memory order
  Interesting32,   \* interesting_32, four bytes each
  Lower,           \* tolower: a function on bytes
  MinAuto,         \* MIN_AUTO_EXTRA
  MaxAuto,         \* MAX_AUTO_EXTRA
  UseAuto,         \* USE_AUTO_EXTRAS: the tokens the stages try and the disk keeps
  MaxAutoExtras    \* MAX_AUTO_EXTRAS: the tokens kept in memory

ASSUME DictAssumption ==
  /\ MinAuto \in Nat \ {0} /\ MaxAuto \in Nat /\ MinAuto <= MaxAuto
  /\ UseAuto \in Nat \ {0} /\ MaxAutoExtras \in Nat
  /\ 2 * UseAuto <= MaxAutoExtras

VARIABLES
  extras,         \* the tokens of the user, a sequence of byte sequences
  a_extras,       \* records [data, hit_cnt]
  auto_changed

dictVars == <<extras, a_extras, auto_changed>>

Least(a, b) == IF a <= b THEN a ELSE b
Used == 1 .. Least(UseAuto, Len(a_extras))

-----------------------------------------------------------------------------
(* qsort leaves the order of equal elements open.  Orders(s, n, key) are    *)
(* the arrays a sort of the first n elements of s may leave, where key[i]   *)
(* is the rank of s[i].                                                     *)

Orders(s, n, key) ==
  LET Moves == {p \in [1 .. n -> 1 .. n] : \A i, j \in 1 .. n : i # j => p[i] # p[j]}
      Moved(p) == [i \in DOMAIN s |-> IF i <= n THEN s[p[i]] ELSE s[i]]
  IN  {Moved(p) : p \in {q \in Moves : \A i, j \in 1 .. n : i < j => key[q[i]] <= key[q[j]]}}

BySize(s) == [i \in DOMAIN s |-> Len(s[i].data)]
ByUse(s) == [i \in DOMAIN s |-> -s[i].hit_cnt]

\* The two sorts at the end of maybe_add_auto: all by use, the used ones by length.
ByUseThenSize(s) ==
  UNION {Orders(t, Least(UseAuto, Len(t)), BySize(t)) : t \in Orders(s, Len(s), ByUse(s))}

-----------------------------------------------------------------------------
(* maybe_add_auto                                                           *)

SameNoCase(t, u) == Len(t) = Len(u) /\ \A i \in DOMAIN t : Lower[t[i]] = Lower[u[i]]
AllIdentical(t) == \A i \in DOMAIN t : t[i] = t[1]
Swapped(t) == [i \in DOMAIN t |-> t[Len(t) + 1 - i]]
BuiltIn(t) == \E w \in Interesting16 \cup Interesting32 : t = w \/ t = Swapped(w)

\* The search relies on extras being sorted: it starts at the first token that is
\* at least as long and stops at the first of another length.
InExtras(t) ==
  \E j \in DOMAIN extras :
    /\ SameNoCase(extras[j], t)
    /\ \E first \in 1 .. j :
         /\ \A k \in 1 .. first - 1 : Len(extras[k]) < Len(t)
         /\ \A k \in first .. j : Len(extras[k]) = Len(t)

Rejected(t) == AllIdentical(t) \/ BuiltIn(t) \/ InExtras(t)

Known(t) == {i \in DOMAIN a_extras : SameNoCase(a_extras[i].data, t)}
FirstOf(S) == CHOOSE i \in S : \A j \in S : i <= j
NewToken(t) == [data |-> t, hit_cnt |-> 0]
\* A fault: any token may give way.
AnyOfThem == 1 .. MaxAutoExtras

Evictable == MaxAutoExtras \div 2 + 1 .. MaxAutoExtras \div 2 + (MaxAutoExtras + 1) \div 2

\* A fault: one token too many.
WithOneMore(t) ==
  IF Known(t) # {}
  THEN {[a_extras EXCEPT ![FirstOf(Known(t))].hit_cnt = @ + 1]}
  ELSE IF Len(a_extras) <= MaxAutoExtras
  THEN {Append(a_extras, NewToken(t))}
  ELSE {[a_extras EXCEPT ![i] = NewToken(t)] : i \in Evictable}

\* The array before the sorts: a hit, a token appended, or one evicted at random.
WithToken(t) ==
  IF Known(t) # {}
  THEN {[a_extras EXCEPT ![FirstOf(Known(t))].hit_cnt = @ + 1]}
  ELSE IF Len(a_extras) < MaxAutoExtras
  THEN {Append(a_extras, NewToken(t))}
  ELSE {[a_extras EXCEPT ![i] = NewToken(t)] : i \in Evictable}

MaybeAddAuto(t) ==
  /\ IF Rejected(t)
     THEN UNCHANGED <<a_extras, auto_changed>>
     ELSE /\ auto_changed' = TRUE
          /\ \E s \in WithToken(t) : a_extras' \in ByUseThenSize(s)
  /\ UNCHANGED extras

-----------------------------------------------------------------------------
(* load_extras: a file has one token per line, a directory one per file.  A  *)
(* line is what the parser makes of it: [kind, level, data], where the kind *)
(* is "token", "malformed" or "blank" (a comment, too).                     *)

Tokens(lines, dict_level) ==
  LET taken == SelectSeq(lines, LAMBDA l : l.kind = "token" /\ l.level <= dict_level)
  IN  [i \in DOMAIN taken |-> taken[i].data]

LoadFails(lines, dict_level) ==
  \/ \E i \in DOMAIN lines : lines[i].kind = "malformed" /\ lines[i].level <= dict_level
  \/ Tokens(lines, dict_level) = <<>>

SortedBySize(ts) == Orders(ts, Len(ts), [i \in DOMAIN ts |-> Len(ts[i])])

LoadExtras(lines, dict_level) ==
  /\ ~LoadFails(lines, dict_level)
  /\ extras' \in SortedBySize(Tokens(lines, dict_level))
  /\ UNCHANGED <<a_extras, auto_changed>>
=============================================================================
