-------------------------- MODULE CommandLineProofs -------------------------
(***************************************************************************)
(* A proof, for any number of options on the command line, that main() of  *)
(* src/cs-trace.c does what usage() says of them, when the options written *)
(* with one letter are among those whose entry in the option string agrees *)
(* with long_options.                                                      *)
(***************************************************************************)
EXTENDS TraceSetup, SequenceTheorems, TLAPS

(* The letters whose entry in "b:c:e:f:k:v::h" says what usage() does.     *)
SoundLetters == {"b", "c", "v", "h"}

Elements == [form : {"short", "long", "word", "end"},
             opt : Options \cup {"none"},
             val : {"ZYNQ7000", "other", "1", "2", "exe", "cs-trace", "none"}]

----------------------------------------------------------------------------
(* The inductive invariant.                                                *)

(* Wish w is spelled by the elements of rest from i up to j, exclusive.    *)
SpelledAt(w, i, j) ==
  \/ j = i + 1 /\ rest[i] = Option("long", w.opt, w.val)
  \/ /\ w.opt \in {"v", "h"} /\ j = i + 1
     /\ rest[i] = Option("short", w.opt, w.val)
  \/ /\ w.opt \in {"b", "c"} /\ j = i + 2
     /\ rest[i] = Option("short", w.opt, "none") /\ rest[i + 1] = Word(w.val)

(* The wishes after the first k are what is left of argv: wish j is        *)
(* spelled from p[j], and the program follows the last one.                *)
Spelled(k, p) ==
  LET n == Len(wishes) IN
  /\ p[k + 1] = 1
  /\ \A i, j \in (k + 1)..(n + 1) : i <= j => p[i] <= p[j]
  /\ \A j \in (k + 1)..n : SpelledAt(wishes[j], p[j], p[j + 1])
  /\ IF exe = <<>> THEN Len(rest) = p[n + 1] - 1
     ELSE /\ Len(rest) = p[n + 1] + 1
          /\ rest[p[n + 1]] = End /\ rest[p[n + 1] + 1] = Word("exe")

(* The variables have the values that the last of the first k wishes asks  *)
(* for, and none of these was for help.                                    *)
Settled(k) ==
  /\ args = [o \in Options |-> args[o]]
  /\ \A i \in 1..k : wishes[i].opt # "h"
  /\ \A o \in Options :
       \/ args[o] = Defaults[o] /\ \A i \in 1..k : wishes[i].opt # o
       \/ \E i \in 1..k :
            /\ wishes[i].opt = o /\ args[o] = wishes[i].means
            /\ \A j \in (i + 1)..k : wishes[j].opt # o

ParseInv ==
  /\ main \in {"write", "parse"} =>
       /\ wishes \in Seq(Wishes) /\ rest \in Seq(Elements)
       /\ exe \in {<<>>, <<Word("exe")>>} /\ (main = "write" => exe = <<>>)
       /\ nonopts = <<>> /\ last # End
       /\ \E k \in 0..Len(wishes) :
            /\ main = "write" => k = 0
            /\ Settled(k)
            /\ \E p \in [(k + 1)..(Len(wishes) + 1) -> 1..(Len(rest) + 1)] : Spelled(k, p)
  /\ ParsedAsDocumented

----------------------------------------------------------------------------
(* The options.                                                            *)

(* What usage() says of the options that take a value, and that the switch *)
(* gives the variable what the wish asks for.                              *)
LEMMA WishFacts ==
  ASSUME NEW w \in Wishes
  PROVE  /\ w.opt \in Options
         /\ w.val \in {"ZYNQ7000", "other", "1", "2", "none"}
         /\ w.opt \in {"b", "c", "u"} => w.val # "none"
         /\ w.opt \in {"e", "f", "k", "h"} => w.val = "none"
         /\ w.opt # "h" => Setting(w.opt, w.val) = w.means
<1>1. /\ w.opt \in Options
      /\ w.val \in {"ZYNQ7000", "other", "1", "2", "none"}
      /\ w.opt \in {"b", "c", "u"} => w.val # "none"
      /\ w.opt \in {"e", "f", "k", "h"} => w.val = "none"
  BY DEF Wishes, Options
<1>2. w.opt # "h" => Setting(w.opt, w.val) = w.means
  <2>1. CASE w = [opt |-> "b", val |-> "ZYNQ7000", means |-> "ZYNQ7000"]
    BY <2>1 DEF Setting, Atoi
  <2>2. CASE w = [opt |-> "b", val |-> "other", means |-> "other"]
    BY <2>2 DEF Setting, Atoi
  <2>3. CASE w = [opt |-> "c", val |-> "1", means |-> 1]
    BY <2>3 DEF Setting, Atoi
  <2>4. CASE w = [opt |-> "c", val |-> "2", means |-> 2]
    BY <2>4 DEF Setting, Atoi
  <2>5. CASE w = [opt |-> "e", val |-> "none", means |-> TRUE]
    BY <2>5 DEF Setting, Atoi
  <2>6. CASE w = [opt |-> "f", val |-> "none", means |-> TRUE]
    BY <2>6 DEF Setting, Atoi
  <2>7. CASE w = [opt |-> "u", val |-> "1", means |-> 1]
    BY <2>7 DEF Setting, Atoi
  <2>8. CASE w = [opt |-> "k", val |-> "none", means |-> TRUE]
    BY <2>8 DEF Setting, Atoi
  <2>9. CASE w = [opt |-> "v", val |-> "none", means |-> 1]
    BY <2>9 DEF Setting, Atoi
  <2>10. CASE w = [opt |-> "v", val |-> "2", means |-> 2]
    BY <2>10 DEF Setting, Atoi
  <2>11. CASE w = [opt |-> "h", val |-> "none", means |-> TRUE]
    BY <2>11 DEF Setting, Atoi
  <2> QED  BY <2>1, <2>2, <2>3, <2>4, <2>5, <2>6, <2>7, <2>8, <2>9, <2>10, <2>11, Zenon DEF Wishes
<1> QED  BY <1>1, <1>2

(* The elements of the two forms.                                          *)
LEMMA ElementFacts ==
  ASSUME NEW w \in Wishes
  PROVE  /\ Option("long", w.opt, w.val) \in Elements
         /\ Option("short", w.opt, w.val) \in Elements
         /\ Option("short", w.opt, "none") \in Elements
         /\ Word(w.val) \in Elements
  BY WishFacts DEF Elements, Option, Word

(* The user may spell a wish in these ways only.                           *)
LEMMA SpellingForms ==
  ASSUME ShortForms \subseteq SoundLetters,
         NEW w \in Wishes, NEW s \in Spellings(w)
  PROVE  \/ s = <<Option("long", w.opt, w.val)>>
         \/ w.opt \in {"v", "h"} /\ s = <<Option("short", w.opt, w.val)>>
         \/ w.opt \in {"b", "c"} /\ s = <<Option("short", w.opt, "none"), Word(w.val)>>
<1>1. /\ w.opt \in {"b", "c", "u"} => w.val # "none"
      /\ w.opt \in {"e", "f", "k", "h"} => w.val = "none"
      /\ w.opt \in Options
  BY WishFacts
<1>2. w.opt \in ShortForms => w.opt \in {"b", "c", "v", "h"}
  BY DEF SoundLetters
<1> QED  BY <1>1, <1>2 DEF Spellings

(* What getopt_long and the switch make of the next wish.                  *)
LEMMA TakesWish ==
  ASSUME NEW w \in Wishes, NEW j \in Nat, SpelledAt(w, 1, j),
         rest \in Seq(Elements), j <= Len(rest) + 1, TakeOption
  PROVE  /\ j \in {2, 3}
         /\ last' = rest[j - 1]
         /\ rest' = SubSeq(rest, j, Len(rest))
         /\ args' = IF w.opt = "h" THEN args ELSE [args EXCEPT ![w.opt] = w.means]
         /\ main' = IF w.opt = "h" THEN "usage" ELSE main
<1> DEFINE t     == Head(rest)
           takes == Follows(t)
           next  == takes = "required" /\ t.val = "none"
           bad   == \/ takes = "unknown"
                    \/ next /\ Len(rest) = 1
                    \/ takes = "no" /\ t.val # "none"
           m     == IF next /\ Len(rest) > 1 THEN 2 ELSE 1
<1>1. /\ last' = rest[m]
      /\ rest' = SubSeq(rest, m + 1, Len(rest))
      /\ args' = IF bad \/ t.opt = "h" THEN args
                 ELSE [args EXCEPT ![t.opt] = Setting(t.opt, rest[m].val)]
      /\ main' = IF t.opt = "h" /\ ~bad THEN "usage" ELSE main
      /\ rest # <<>>
  BY DEF TakeOption
<1>2. t = rest[1] /\ Len(rest) \in Nat
  BY <1>1
<1>3. /\ w.opt \in Options
      /\ w.opt \in {"b", "c", "u"} => w.val # "none"
      /\ w.opt \in {"e", "f", "k", "h"} => w.val = "none"
      /\ w.opt # "h" => Setting(w.opt, w.val) = w.means
  BY WishFacts
<1>4. CASE j = 2 /\ rest[1] = Option("long", w.opt, w.val)
  <2>1. t.form = "long" /\ t.opt = w.opt /\ t.val = w.val
    BY <1>2, <1>4 DEF Option
  <2>2. takes = LongOptions[w.opt]
    BY <2>1 DEF Follows
  <2>3. ~next /\ ~bad
    BY <1>3, <2>1, <2>2 DEF LongOptions, Options
  <2>4. m = 1
    BY <2>3
  <2>5. rest[m].val = w.val
    BY <1>2, <2>1, <2>4
  <2> HIDE DEF m, bad, next, takes, t
  <2>7. /\ last' = rest[m] /\ rest' = SubSeq(rest, m + 1, Len(rest))
        /\ m + 1 = j /\ m = j - 1
    BY <1>1, <1>4, <2>1, <2>3, <2>4, <2>5
  <2>8. main' = IF w.opt = "h" THEN "usage" ELSE main
    BY <1>1, <2>1, <2>3, <2>4, <2>5
  <2>9. args' = IF w.opt = "h" THEN args ELSE [args EXCEPT ![w.opt] = w.means]
    BY <1>1, <1>3, <2>1, <2>3, <2>4, <2>5
  <2> QED  BY <1>4, <2>7, <2>8, <2>9
<1>5. CASE j = 2 /\ w.opt \in {"v", "h"} /\ rest[1] = Option("short", w.opt, w.val)
  <2>1. t.form = "short" /\ t.opt = w.opt /\ t.val = w.val
    BY <1>2, <1>5 DEF Option
  <2>2. takes = ShortOptions[w.opt]
    BY <2>1 DEF Follows
  <2>3. ~next /\ ~bad
    BY <1>3, <1>5, <2>1, <2>2 DEF ShortOptions
  <2>4. m = 1
    BY <2>3
  <2>5. rest[m].val = w.val
    BY <1>2, <2>1, <2>4
  <2> HIDE DEF m, bad, next, takes, t
  <2>7. /\ last' = rest[m] /\ rest' = SubSeq(rest, m + 1, Len(rest))
        /\ m + 1 = j /\ m = j - 1
    BY <1>1, <1>5, <2>1, <2>3, <2>4, <2>5
  <2>8. main' = IF w.opt = "h" THEN "usage" ELSE main
    BY <1>1, <2>1, <2>3, <2>4, <2>5
  <2>9. args' = IF w.opt = "h" THEN args ELSE [args EXCEPT ![w.opt] = w.means]
    BY <1>1, <1>3, <2>1, <2>3, <2>4, <2>5
  <2> QED  BY <1>5, <2>7, <2>8, <2>9
<1>6. CASE /\ j = 3 /\ w.opt \in {"b", "c"}
           /\ rest[1] = Option("short", w.opt, "none") /\ rest[2] = Word(w.val)
  <2>1. t.form = "short" /\ t.opt = w.opt /\ t.val = "none"
    BY <1>2, <1>6 DEF Option
  <2>2. takes = ShortOptions[w.opt]
    BY <2>1 DEF Follows
  <2>3. Len(rest) >= 2
    BY <1>2, <1>6
  <2>4. next /\ ~bad /\ w.opt # "h"
    BY <1>2, <1>6, <2>1, <2>2, <2>3 DEF ShortOptions
  <2>5. m = 2
    BY <1>2, <2>3, <2>4
  <2>6. rest[m].val = w.val
    BY <1>6, <2>5 DEF Word, Option
  <2> HIDE DEF m, bad, next, takes, t
  <2>7. /\ last' = rest[m] /\ rest' = SubSeq(rest, m + 1, Len(rest))
        /\ m + 1 = j /\ m = j - 1
    BY <1>1, <1>6, <2>1, <2>4, <2>5, <2>6
  <2>8. main' = IF w.opt = "h" THEN "usage" ELSE main
    BY <1>1, <2>1, <2>4, <2>5, <2>6
  <2>9. args' = IF w.opt = "h" THEN args ELSE [args EXCEPT ![w.opt] = w.means]
    BY <1>1, <1>3, <2>1, <2>4, <2>5, <2>6
  <2> QED  BY <1>6, <2>7, <2>8, <2>9
<1> QED  BY <1>4, <1>5, <1>6 DEF SpelledAt

----------------------------------------------------------------------------
(* The user writes the command line.                                       *)

(* One more wish.                                                          *)
LEMMA AddsWish ==
  ASSUME ShortForms \subseteq SoundLetters,
         ParseInv, main = "write", main' = "write",
         NEW w \in Wishes, NEW s \in Spellings(w),
         wishes' = Append(wishes, w), rest' = rest \o s,
         UNCHANGED <<exe, nonopts, last, args>>
  PROVE  ParseInv'
<1>0. PICK n : n = Len(wishes)
  OBVIOUS
<1>1. /\ wishes \in Seq(Wishes) /\ rest \in Seq(Elements) /\ exe = <<>>
      /\ nonopts = <<>> /\ last # End
  BY DEF ParseInv
<1>2. PICK p \in [1..(n + 1) -> 1..(Len(rest) + 1)] : Spelled(0, p) /\ Settled(0)
  BY <1>0 DEF ParseInv
<1>3. n \in Nat /\ Len(rest) \in Nat
  BY <1>0, <1>1
<1>4. /\ p[1] = 1 /\ Len(rest) = p[n + 1] - 1
      /\ \A i, j \in 1..(n + 1) : i <= j => p[i] <= p[j]
      /\ \A j \in 1..n : SpelledAt(wishes[j], p[j], p[j + 1])
  BY <1>0, <1>1, <1>2, <1>3 DEF Spelled
<1>5. /\ s \in Seq(Elements) /\ Len(s) \in {1, 2}
      /\ \/ Len(s) = 1 /\ s[1] = Option("long", w.opt, w.val)
         \/ /\ w.opt \in {"v", "h"} /\ Len(s) = 1
            /\ s[1] = Option("short", w.opt, w.val)
         \/ /\ w.opt \in {"b", "c"} /\ Len(s) = 2
            /\ s[1] = Option("short", w.opt, "none") /\ s[2] = Word(w.val)
  BY SpellingForms, ElementFacts, SMTT(30)
<1>6. /\ rest' \in Seq(Elements) /\ Len(rest') = Len(rest) + Len(s)
      /\ \A i \in 1..Len(rest) : rest'[i] = rest[i]
      /\ \A i \in 1..Len(s) : rest'[Len(rest) + i] = s[i]
  BY <1>1, <1>5
<1>7. /\ wishes' \in Seq(Wishes) /\ Len(wishes') = n + 1
      /\ \A i \in 1..n : wishes'[i] = wishes[i]
      /\ wishes'[n + 1] = w
  BY <1>0, <1>1
<1>q. PICK q : q = [j \in 1..(n + 2) |-> IF j = n + 2 THEN p[n + 1] + Len(s) ELSE p[j]]
  OBVIOUS
<1>8. /\ \A j \in 1..(n + 1) : q[j] = p[j] /\ p[j] \in 1..(Len(rest) + 1)
      /\ q[n + 2] = p[n + 1] + Len(s)
  BY <1>2, <1>3, <1>q
<1>e. p[n + 1] = Len(rest) + 1 /\ q[n + 2] = Len(rest) + 1 + Len(s)
  <2>1. p[n + 1] \in Nat
    BY <1>3, <1>8
  <2> QED  BY <1>3, <1>4, <1>8, <2>1
<1>9. q \in [1..(n + 2) -> 1..(Len(rest') + 1)]
  <2>1. ASSUME NEW j \in 1..(n + 2)
        PROVE  q[j] \in 1..(Len(rest') + 1)
    <3>1. CASE j = n + 2
      BY <1>3, <1>e, <1>5, <1>6, <3>1, SMTT(30)
    <3>2. CASE j \in 1..(n + 1)
      BY <1>3, <1>5, <1>6, <1>8, <3>2, SMTT(30)
    <3> QED  BY <1>3, <3>1, <3>2
  <2> QED  BY <1>q, <2>1
<1>10. \A i, j \in 1..(n + 2) : i <= j => q[i] <= q[j]
  <2> SUFFICES ASSUME NEW i \in 1..(n + 2), NEW j \in 1..(n + 2), i <= j
               PROVE  q[i] <= q[j]
    OBVIOUS
  <2>1. CASE j # n + 2
    <3>1. i \in 1..(n + 1) /\ j \in 1..(n + 1)
      BY <1>3, <2>1
    <3>2. q[i] = p[i] /\ q[j] = p[j] /\ p[i] <= p[j]
      BY <1>4, <1>8, <3>1
    <3> QED  BY <3>2
  <2>2. CASE j = n + 2 /\ i = n + 2
    BY <1>3, <1>4, <1>5, <1>8, <2>2, SMTT(30)
  <2>3. CASE j = n + 2 /\ i # n + 2
    <3>1. q[i] = p[i] /\ p[i] <= p[n + 1] /\ p[i] \in Nat /\ p[n + 1] \in Nat
      BY <1>3, <1>4, <1>8, <2>3, SMTT(30)
    <3> QED  BY <1>5, <1>8, <2>3, <3>1, SMTT(30)
  <2> QED  BY <2>1, <2>2, <2>3
<1>11. ASSUME NEW j \in 1..(n + 1)
       PROVE  (SpelledAt(wishes[j], q[j], q[j + 1]))'
  <2>1. CASE j = n + 1
    <3>1. q[j] = Len(rest) + 1 /\ q[j + 1] = Len(rest) + 1 + Len(s)
      BY <1>3, <1>4, <1>8, <2>1, SMTT(30)
    <3>2. rest'[Len(rest) + 1] = s[1] /\ (Len(s) = 2 => rest'[Len(rest) + 2] = s[2])
      BY <1>5, <1>6
    <3>3. wishes'[j] = w
      BY <1>7, <2>1
    <3>4. q[j + 1] = q[j] + Len(s) /\ q[j] + 1 = Len(rest) + 2
      BY <1>3, <1>5, <3>1
    <3>5. \/ q[j + 1] = q[j] + 1 /\ rest'[q[j]] = Option("long", w.opt, w.val)
          \/ /\ w.opt \in {"v", "h"} /\ q[j + 1] = q[j] + 1
             /\ rest'[q[j]] = Option("short", w.opt, w.val)
          \/ /\ w.opt \in {"b", "c"} /\ q[j + 1] = q[j] + 2
             /\ rest'[q[j]] = Option("short", w.opt, "none")
             /\ rest'[q[j] + 1] = Word(w.val)
      BY <1>5, <3>1, <3>2, <3>4
    <3> QED  BY <3>3, <3>5 DEF SpelledAt
  <2>2. CASE j # n + 1
    <3>1. j \in 1..n /\ j + 1 \in 1..(n + 1) /\ j \in 1..(n + 1)
      BY <1>3, <2>2
    <3>2. SpelledAt(wishes[j], p[j], p[j + 1])
      BY <1>4, <3>1
    <3>3. /\ q[j] = p[j] /\ q[j + 1] = p[j + 1] /\ wishes'[j] = wishes[j]
          /\ p[j] \in Nat \ {0} /\ p[j + 1] \in Nat
          /\ p[j + 1] <= Len(rest) + 1
      BY <1>3, <1>7, <1>8, <3>1, SMTT(30)
    <3>4. \A i \in Nat \ {0} : i < p[j + 1] => rest'[i] = rest[i]
      BY <1>3, <1>6, <3>3, SMTT(30)
    <3> QED  BY <3>2, <3>3, <3>4, SMTT(30) DEF SpelledAt
  <2> QED  BY <2>1, <2>2
<1>12. Spelled(0, q)'
  <2>1. q[1] = 1
    BY <1>3, <1>4, <1>8, SMTT(30)
  <2>2. Len(rest') = q[n + 2] - 1
    BY <1>3, <1>4, <1>5, <1>6, <1>8
  <2>3. /\ Len(wishes') = n + 1 /\ exe' = <<>>
        /\ n + 1 + 1 = n + 2 /\ 0 + 1 = 1
    BY <1>1, <1>3, <1>7
  <2>4. \A j \in (0 + 1)..Len(wishes') : (SpelledAt(wishes[j], q[j], q[j + 1]))'
    BY <1>11, <2>3
  <2>5. \A i, j \in (0 + 1)..(Len(wishes') + 1) : i <= j => q[i] <= q[j]
    BY <1>10, <2>3
  <2>6. q[0 + 1] = 1 /\ Len(rest') = q[Len(wishes') + 1] - 1
    BY <2>1, <2>2, <2>3
  <2> QED  BY <2>3, <2>4, <2>5, <2>6 DEF Spelled
<1>13. Settled(0)'
  BY <1>2 DEF Settled
<1>14. ParsedAsDocumented'
  BY DEF ParsedAsDocumented
<1>15. 0 \in 0..Len(wishes')
  BY <1>3, <1>7
<1>16. q \in [(0 + 1)..(Len(wishes') + 1) -> 1..(Len(rest') + 1)]
  BY <1>3, <1>7, <1>9
<1> QED  BY <1>1, <1>6, <1>7, <1>12, <1>13, <1>14, <1>15, <1>16 DEF ParseInv

(* "--" and the program, or neither.                                       *)
LEMMA AddsProgram ==
  ASSUME ParseInv, main = "write",
         exe' \in {<<>>, <<Word("exe")>>},
         rest' = IF exe' = <<>> THEN rest ELSE rest \o <<End>> \o exe',
         main' = IF Len(rest') < 2 THEN "usage" ELSE "parse",
         UNCHANGED <<wishes, nonopts, last, args>>
  PROVE  ParseInv'
<1>0. PICK n : n = Len(wishes)
  OBVIOUS
<1>1. /\ wishes \in Seq(Wishes) /\ rest \in Seq(Elements) /\ exe = <<>>
      /\ nonopts = <<>> /\ last # End
  BY DEF ParseInv
<1>2. PICK p \in [1..(n + 1) -> 1..(Len(rest) + 1)] : Spelled(0, p) /\ Settled(0)
  BY <1>0 DEF ParseInv
<1>3. n \in Nat /\ Len(rest) \in Nat
  BY <1>0, <1>1
<1>4. /\ p[1] = 1 /\ p[n + 1] = Len(rest) + 1
      /\ \A i, j \in 1..(n + 1) : i <= j => p[i] <= p[j]
      /\ \A j \in 1..n : SpelledAt(wishes[j], p[j], p[j + 1])
      /\ \A j \in 1..(n + 1) : p[j] \in 1..(Len(rest) + 1)
  <2>1. n + 1 \in 1..(n + 1)
    BY <1>3
  <2>2. Len(rest) = p[n + 1] - 1 /\ p[n + 1] \in Nat
    BY <1>0, <1>1, <1>2, <2>1 DEF Spelled
  <2> QED  BY <1>0, <1>1, <1>2, <1>3, <2>2, SMTT(30) DEF Spelled
<1>5. End \in Elements /\ Word("exe") \in Elements
  BY DEF End, Word, Option, Elements
<1>6. /\ rest' \in Seq(Elements)
      /\ \A i \in 1..Len(rest) : rest'[i] = rest[i]
      /\ exe' = <<>> => Len(rest') = Len(rest)
      /\ exe' # <<>> => /\ Len(rest') = Len(rest) + 2
                        /\ rest'[Len(rest) + 1] = End
                        /\ rest'[Len(rest) + 2] = Word("exe")
  <2>1. CASE exe' = <<>>
    BY <1>1, <2>1
  <2>2. CASE exe' = <<Word("exe")>>
    <3>1. rest' = rest \o <<End>> \o <<Word("exe")>> /\ exe' # <<>>
      BY <2>2
    <3> QED  BY <1>1, <1>5, <3>1
  <2> QED  BY <2>1, <2>2
<1>7. CASE main' = "usage"
  <2>1. Len(rest') < 2
    BY <1>7
  <2>2. exe' = <<>>
    BY <1>3, <1>6, <2>1
  <2>3. ParsedAsDocumented'
    BY <1>7, <2>2 DEF ParsedAsDocumented
  <2> QED  BY <1>7, <2>3 DEF ParseInv
<1>8. CASE main' = "parse"
  <2>1. ASSUME NEW j \in 1..n
        PROVE  (SpelledAt(wishes[j], p[j], p[j + 1]))'
    <3>1. SpelledAt(wishes[j], p[j], p[j + 1])
      BY <1>4
    <3>2. /\ j \in 1..(n + 1) /\ j + 1 \in 1..(n + 1)
      BY <1>3
    <3>3. /\ p[j] \in Nat \ {0} /\ p[j + 1] \in Nat /\ p[j + 1] <= Len(rest) + 1
      BY <1>3, <1>4, <3>2, SMTT(30)
    <3>4. \A i \in Nat \ {0} : i < p[j + 1] => rest'[i] = rest[i]
      BY <1>3, <1>6, <3>3, SMTT(30)
    <3>5. ASSUME p[j + 1] = p[j] + 1 \/ p[j + 1] = p[j] + 2
          PROVE  /\ rest'[p[j]] = rest[p[j]]
                 /\ p[j + 1] = p[j] + 2 => rest'[p[j] + 1] = rest[p[j] + 1]
      <4>1. p[j] < p[j + 1] /\ (p[j + 1] = p[j] + 2 => p[j] + 1 < p[j + 1])
        BY <3>3, <3>5
      <4>2. p[j] + 1 \in Nat \ {0}
        BY <3>3
      <4> QED  BY <3>3, <3>4, <4>1, <4>2
    <3>6. wishes'[j] = wishes[j]
      OBVIOUS
    <3>7. p[j + 1] = p[j] + 1 \/ p[j + 1] = p[j] + 2
      BY <3>1, Zenon DEF SpelledAt
    <3> QED  BY <3>1, <3>5, <3>6, <3>7, Zenon DEF SpelledAt
  <2>2. Spelled(0, p)'
    <3>1. Len(wishes') = n /\ 0 + 1 = 1
      BY <1>0
    <3>2. \A j \in (0 + 1)..Len(wishes') : (SpelledAt(wishes[j], p[j], p[j + 1]))'
      BY <2>1, <3>1
    <3>3. \A i, j \in (0 + 1)..(Len(wishes') + 1) : i <= j => p[i] <= p[j]
      BY <1>4, <3>1
    <3>4. p[0 + 1] = 1
      BY <1>4, <3>1
    <3>5. IF exe' = <<>> THEN Len(rest') = p[Len(wishes') + 1] - 1
          ELSE /\ Len(rest') = p[Len(wishes') + 1] + 1
               /\ rest'[p[Len(wishes') + 1]] = End
               /\ rest'[p[Len(wishes') + 1] + 1] = Word("exe")
      BY <1>3, <1>4, <1>6, <3>1, SMTT(30)
    <3> QED  BY <3>2, <3>3, <3>4, <3>5 DEF Spelled
  <2>3. Settled(0)'
    BY <1>2 DEF Settled
  <2>4. p \in [(0 + 1)..(Len(wishes') + 1) -> 1..(Len(rest') + 1)]
    <3>1. \A j \in 1..(n + 1) : p[j] \in 1..(Len(rest') + 1)
      BY <1>3, <1>4, <1>6
    <3> QED  BY <1>0, <1>2, <3>1
  <2>5. 0 \in 0..Len(wishes')
    BY <1>0, <1>3
  <2>6. ParsedAsDocumented'
    BY <1>8 DEF ParsedAsDocumented
  <2> QED  BY <1>1, <1>6, <1>8, <2>2, <2>3, <2>4, <2>5, <2>6 DEF ParseInv
<1> QED  BY <1>7, <1>8

----------------------------------------------------------------------------
(* getopt_long.                                                            *)

(* What is at the head of argv: the next wish; or else there is none left. *)
LEMMA HeadOfRest ==
  ASSUME NEW k \in 0..Len(wishes), wishes \in Seq(Wishes), rest \in Seq(Elements),
         NEW p \in [(k + 1)..(Len(wishes) + 1) -> 1..(Len(rest) + 1)], Spelled(k, p)
  PROVE  /\ k < Len(wishes) =>
              /\ SpelledAt(wishes[k + 1], 1, p[k + 2]) /\ wishes[k + 1] \in Wishes
              /\ p[k + 2] \in Nat /\ p[k + 2] <= Len(rest) + 1
              /\ rest # <<>> /\ rest[1].form \in {"short", "long"}
         /\ k = Len(wishes) =>
              IF exe = <<>> THEN rest = <<>>
              ELSE Len(rest) = 2 /\ rest[1] = End /\ rest[2] = Word("exe")
<1>0. Len(wishes) \in Nat /\ Len(rest) \in Nat
  OBVIOUS
<1>1. CASE k < Len(wishes)
  <2>1. /\ k + 1 \in (k + 1)..Len(wishes) /\ k + 2 \in (k + 1)..(Len(wishes) + 1)
        /\ k + 1 \in 1..Len(wishes) /\ k + 1 + 1 = k + 2
    BY <1>0, <1>1
  <2>2. p[k + 1] = 1 /\ SpelledAt(wishes[k + 1], p[k + 1], p[k + 1 + 1])
    BY <2>1 DEF Spelled
  <2>3. SpelledAt(wishes[k + 1], 1, p[k + 2])
    BY <2>1, <2>2
  <2>4. p[k + 2] \in Nat /\ p[k + 2] <= Len(rest) + 1
    BY <1>0, <2>1
  <2>5. wishes[k + 1] \in Wishes
    BY <2>1
  <2>6. p[k + 2] >= 2 /\ rest[1].form \in {"short", "long"}
    BY <2>3, <2>4, SMTT(30) DEF SpelledAt, Option
  <2>7. rest # <<>>
    BY <1>0, <2>4, <2>6
  <2> QED  BY <1>1, <2>3, <2>4, <2>5, <2>6, <2>7
<1>2. CASE k = Len(wishes)
  <2>1. p[Len(wishes) + 1] = 1
    BY <1>2 DEF Spelled
  <2>2. IF exe = <<>> THEN Len(rest) = 1 - 1
        ELSE Len(rest) = 1 + 1 /\ rest[1] = End /\ rest[1 + 1] = Word("exe")
    BY <2>1 DEF Spelled
  <2> QED  BY <1>0, <1>2, <2>2
<1> QED  BY <1>1, <1>2

(* The option of the next wish is taken.                                   *)
LEMMA TakeStep ==
  ASSUME ParseInv, TakeOption
  PROVE  ParseInv'
<1>0. PICK n : n = Len(wishes)
  OBVIOUS
<1>1. /\ wishes \in Seq(Wishes) /\ rest \in Seq(Elements)
      /\ exe \in {<<>>, <<Word("exe")>>} /\ nonopts = <<>> /\ main = "parse"
      /\ UNCHANGED <<wishes, exe, nonopts>>
  BY DEF ParseInv, TakeOption
<1>2. PICK k \in 0..n : Settled(k) /\
        \E p \in [(k + 1)..(n + 1) -> 1..(Len(rest) + 1)] : Spelled(k, p)
  BY <1>0, <1>1 DEF ParseInv
<1>3. PICK p \in [(k + 1)..(n + 1) -> 1..(Len(rest) + 1)] : Spelled(k, p)
  BY <1>2
<1>4. n \in Nat /\ Len(rest) \in Nat
  BY <1>0, <1>1
<1>5. k < n
  <2> SUFFICES ASSUME k = n  PROVE FALSE
    BY <1>2, <1>4
  <2>1. rest # <<>> /\ Head(rest).form \in {"short", "long"}
    BY DEF TakeOption
  <2>2. Head(rest) = rest[1]
    BY <1>1, <2>1
  <2>3. rest[1] = End
    BY <1>0, <1>1, <1>2, <1>3, <2>1, HeadOfRest
  <2> QED  BY <2>1, <2>2, <2>3 DEF End, Option
<1>6. PICK w : w = wishes[k + 1]
  OBVIOUS
<1>7. PICK d : d = p[k + 2] - 1
  OBVIOUS
<1>8. /\ SpelledAt(w, 1, p[k + 2]) /\ w \in Wishes
      /\ p[k + 2] \in Nat /\ p[k + 2] <= Len(rest) + 1
  BY <1>0, <1>1, <1>2, <1>3, <1>5, <1>6, HeadOfRest
<1>9. /\ p[k + 2] \in {2, 3}
      /\ last' = rest[p[k + 2] - 1]
      /\ rest' = SubSeq(rest, p[k + 2], Len(rest))
      /\ args' = IF w.opt = "h" THEN args ELSE [args EXCEPT ![w.opt] = w.means]
      /\ main' = IF w.opt = "h" THEN "usage" ELSE main
  BY <1>1, <1>8, TakesWish
<1>10. d \in {1, 2} /\ p[k + 2] = d + 1 /\ d <= Len(rest)
  BY <1>4, <1>7, <1>8, <1>9, SMTT(30)
<1>11. /\ rest' \in Seq(Elements) /\ Len(rest') = Len(rest) - d
       /\ \A i \in 1..Len(rest') : rest'[i] = rest[i + d]
  <2>1. rest' = SubSeq(rest, d + 1, Len(rest))
    BY <1>9, <1>10
  <2>2. /\ rest' \in Seq(Elements)
        /\ Len(rest') = IF d + 1 <= Len(rest) THEN Len(rest) - (d + 1) + 1 ELSE 0
        /\ \A i \in 1..(Len(rest) - (d + 1) + 1) : rest'[i] = rest[(d + 1) + i - 1]
    BY <1>1, <1>4, <1>10, <2>1, SubSeqProperties, SMTT(30)
  <2>3. Len(rest') = Len(rest) - d
    BY <1>4, <1>10, <2>2
  <2>4. ASSUME NEW i \in 1..Len(rest')
        PROVE  rest'[i] = rest[i + d]
    <3>1. i \in 1..(Len(rest) - (d + 1) + 1) /\ (d + 1) + i - 1 = i + d
      BY <1>4, <1>10, <2>3
    <3> QED  BY <2>2, <3>1
  <2> QED  BY <2>2, <2>3, <2>4
<1>12. CASE w.opt = "h"
  <2>1. k + 1 \in DOMAIN wishes'
    BY <1>0, <1>1, <1>2, <1>4, <1>5
  <2>2. \E i \in DOMAIN wishes' : wishes'[i].opt = "h"
    BY <1>1, <1>6, <1>12, <2>1
  <2>3. main' = "usage"
    BY <1>9, <1>12
  <2> QED  BY <2>2, <2>3 DEF ParseInv, ParsedAsDocumented
<1>13. CASE w.opt # "h"
  <2>1. main' = "parse" /\ args' = [args EXCEPT ![w.opt] = w.means]
    BY <1>1, <1>9, <1>13
  <2>2. last' # End
    BY <1>8, <1>9, <1>10 DEF SpelledAt, Option, Word, End
  <2>3. PICK q : q = [j \in (k + 2)..(n + 1) |-> p[j] - d]
    OBVIOUS
  <2>4. \A i, j \in (k + 1)..(n + 1) : i <= j => p[i] <= p[j]
    BY <1>0, <1>3 DEF Spelled
  <2>5. ASSUME NEW j \in (k + 2)..(n + 1)
        PROVE  /\ j \in (k + 1)..(n + 1) /\ p[j] \in Nat /\ p[j] >= d + 1
               /\ p[j] <= Len(rest) + 1 /\ q[j] = p[j] - d
    <3>1. j \in (k + 1)..(n + 1) /\ k + 2 \in (k + 1)..(n + 1) /\ k + 2 <= j
      BY <1>2, <1>4, <1>5
    <3>2. p[k + 2] <= p[j]
      BY <2>4, <3>1
    <3>3. p[j] \in Nat /\ p[j] <= Len(rest) + 1
      BY <1>3, <1>4, <3>1
    <3> QED  BY <1>10, <2>3, <3>1, <3>2, <3>3
  <2>6. q \in [(k + 1 + 1)..(n + 1) -> 1..(Len(rest') + 1)]
    <3>1. ASSUME NEW j \in (k + 2)..(n + 1)
          PROVE  q[j] \in 1..(Len(rest') + 1)
      <4>1. /\ p[j] \in Nat /\ p[j] >= d + 1
            /\ p[j] <= Len(rest) + 1 /\ q[j] = p[j] - d
        BY <2>5
      <4> QED  BY <1>4, <1>10, <1>11, <4>1, SMTT(30)
    <3>2. k + 1 + 1 = k + 2
      BY <1>2, <1>4
    <3> QED  BY <2>3, <3>1, <3>2
  <2>7. ASSUME NEW j \in (k + 2)..n
        PROVE  (SpelledAt(wishes[j], q[j], q[j + 1]))'
    <3>1. j \in (k + 2)..(n + 1) /\ j + 1 \in (k + 2)..(n + 1) /\ j \in (k + 1)..n
      BY <1>2, <1>4
    <3>2. SpelledAt(wishes[j], p[j], p[j + 1])
      BY <1>0, <1>3, <3>1 DEF Spelled
    <3>3. /\ p[j] \in Nat /\ p[j] >= d + 1 /\ q[j] = p[j] - d
          /\ p[j + 1] \in Nat /\ p[j + 1] <= Len(rest) + 1 /\ q[j + 1] = p[j + 1] - d
      BY <2>5, <3>1
    <3>4. \A i \in Nat : i >= d + 1 /\ i < p[j + 1] => rest'[i - d] = rest[i]
      <4> SUFFICES ASSUME NEW i \in Nat, i >= d + 1, i < p[j + 1]
                   PROVE  rest'[i - d] = rest[i]
        OBVIOUS
      <4>1. i - d \in 1..Len(rest') /\ (i - d) + d = i
        BY <1>4, <1>10, <1>11, <3>3, SMTT(30)
      <4>2. rest'[i - d] = rest[(i - d) + d]
        BY <1>11, <4>1
      <4> QED  BY <4>1, <4>2
    <3>5. CASE p[j + 1] = p[j] + 1
      <4>0. p[j] < p[j + 1] /\ p[j] - d = q[j]
        BY <3>3, <3>5
      <4>1. q[j + 1] = q[j] + 1 /\ rest'[q[j]] = rest[p[j]]
        <5>1. rest'[q[j]] = rest[p[j]]
          BY <3>3, <3>4, <4>0
        <5>2. q[j + 1] = q[j] + 1
          BY <1>10, <3>3, <3>5
        <5> QED  BY <5>1, <5>2
      <4> QED  BY <1>1, <3>2, <3>3, <3>5, <4>1, SMTT(30) DEF SpelledAt
    <3>6. CASE p[j + 1] = p[j] + 2
      <4>1. /\ q[j + 1] = q[j] + 2 /\ rest'[q[j]] = rest[p[j]]
            /\ p[j] + 1 \in Nat /\ p[j] + 1 >= d + 1 /\ p[j] + 1 < p[j + 1]
            /\ (p[j] + 1) - d = q[j] + 1
        <5>a. d \in Nat /\ p[j] \in Nat
          BY <1>10, <3>3
        <5>b. p[j] + 1 \in Nat /\ p[j] + 1 >= d + 1
          BY <3>3, <5>a, SMTT(30)
        <5>c. p[j] + 1 < p[j] + 2 /\ p[j] < p[j] + 2
          BY <5>a
        <5>1. /\ p[j] + 1 \in Nat /\ p[j] + 1 >= d + 1 /\ p[j] + 1 < p[j + 1]
              /\ p[j] < p[j + 1]
          BY <3>6, <5>b, <5>c, Zenon
        <5>0. p[j] - d = q[j] /\ q[j + 1] = (p[j] + 2) - d
          <6>1. p[j] - d = q[j] /\ q[j + 1] = p[j + 1] - d
            BY <3>3
          <6> QED  BY <6>1, <3>6, Zenon
        <5>2. (p[j] + 1) - d = q[j] + 1 /\ q[j + 1] = q[j] + 2
          BY <5>0, <5>a, SMTT(30)
        <5>3. rest'[q[j]] = rest[p[j]]
          BY <3>3, <3>4, <5>0, <5>1
        <5> QED  BY <5>1, <5>2, <5>3
      <4>2. rest'[q[j] + 1] = rest[p[j] + 1]
        BY <3>4, <4>1
      <4> QED  BY <1>1, <3>2, <3>3, <3>6, <4>1, <4>2 DEF SpelledAt
    <3> QED  BY <3>2, <3>5, <3>6 DEF SpelledAt
  <2>8. Spelled(k + 1, q)'
    <3>1. Len(wishes') = n /\ k + 1 + 1 = k + 2 /\ exe' = exe
      BY <1>0, <1>1, <1>2, <1>4
    <3>2. q[k + 1 + 1] = 1
      <4>1. k + 2 \in (k + 2)..(n + 1)
        BY <1>2, <1>4, <1>5
      <4> QED  BY <1>10, <2>5, <3>1, <4>1
    <3>3. \A i, j \in (k + 1 + 1)..(n + 1) : i <= j => q[i] <= q[j]
      <4> SUFFICES ASSUME NEW i \in (k + 2)..(n + 1), NEW j \in (k + 2)..(n + 1), i <= j
                   PROVE  q[i] <= q[j]
        BY <3>1
      <4>1. /\ q[i] = p[i] - d /\ q[j] = p[j] - d /\ p[i] \in Nat /\ p[j] \in Nat
            /\ i \in (k + 1)..(n + 1) /\ j \in (k + 1)..(n + 1)
        BY <2>5
      <4>2. p[i] <= p[j]
        BY <2>4, <4>1
      <4> QED  BY <1>10, <4>1, <4>2
    <3>4. \A j \in (k + 1 + 1)..Len(wishes') : (SpelledAt(wishes[j], q[j], q[j + 1]))'
      BY <2>7, <3>1
    <3>5. IF exe' = <<>> THEN Len(rest') = q[n + 1] - 1
          ELSE /\ Len(rest') = q[n + 1] + 1
               /\ rest'[q[n + 1]] = End /\ rest'[q[n + 1] + 1] = Word("exe")
      <4>1. n + 1 \in (k + 2)..(n + 1)
        BY <1>2, <1>4, <1>5
      <4>2. q[n + 1] = p[n + 1] - d /\ p[n + 1] \in Nat /\ p[n + 1] >= d + 1
        BY <2>5, <4>1
      <4>3. CASE exe = <<>>
        <5>1. Len(rest) = p[n + 1] - 1
          BY <1>0, <1>3, <4>3 DEF Spelled
        <5> QED  BY <1>1, <1>10, <1>11, <4>2, <4>3, <5>1, SMTT(30)
      <4>4. CASE exe # <<>>
        <5>1. /\ Len(rest) = p[n + 1] + 1
              /\ rest[p[n + 1]] = End /\ rest[p[n + 1] + 1] = Word("exe")
          BY <1>0, <1>3, <4>4 DEF Spelled
        <5>2. /\ Len(rest') = q[n + 1] + 1
              /\ q[n + 1] \in 1..Len(rest') /\ q[n + 1] + 1 \in 1..Len(rest')
              /\ q[n + 1] + d = p[n + 1] /\ (q[n + 1] + 1) + d = p[n + 1] + 1
          <6>1. Len(rest') = q[n + 1] + 1
            BY <1>10, <1>11, <4>2, <5>1, SMTT(30)
          <6>2. q[n + 1] \in Nat /\ q[n + 1] >= 1
            BY <1>10, <4>2
          <6>3. q[n + 1] + d = p[n + 1] /\ (q[n + 1] + 1) + d = p[n + 1] + 1
            BY <1>10, <4>2, SMTT(30)
          <6> QED  BY <6>1, <6>2, <6>3
        <5>3. rest'[q[n + 1]] = End /\ rest'[q[n + 1] + 1] = Word("exe")
          BY <1>11, <5>1, <5>2
        <5> QED  BY <3>1, <4>4, <5>2, <5>3
      <4> QED  BY <4>3, <4>4
    <3> QED  BY <3>1, <3>2, <3>3, <3>4, <3>5 DEF Spelled
  <2>9. Settled(k + 1)'
    <3>0. w.opt \in Options
      BY <1>8, WishFacts
    <3>1. /\ args' = [o \in Options |-> args'[o]]
          /\ args'[w.opt] = w.means
          /\ \A o \in Options : o # w.opt => args'[o] = args[o]
      BY <1>2, <2>1, <3>0 DEF Settled
    <3>2. \A i \in 1..(k + 1) : i = k + 1 \/ i \in 1..k
      BY <1>2, <1>4
    <3>3. \A i \in 1..(k + 1) : wishes'[i].opt # "h"
      BY <1>1, <1>2, <1>6, <1>13, <3>2 DEF Settled
    <3>4. ASSUME NEW o \in Options
          PROVE  \/ args'[o] = Defaults[o] /\ \A i \in 1..(k + 1) : wishes'[i].opt # o
                 \/ \E i \in 1..(k + 1) :
                      /\ wishes'[i].opt = o /\ args'[o] = wishes'[i].means
                      /\ \A j \in (i + 1)..(k + 1) : wishes'[j].opt # o
      <4>1. CASE o = w.opt
        <5>1. k + 1 \in 1..(k + 1) /\ (k + 1 + 1)..(k + 1) = {}
          BY <1>2, <1>4
        <5>2. wishes'[k + 1].opt = o /\ args'[o] = wishes'[k + 1].means
          BY <1>1, <1>6, <3>1, <4>1
        <5> QED  BY <5>1, <5>2
      <4>2. CASE o # w.opt
        <5>1. args'[o] = args[o] /\ wishes'[k + 1].opt # o
          BY <1>1, <1>6, <3>1, <4>2
        <5>2. CASE args[o] = Defaults[o] /\ \A i \in 1..k : wishes[i].opt # o
          BY <1>1, <3>2, <5>1, <5>2
        <5>3. CASE \E i \in 1..k :
                     /\ wishes[i].opt = o /\ args[o] = wishes[i].means
                     /\ \A j \in (i + 1)..k : wishes[j].opt # o
          <6>1. PICK i \in 1..k :
                  /\ wishes[i].opt = o /\ args[o] = wishes[i].means
                  /\ \A j \in (i + 1)..k : wishes[j].opt # o
            BY <5>3
          <6>2. i \in 1..(k + 1) /\ \A j \in (i + 1)..(k + 1) : j = k + 1 \/ j \in (i + 1)..k
            BY <1>2, <1>4
          <6>3. \A j \in (i + 1)..(k + 1) : wishes'[j].opt # o
            BY <1>1, <5>1, <6>1, <6>2
          <6> QED  BY <1>1, <5>1, <6>1, <6>2, <6>3
        <5> QED  BY <1>2, <5>2, <5>3 DEF Settled
      <4> QED  BY <4>1, <4>2
    <3> QED  BY <3>1, <3>3, <3>4 DEF Settled
  <2>10. k + 1 \in 0..Len(wishes')
    BY <1>0, <1>1, <1>2, <1>4, <1>5
  <2>11. ParsedAsDocumented'
    BY <2>1 DEF ParsedAsDocumented
  <2>12. q \in [(k + 1 + 1)..(Len(wishes') + 1) -> 1..(Len(rest') + 1)]
    BY <1>0, <1>1, <2>6
  <2>13. wishes' \in Seq(Wishes) /\ exe' \in {<<>>, <<Word("exe")>>} /\ nonopts' = <<>>
    BY <1>1
  <2> QED
    BY <1>11, <2>1, <2>2, <2>8, <2>9, <2>10, <2>11, <2>12, <2>13 DEF ParseInv
<1> QED  BY <1>12, <1>13

(* When all the wishes are settled, each variable has what is granted.     *)
LEMMA SettledIsGranted ==
  ASSUME wishes \in Seq(Wishes), Settled(Len(wishes))
  PROVE  args = [o \in Options |-> Granted(o)]
<1>0. Len(wishes) \in Nat /\ DOMAIN wishes = 1..Len(wishes)
  OBVIOUS
<1>1. ASSUME NEW o \in Options
      PROVE  args[o] = Granted(o)
  <2> DEFINE of == {i \in DOMAIN wishes : wishes[i].opt = o}
  <2>1. Granted(o) = IF of = {} THEN Defaults[o]
                     ELSE wishes[CHOOSE i \in of : \A j \in of : j <= i].means
    BY DEF Granted
  <2>2. CASE args[o] = Defaults[o] /\ \A i \in 1..Len(wishes) : wishes[i].opt # o
    <3>1. of = {}
      BY <1>0, <2>2
    <3> QED  BY <2>1, <2>2, <3>1
  <2>3. CASE \E i \in 1..Len(wishes) :
               /\ wishes[i].opt = o /\ args[o] = wishes[i].means
               /\ \A j \in (i + 1)..Len(wishes) : wishes[j].opt # o
    <3>1. PICK m \in 1..Len(wishes) :
            /\ wishes[m].opt = o /\ args[o] = wishes[m].means
            /\ \A j \in (m + 1)..Len(wishes) : wishes[j].opt # o
      BY <2>3
    <3>2. m \in of /\ \A j \in of : j \in 1..Len(wishes)
      BY <1>0, <3>1
    <3>3. \A j \in of : j <= m
      <4> SUFFICES ASSUME NEW j \in of, ~(j <= m)  PROVE FALSE
        OBVIOUS
      <4>1. j \in (m + 1)..Len(wishes)
        BY <1>0, <3>1, <3>2
      <4> QED  BY <3>1, <4>1
    <3> HIDE DEF of
    <3>4. PICK c : c = CHOOSE i \in of : \A j \in of : j <= i
      OBVIOUS
    <3>5. c \in of /\ \A j \in of : j <= c
      BY <3>2, <3>3, <3>4
    <3>6. c = m
      <4>1. c <= m /\ m <= c /\ c \in 1..Len(wishes) /\ m \in 1..Len(wishes)
        BY <3>1, <3>2, <3>3, <3>5
      <4> QED  BY <1>0, <4>1
    <3> QED  BY <2>1, <3>1, <3>2, <3>4, <3>6
  <2> QED  BY <1>0, <2>2, <2>3 DEF Settled
<1> QED  BY <1>1 DEF Settled

(* getopt_long has reached "--" or the end of argv.                        *)
LEMMA EndStep ==
  ASSUME ParseInv, EndOptions
  PROVE  ParseInv'
<1>1. /\ wishes \in Seq(Wishes) /\ rest \in Seq(Elements)
      /\ exe \in {<<>>, <<Word("exe")>>} /\ nonopts = <<>> /\ last # End
      /\ UNCHANGED <<wishes, exe, args>>
  BY DEF ParseInv, EndOptions
<1>2. PICK k \in 0..Len(wishes) : Settled(k) /\
        \E p \in [(k + 1)..(Len(wishes) + 1) -> 1..(Len(rest) + 1)] : Spelled(k, p)
  BY DEF ParseInv, EndOptions
<1>3. PICK p \in [(k + 1)..(Len(wishes) + 1) -> 1..(Len(rest) + 1)] : Spelled(k, p)
  BY <1>2
<1>4. k = Len(wishes)
  <2> SUFFICES ASSUME k # Len(wishes)  PROVE FALSE
    OBVIOUS
  <2>1. k < Len(wishes)
    BY <1>1, <1>2
  <2>2. rest # <<>> /\ rest[1].form \in {"short", "long"}
    BY <1>1, <1>3, <2>1, HeadOfRest
  <2>3. rest[1] = End
    BY <1>1, <2>2 DEF EndOptions
  <2> QED  BY <2>2, <2>3 DEF End, Option
<1>5. IF exe = <<>> THEN rest = <<>>
      ELSE Len(rest) = 2 /\ rest[1] = End /\ rest[2] = Word("exe")
  BY <1>1, <1>3, <1>4, HeadOfRest
<1>6. \A i \in DOMAIN wishes' : wishes'[i].opt # "h"
  BY <1>1, <1>2, <1>4 DEF Settled
<1>7. CASE exe = <<>>
  <2>1. main' = "failure" /\ exe' = <<>>
    BY <1>1, <1>5, <1>7 DEF EndOptions
  <2> QED  BY <1>6, <2>1 DEF ParseInv, ParsedAsDocumented
<1>8. CASE exe # <<>>
  <2>0. rest # <<>> /\ exe = <<Word("exe")>> /\ Word("exe") \in Elements
    BY <1>1, <1>5, <1>8 DEF Word, Option, Elements
  <2>1. /\ Tail(rest) \in Seq(Elements) /\ Len(Tail(rest)) = 1
        /\ Tail(rest)[1] = Word("exe")
    <3>1. Tail(rest) \in Seq(Elements) /\ Len(Tail(rest)) = Len(rest) - 1
      BY <1>1, <2>0, HeadTailProperties
    <3>2. \A i \in 1..Len(Tail(rest)) : Tail(rest)[i] = rest[i + 1]
      BY <1>1, <2>0, HeadTailProperties
    <3>3. Len(Tail(rest)) = 1 /\ 1 \in 1..Len(Tail(rest))
      BY <1>5, <1>8, <3>1
    <3>4. Tail(rest)[1] = rest[1 + 1]
      BY <3>2, <3>3
    <3>5. rest[1 + 1] = Word("exe")
      BY <1>5, <1>8
    <3> QED  BY <3>1, <3>3, <3>4, <3>5
  <2>2. Tail(rest) = exe
    <3>1. exe \in Seq(Elements) /\ Len(exe) = 1 /\ exe[1] = Word("exe")
      BY <2>0
    <3>2. \A i \in 1..Len(exe) : exe[i] = Tail(rest)[i]
      <4>1. \A i \in 1..Len(exe) : i = 1
        BY <3>1
      <4> QED  BY <2>1, <3>1, <4>1, Zenon
    <3> QED  BY <2>1, <3>1, <3>2, SeqEqual
  <2>3. nonopts \o Tail(rest) = exe
    BY <1>1, <2>1, <2>2, ConcatEmptySeq
  <2>4. last' = End /\ tracee' = exe
    BY <2>0, <2>3 DEF EndOptions
  <2>5. main' = "parsed"
    BY <1>8, <2>4 DEF EndOptions
  <2>6. args = [o \in Options |-> Granted(o)]
    BY <1>1, <1>2, <1>4, SettledIsGranted
  <2>7. args' = [o \in Options |-> Granted(o)']
    BY <1>1, <2>6 DEF Granted
  <2> QED  BY <1>1, <1>6, <1>8, <2>4, <2>5, <2>7 DEF ParseInv, ParsedAsDocumented
<1> QED  BY <1>7, <1>8

(* Every word of a wish is taken with its option.                          *)
LEMMA NothingSkipped ==
  ASSUME ParseInv
  PROVE  ~SkipWord
<1> SUFFICES ASSUME SkipWord  PROVE FALSE
  OBVIOUS
<1>1. /\ wishes \in Seq(Wishes) /\ rest \in Seq(Elements)
      /\ rest # <<>> /\ rest[1].form = "word"
  BY DEF ParseInv, SkipWord
<1>2. PICK k \in 0..Len(wishes) :
        \E p \in [(k + 1)..(Len(wishes) + 1) -> 1..(Len(rest) + 1)] : Spelled(k, p)
  BY DEF ParseInv, SkipWord
<1>3. PICK p \in [(k + 1)..(Len(wishes) + 1) -> 1..(Len(rest) + 1)] : Spelled(k, p)
  BY <1>2
<1>4. k < Len(wishes) \/ k = Len(wishes)
  BY <1>1, <1>2
<1>5. rest[1].form \in {"short", "long"} \/ rest[1] = End
  BY <1>1, <1>3, <1>4, HeadOfRest
<1> QED  BY <1>1, <1>5 DEF End, Option

----------------------------------------------------------------------------
(* The theorem.                                                            *)

LEMMA ParseStep ==
  ASSUME ShortForms \subseteq SoundLetters, ParseInv, Next
  PROVE  ParseInv'
<1>1. CASE Write
  <2>1. ASSUME main' = main, exe' = exe,
               NEW w \in Wishes, NEW s \in Spellings(w),
               wishes' = Append(wishes, w) /\ rest' = rest \o s
        PROVE  ParseInv'
    BY <1>1, <2>1, AddsWish DEF Write
  <2>2. CASE /\ exe' \in {<<>>, <<Word("exe")>>}
             /\ rest' = IF exe' = <<>> THEN rest ELSE rest \o <<End>> \o exe'
             /\ main' = IF Len(rest') < 2 THEN "usage" ELSE "parse"
             /\ UNCHANGED wishes
    BY <1>1, <2>2, AddsProgram DEF Write
  <2> QED  BY <1>1, <2>1, <2>2 DEF Write
<1>2. CASE ParseArgs
  BY <1>1, <1>2, TakeStep, EndStep, NothingSkipped DEF ParseArgs, Parse
<1>3. CASE Fork
  <2>1. main' \in {"cpu", "fork_failed"}
    BY <1>3 DEF Fork
  <2> QED  BY <2>1 DEF ParseInv, ParsedAsDocumented
<1>4. CASE CpuGiven \/ ReadTopology \/ GetPreferredCpu \/ FallBack
  <2>1. main' \in {"udmabuf", "preferred", "free"}
    BY <1>4 DEF CpuGiven, ReadTopology, GetPreferredCpu, FallBack
  <2> QED  BY <2>1 DEF ParseInv, ParsedAsDocumented
<1>5. CASE \/ GetUdmabufInfo \/ GetKsightInfo \/ OpenMapsFails \/ ReadMapsLine
           \/ EndOfMaps \/ SetupNamedBoard \/ CreateFetcher \/ SetReady
  <2>1. main' \in {"ksight", "maps", "board", "create", "ready", "returned"}
    BY <1>5 DEF GetUdmabufInfo, GetKsightInfo, OpenMapsFails, ReadMapsLine,
                EndOfMaps, SetupNamedBoard, CreateFetcher, SetReady, InitFails
  <2> QED  BY <2>1 DEF ParseInv, ParsedAsDocumented
<1>6. CASE Terminated
  BY <1>6 DEF Terminated, vars, cmdVars, ParseInv, ParsedAsDocumented, Granted
<1> QED  BY <1>2, <1>3, <1>4, <1>5, <1>6 DEF Next

LEMMA InitParse == Init => ParseInv
<1> SUFFICES ASSUME Init  PROVE ParseInv
  OBVIOUS
<1>1. /\ main = "write" /\ wishes = <<>> /\ exe = <<>> /\ rest = <<>>
      /\ nonopts = <<>> /\ last = Word("cs-trace") /\ args = Defaults
  BY DEF Init, CmdInit
<1>2. last # End
  BY <1>1 DEF Word, End, Option
<1>3. wishes \in Seq(Wishes) /\ rest \in Seq(Elements) /\ Len(wishes) = 0 /\ Len(rest) = 0
  BY <1>1
<1>4. Settled(0)
  <2>1. Defaults = [o \in Options |-> Defaults[o]]
    BY DEF Defaults, Options
  <2> QED  BY <1>1, <2>1 DEF Settled
<1>5. PICK p : p = [j \in (0 + 1)..(Len(wishes) + 1) |-> 1]
  OBVIOUS
<1>6. p \in [(0 + 1)..(Len(wishes) + 1) -> 1..(Len(rest) + 1)] /\ Spelled(0, p)
  BY <1>1, <1>3, <1>5 DEF Spelled
<1>7. ParsedAsDocumented
  BY <1>1 DEF ParsedAsDocumented
<1>8. 0 \in 0..Len(wishes)
  BY <1>3
<1>9. exe \in {<<>>, <<Word("exe")>>}
  BY <1>1
<1>10. \E k \in 0..Len(wishes) :
         /\ main = "write" => k = 0
         /\ Settled(k)
         /\ \E q \in [(k + 1)..(Len(wishes) + 1) -> 1..(Len(rest) + 1)] : Spelled(k, q)
  BY <1>4, <1>6, <1>8, Zenon
<1> QED  BY <1>1, <1>2, <1>3, <1>7, <1>9, <1>10, Zenon DEF ParseInv

(* Whatever options are given, how many and in which order, main() does    *)
(* what usage() says of them, if the user writes -b, -c, -v and -h only    *)
(* with one letter: for the others the option string "b:c:e:f:k:v::h"      *)
(* disagrees with long_options.                                            *)
THEOREM ParsesAsDocumented ==
  ASSUME ShortForms \subseteq SoundLetters
  PROVE  Spec => []ParsedAsDocumented
<1>1. ParseInv /\ [Next]_vars => ParseInv'
  <2>1. ASSUME ParseInv, UNCHANGED vars
        PROVE  ParseInv'
    <3>1. /\ main' = main /\ wishes' = wishes /\ exe' = exe /\ rest' = rest
          /\ nonopts' = nonopts /\ last' = last /\ args' = args /\ tracee' = tracee
      BY <2>1 DEF vars, cmdVars
    <3>2. ParsedAsDocumented'
      <4>1. ParsedAsDocumented
        BY <2>1 DEF ParseInv
      <4>2. \A o : Granted(o)' = Granted(o)
        BY <3>1 DEF Granted
      <4> QED  BY <3>1, <4>1, <4>2 DEF ParsedAsDocumented
    <3>3. main \in {"write", "parse"} =>
            (\E k \in 0..Len(wishes) :
               /\ main = "write" => k = 0
               /\ Settled(k)
               /\ \E p \in [(k + 1)..(Len(wishes) + 1) -> 1..(Len(rest) + 1)] : Spelled(k, p))'
      <4>1. \A k : Settled(k)' <=> Settled(k)
        BY <3>1 DEF Settled
      <4>2. \A k, p : Spelled(k, p)' <=> Spelled(k, p)
        BY <3>1 DEF Spelled, SpelledAt
      <4> QED  BY <2>1, <3>1, <4>1, <4>2, Zenon DEF ParseInv
    <3> QED  BY <2>1, <3>1, <3>2, <3>3, Zenon DEF ParseInv
  <2> QED  BY <2>1, ParseStep
<1>2. ParseInv => ParsedAsDocumented
  BY DEF ParseInv
<1> QED  BY <1>1, <1>2, InitParse, PTL DEF Spec
============================================================================
