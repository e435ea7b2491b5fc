---------------------------- MODULE CommandLine -----------------------------
(***************************************************************************)
(* main() of src/cs-trace.c up to the fork: the loop around getopt_long,   *)
(* which takes one element of argv at a time, skips the elements that are  *)
(* no options and, when it has reached "--" or the end, leaves these       *)
(* behind the options (it permutes argv).                                  *)
(*                                                                         *)
(* The user has wishes, in terms of the options that usage() lists, and    *)
(* spells each in one of the two forms given there.                        *)
(***************************************************************************)
EXTENDS Integers, Sequences

CONSTANTS
  ShortForms,     \* the options that the user may write with one letter
  MaxWishes       \* bound: options on the command line

Options == {"b", "c", "e", "f", "u", "k", "v", "h"}

ASSUME CommandAssumption == ShortForms \subseteq Options /\ MaxWishes \in Nat

VARIABLES
  wishes, exe,    \* what the user wants: options, and a program or none
  rest,           \* argv from the element that getopt_long is at
  nonopts,        \* the elements that it has skipped
  last,           \* the last element that it has taken: argv[optind - 1]
  args,           \* the variables that the options set, by option
  tracee,         \* argv from optind, when the loop has ended
  main            \* "parse", "parsed", "usage", "failure", or a later step

cmdVars == <<wishes, exe, rest, nonopts, last, args, tracee>>

----------------------------------------------------------------------------
(* Elements of argv: an option in one of its forms, perhaps with a value   *)
(* after "=", a word, or "--".                                             *)
Option(form, opt, val) == [form |-> form, opt |-> opt, val |-> val]
Word(w) == Option("word", "none", w)
End     == Option("end", "none", "none")

(* atoi on the words that occur.                                           *)
Atoi(w) == IF w = "1" THEN 1 ELSE IF w = "2" THEN 2 ELSE 0

(* usage(): options with a value, and what each wish asks for.             *)
Wishes ==
  {[opt |-> "b", val |-> "ZYNQ7000", means |-> "ZYNQ7000"],
   [opt |-> "b", val |-> "other", means |-> "other"],
   [opt |-> "c", val |-> "1", means |-> 1],
   [opt |-> "c", val |-> "2", means |-> 2],
   [opt |-> "e", val |-> "none", means |-> TRUE],
   [opt |-> "f", val |-> "none", means |-> TRUE],
   [opt |-> "u", val |-> "1", means |-> 1],
   [opt |-> "k", val |-> "none", means |-> TRUE],
   [opt |-> "v", val |-> "none", means |-> 1],
   [opt |-> "v", val |-> "2", means |-> 2],
   [opt |-> "h", val |-> "none", means |-> TRUE]}

(* "-c INT" or "--cpu=INT"; "-vINT", as the value of -v is optional.       *)
Spellings(w) ==
  {<<Option("long", w.opt, w.val)>>} \cup
  IF w.opt \notin ShortForms THEN {}
  ELSE IF w.opt = "v" \/ w.val = "none" THEN {<<Option("short", w.opt, w.val)>>}
  ELSE {<<Option("short", w.opt, "none"), Word(w.val)>>}

(* The defaults: board_name, trace_cpu, export_config, fetcher_on,         *)
(* udmabuf_num, ksight_on and registration_verbose. -h only shows usage(). *)
Defaults ==
  [b |-> "ZCU104", c |-> -1, e |-> FALSE, f |-> FALSE, u |-> 0, k |-> FALSE,
   v |-> 0, h |-> FALSE]

CmdInit ==
  /\ main = "write"
  /\ wishes = <<>> /\ exe = <<>>
  /\ rest = <<>> /\ nonopts = <<>> /\ last = Word("cs-trace")
  /\ args = Defaults /\ tracee = <<>>

(* The user adds options, then "--" and the program, or neither. With less *)
(* than 3 elements, argv[0] included, main() shows usage().                *)
Write ==
  /\ main = "write"
  /\ \/ /\ Len(wishes) < MaxWishes
        /\ \E w \in Wishes : \E s \in Spellings(w) :
             wishes' = Append(wishes, w) /\ rest' = rest \o s
        /\ UNCHANGED <<main, exe>>
     \/ /\ exe' \in {<<>>, <<Word("exe")>>}
        /\ rest' = IF exe' = <<>> THEN rest ELSE rest \o <<End>> \o exe'
        /\ main' = IF Len(rest') < 2 THEN "usage" ELSE "parse"
        /\ UNCHANGED wishes
  /\ UNCHANGED <<nonopts, last, args, tracee>>

----------------------------------------------------------------------------
(* The option string "b:c:e:f:k:v::h" and long_options: what follows each  *)
(* option.                                                                 *)
ShortOptions ==
  [b |-> "required", c |-> "required", e |-> "required", f |-> "required",
   k |-> "required", v |-> "optional", h |-> "no", u |-> "unknown"]

(* Mutant: no_argument for --cpu.                                          *)
LongOptionsBareCpu ==
  [b |-> "required", c |-> "no", e |-> "no", f |-> "no",
   k |-> "no", v |-> "optional", h |-> "no", u |-> "required"]

LongOptions ==
  [b |-> "required", c |-> "required", e |-> "no", f |-> "no",
   k |-> "no", v |-> "optional", h |-> "no", u |-> "required"]

Follows(t) == IF t.form = "short" THEN ShortOptions[t.opt] ELSE LongOptions[t.opt]

(* The switch: the value that an option gives its variable.                *)
Setting(opt, optarg) ==
  IF opt = "b" THEN optarg
  ELSE IF opt \in {"c", "u"} THEN Atoi(optarg)
  ELSE IF opt = "v" THEN (IF optarg = "none" THEN 1 ELSE Atoi(optarg))
  ELSE TRUE

(* getopt_long takes an option. A required argument is the text after "=", *)
(* else the next element of argv, whatever it is. An option that is        *)
(* unknown, lacks its argument or has one it must not have is '?', which   *)
(* the switch ignores.                                                     *)
TakeOption ==
  /\ main = "parse" /\ rest # <<>> /\ Head(rest).form \in {"short", "long"}
  /\ LET t     == Head(rest)
         takes == Follows(t)
         next  == takes = "required" /\ t.val = "none"
         bad   == \/ takes = "unknown"
                  \/ next /\ Len(rest) = 1
                  \/ takes = "no" /\ t.val # "none"
         n     == IF next /\ Len(rest) > 1 THEN 2 ELSE 1
     IN /\ last' = rest[n]
        /\ rest' = SubSeq(rest, n + 1, Len(rest))
        /\ args' = IF bad \/ t.opt = "h" THEN args
                   ELSE [args EXCEPT ![t.opt] = Setting(t.opt, rest[n].val)]
        /\ main' = IF t.opt = "h" /\ ~bad THEN "usage" ELSE main
  /\ UNCHANGED <<wishes, exe, nonopts, tracee>>

(* It skips an element that is no option.                                  *)
SkipWord ==
  /\ main = "parse" /\ rest # <<>> /\ Head(rest).form = "word"
  /\ nonopts' = Append(nonopts, Head(rest)) /\ rest' = Tail(rest)
  /\ UNCHANGED <<wishes, exe, last, args, tracee, main>>

(* It returns -1 at "--", or at the end. What it has skipped is now        *)
(* between the options and the rest. main() wants "--" right before, and a *)
(* program.                                                                *)
EndOptions ==
  /\ main = "parse" /\ (rest # <<>> => Head(rest) = End)
  /\ last' = IF rest = <<>> THEN last ELSE End
  /\ tracee' = nonopts \o (IF rest = <<>> THEN <<>> ELSE Tail(rest))
  /\ main' = IF last' = End /\ tracee' # <<>> THEN "parsed" ELSE "failure"
  /\ UNCHANGED <<wishes, exe, rest, nonopts, args>>

Parse == Write \/ TakeOption \/ SkipWord \/ EndOptions

----------------------------------------------------------------------------
(* The last wish for an option counts.                                     *)
Granted(o) ==
  LET of == {i \in DOMAIN wishes : wishes[i].opt = o} IN
  IF of = {} THEN Defaults[o]
  ELSE wishes[CHOOSE i \in of : \A j \in of : j <= i].means

(* Whatever options are given, in whatever order, main() does what usage() *)
(* says of them: --help shows it, and so does a command line without a     *)
(* program; otherwise each variable has the value asked for and the        *)
(* program traced is the one after "--".                                   *)
ParsedAsDocumented ==
  main \in {"parsed", "usage", "failure"} =>
    IF \E i \in DOMAIN wishes : wishes[i].opt = "h" THEN main = "usage"
    ELSE IF exe = <<>> THEN main \in {"usage", "failure"}
    ELSE /\ main = "parsed"
         /\ args = [o \in Options |-> Granted(o)]
         /\ tracee = exe
============================================================================
