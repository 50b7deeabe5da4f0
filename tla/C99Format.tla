----------------------------- MODULE C99Format -----------------------------
(***************************************************************************)
(* The arguments of printf and scanf called by an SPE program              *)
(* (src/spebase/default_c99_handler.c).  The handler walks the format in   *)
(* the local store, fetches each argument from where the SPU ABI left it,  *)
(* registers first and then the stack of the caller, and builds the list   *)
(* that the C library of the PPE takes for the same format.                *)
(*                                                                         *)
(* A format is a sequence of directives; the text between them and the     *)
(* digits of a width are nothing to the handler.  A conversion stands for  *)
(* those that share a case of its switch: "d" for d and i, "u" for o, u, x *)
(* and X, "f" for all of floating point.  "[" is a closed character set    *)
(* and "[?" one without its "]".  An argument is named by its place in the *)
(* call, and addresses count from the first of them.                       *)
(***************************************************************************)
EXTENDS Integers, Sequences, FiniteSets, SequencesExt, PpeAbi

CONSTANTS
  RegArgs,          \* variable arguments the SPE program passed in registers
  PrintfDirectives, \* what a format of each kind is made of
  ScanfDirectives,
  MaxLength         \* bound: directives of a format

ASSUME FormatAssumption == RegArgs \in Nat \ {0} /\ MaxLength \in Nat

\* The length modifiers that ISO C allows a conversion, "t" being passed as "z" is.
Lengths(conv) ==
  CASE conv \in {"d", "u", "n"} -> {"", "h", "l", "ll", "j", "z"}
    [] conv = "f"               -> {"", "l", "L"}
    [] conv \in {"c", "s"}      -> {"", "l"}
    [] OTHER                    -> {""}

Directive ==
  {d \in [conv : {"d", "u", "f", "c", "p", "s", "n", "%", "[", "[?"},
          len : {"", "h", "l", "ll", "j", "z", "L"}, width : {"", "*"}, prec : {"", "*"},
          suppress : BOOLEAN] : d.len \in Lengths(d.conv)}

ASSUME DirectiveAssumption ==
  /\ PrintfDirectives \subseteq {d \in Directive : d.conv \notin {"[", "[?"}}
  /\ ScanfDirectives \subseteq Directive

VARIABLES
  op, format,        \* of this call
  phase,             \* of the handler
  stored,            \* history: the last argument the library stored through
  pos, nr_vargs,     \* of the parser: directives seen, directives it may see
  allocated,         \* entries asked of alloca
  args,              \* [next_arg, vlist, vtemps]
  object             \* what each argument of the SPE program points to

call == <<abi, op, format>>
format_vars == <<call, phase, stored, pos, nr_vargs, allocated, args, object>>

MaxArgs == 3 * MaxLength
Word == abi \div 8

FormatsOf(directives) == UNION {[1 .. n -> directives] : n \in 0 .. MaxLength}

FormatInit ==
  /\ abi \in Abis
  /\ \/ op = "printf" /\ format \in FormatsOf(PrintfDirectives)
     \/ op = "scanf" /\ format \in FormatsOf(ScanfDirectives)
  /\ phase = "count" /\ stored = 0
  /\ pos = 0 /\ nr_vargs = 0 /\ allocated = 0
  /\ args = [next_arg |-> 0, vlist |-> <<>>, vtemps |-> <<>>]
  /\ object = [k \in 1 .. MaxArgs |-> "old"]

-----------------------------------------------------------------------------
(* Arguments of the SPE program *)

\* SPU ABI: each argument has 16 bytes; above those stored from registers lie
\* the two quadwords of the frame that caller_stack points to.
caller_stack == 16 * RegArgs
ArgAddress(k) == 16 * (k - 1) + (IF k > RegArgs THEN 32 ELSE 0)

\* What is stored at an address, 0 if that is no argument.
ArgAt(address) ==
  IF \E k \in 1 .. MaxArgs : ArgAddress(k) = address
    THEN CHOOSE k \in 1 .. MaxArgs : ArgAddress(k) = address ELSE 0

\* Mutation: the frame header is taken for arguments.
GET_LS_VARG_NoSkip(next_arg) == next_arg + 16

GET_LS_VARG(next_arg) ==
  next_arg + 16 + (IF next_arg + 16 = caller_stack THEN 32 ELSE 0)

-----------------------------------------------------------------------------
(* The list for the C library *)

End(vlist) == IF vlist = <<>> THEN 0 ELSE Last(vlist).off + Last(vlist).size

\* 64 bits: at the end of an 8-byte element.  32 bits: aligned to its size.
Place(end, size) ==
  IF abi = 64 THEN end + 8 - size ELSE ((end + size - 1) \div size) * size

\* as: the same bits, "sign" or "zero" extended, a pointer into the local store
\* ("ls"), or the address of entry `temp' of vtemps
VA_LIST_PUT(vlist, size, arg, as, temp) ==
  Append(vlist, [off |-> Place(End(vlist), size), size |-> size, arg |-> arg,
                 as |-> as, temp |-> temp])

Pass(a, size, as) ==
  [a EXCEPT !.next_arg = GET_LS_VARG(@),
            !.vlist = VA_LIST_PUT(@, size, ArgAt(a.next_arg), as, 0)]

\* Mutation: vtemps does not advance.
PassTemp_Reuses(a) ==
  [a EXCEPT !.next_arg = GET_LS_VARG(@),
            !.vlist = VA_LIST_PUT(@, Word, ArgAt(a.next_arg), "temp", 1),
            !.vtemps = <<[ptr |-> ArgAt(a.next_arg), llval |-> "garbage"]>>]

\* The library gets the address of a long; what it stores is copied later.
PassTemp(a) ==
  [a EXCEPT !.next_arg = GET_LS_VARG(@),
            !.vlist = VA_LIST_PUT(@, Word, ArgAt(a.next_arg), "temp", Len(a.vtemps) + 1),
            !.vtemps = Append(@, [ptr |-> ArgAt(a.next_arg), llval |-> "garbage"])]

PassPointer(a) == Pass(a, Word, "ls")
Widened(how) == IF abi = 64 THEN how ELSE "same"

-----------------------------------------------------------------------------
(* Parsing *)

format_long(d) ==
  CASE d.len \in {"ll", "j"} -> 2
    [] d.len \in {"l", "z"}  -> 1
    [] OTHER                 -> 0

\* "L" is no modifier to the handler and so meets the switch itself.
Conversion(d) == IF d.len = "L" THEN "L" ELSE d.conv

SKIP_FIELD_WIDTH(d, a) == IF d.width = "*" THEN Pass(a, 4, "same") ELSE a
SKIP_PRECISION(d, a) == IF d.prec = "*" THEN Pass(a, 4, "same") ELSE a

PrintfArgument(d, a) ==
  LET c == Conversion(d)
      long == abi = 64 /\ format_long(d) = 1
  IN CASE c \in {"d", "u"} /\ format_long(d) = 2 -> Pass(a, 8, "same")
       [] c = "d" /\ long                        -> Pass(a, 8, "sign")
       [] c = "u" /\ long                        -> Pass(a, 8, "zero")
       [] c \in {"d", "u"} /\ ~long /\ format_long(d) # 2 -> Pass(a, 4, "same")
       [] c = "c"                                -> Pass(a, 4, "same")
       [] c = "f"                                -> Pass(a, 8, "same")
       [] c = "p"                                -> Pass(a, Word, Widened("zero"))
       [] c = "s"                                -> PassPointer(a)
       [] c = "n"                                -> IF long THEN PassTemp(a) ELSE PassPointer(a)
       [] OTHER                                  -> a

ScanfArgument(d, a) ==
  LET c == Conversion(d)
      temp == abi = 64 /\ (c = "p" \/ (c \in {"d", "u", "n"} /\ format_long(d) = 1))
  IN CASE d.suppress                                      -> a
       [] ~d.suppress /\ c \in {"d", "u", "n", "f", "c", "s", "p", "["} ->
            IF temp THEN PassTemp(a) ELSE PassPointer(a)
       [] OTHER                                           -> a

\* One for each directive, and another one for "%%".
Percents == Len(format) + Cardinality({i \in DOMAIN format : format[i].conv = "%"})

\* Mutation: no room for the widths and precisions.
nr_format_args_One == Percents

\* __nr_format_args: three for every "%" of the format.
nr_format_args == 3 * Percents

CountArgs ==
  /\ phase = "count"
  /\ nr_vargs' = nr_format_args
  /\ allocated' = nr_format_args
  /\ phase' = "parse"
  /\ UNCHANGED <<call, stored, pos, args, object>>

Parsing == phase = "parse" /\ nr_vargs > 0 /\ pos < Len(format)
d0 == format[pos + 1]

Parsed(a) ==
  /\ args' = a
  /\ pos' = pos + 1 /\ nr_vargs' = nr_vargs - 1
  /\ UNCHANGED <<call, phase, stored, allocated, object>>

ParsePrintf ==
  /\ Parsing /\ op = "printf"
  /\ Parsed(PrintfArgument(d0, SKIP_PRECISION(d0, SKIP_FIELD_WIDTH(d0, args))))

ParseScanf ==
  /\ Parsing /\ op = "scanf" /\ Conversion(d0) # "[?"
  /\ Parsed(ScanfArgument(d0, args))

\* SKIP_CHAR_SET finds no "]": the library is not called.
ParseFails ==
  /\ Parsing /\ op = "scanf" /\ Conversion(d0) = "[?"
  /\ phase' = "done"
  /\ UNCHANGED <<call, stored, pos, nr_vargs, allocated, args, object>>

ParseEnd ==
  /\ phase = "parse" /\ ~Parsing
  /\ phase' = "call"
  /\ UNCHANGED <<call, stored, pos, nr_vargs, allocated, args, object>>

-----------------------------------------------------------------------------
(* What the C library takes for the format (ISO C 7.19.6) *)

IntType(len) ==
  CASE len \in {"", "h"} -> "int"
    [] len = "l"         -> "long"
    [] len = "ll"        -> "long long"
    [] len = "j"         -> "intmax_t"
    [] len = "z"         -> "size_t"

FloatType(len) == CASE len = "" -> "float" [] len = "l" -> "double" [] len = "L" -> "long double"

Size(width, type) ==
  CASE type = "char"                               -> 1
    [] type = "short"                              -> 2
    [] type \in {"int", "float"}                   -> 4
    [] type \in {"long", "size_t", "pointer"}      -> width \div 8
    [] type \in {"long long", "intmax_t", "double"} -> 8
    [] type = "long double"                        -> 16

\* SPE programs have 32-bit longs and pointers, and no longer double.
SpeSize(type) == IF type = "long double" THEN 8 ELSE Size(32, type)

SameSize(type) == Size(abi, type) = SpeSize(type)

\* A value, widened if it is longer on the PPE, and the address of an object the
\* library stores to.
Value(type, widened) ==
  <<[size |-> Size(abi, type), as |-> IF SameSize(type) THEN "same" ELSE widened, stores |-> FALSE]>>
Object(type) ==
  <<[size |-> Word, as |-> IF SameSize(type) THEN "ls" ELSE "temp", stores |-> TRUE]>>

Star(field) == IF field = "*" THEN Value("int", "sign") ELSE <<>>

PrintfConverts(d) ==
  CASE d.conv = "d" -> Value(IntType(d.len), "sign")
    [] d.conv = "u" -> Value(IntType(d.len), "zero")
    [] d.conv = "c" -> Value("int", "sign")
    [] d.conv = "f" -> Value(IF d.len = "L" THEN "long double" ELSE "double", "sign")
    [] d.conv = "p" -> Value("pointer", "zero")
    [] d.conv = "s" -> <<[size |-> Word, as |-> "ls", stores |-> FALSE]>>
    [] d.conv = "n" -> Object(IF d.len = "h" THEN "short" ELSE IntType(d.len))
    [] d.conv = "%" -> <<>>

PrintfTakes(d) == Star(d.width) \o Star(d.prec) \o PrintfConverts(d)

ScanfTakes(d) ==
  CASE d.suppress \/ d.conv \in {"%", "[?"}           -> <<>>
    [] ~d.suppress /\ d.conv \in {"d", "u", "n"}      ->
         Object(IF d.len = "h" THEN "short" ELSE IntType(d.len))
    [] ~d.suppress /\ d.conv = "f"                    -> Object(FloatType(d.len))
    [] ~d.suppress /\ d.conv = "p"                    -> Object("pointer")
    [] ~d.suppress /\ d.conv \in {"c", "s", "["}      -> Object("char")

TakesOf(d) == IF op = "printf" THEN PrintfTakes(d) ELSE ScanfTakes(d)

\* For the first i directives, and for the format.
TakesTo[i \in 0 .. Len(format)] ==
  IF i = 0 THEN <<>> ELSE TakesTo[i - 1] \o TakesOf(format[i])

Takes == TakesTo[Len(format)]

-----------------------------------------------------------------------------
(* The library call and the copy of the temporaries *)

\* The objects of the format, as the arguments that point to them.
Objects == {k \in DOMAIN Takes : Takes[k].stores}

\* The library stores through those of the first n arguments, then an input does
\* not match, ends, or fails.
Library(n) ==
  LET through == {args.vlist[k] : k \in {j \in Objects : j <= n} \cap DOMAIN args.vlist}
  IN /\ phase = "call" /\ n \in {0} \cup Objects
     /\ object' = [k \in DOMAIN object |->
                     IF \E e \in through : e.as = "ls" /\ e.arg = k THEN "new" ELSE object[k]]
     /\ args' = [args EXCEPT !.vtemps = [i \in DOMAIN @ |->
                     IF \E e \in through : e.temp = i THEN [@[i] EXCEPT !.llval = "new"] ELSE @[i]]]
     /\ phase' = "copy" /\ stored' = n
     /\ UNCHANGED <<call, pos, nr_vargs, allocated>>

\* __copy_va_temp walks the entries up to the NULL the parser put behind them.
Copy ==
  /\ phase = "copy"
  /\ object' = [k \in DOMAIN object |->
                  IF \E i \in DOMAIN args.vtemps : args.vtemps[i].ptr = k
                    THEN (CHOOSE t \in Range(args.vtemps) : t.ptr = k).llval ELSE object[k]]
  /\ phase' = "done"
  /\ UNCHANGED <<call, stored, pos, nr_vargs, allocated, args>>

FormatNext ==
  \/ CountArgs \/ ParsePrintf \/ ParseScanf \/ ParseFails \/ ParseEnd \/ Copy
  \/ \E n \in 0 .. MaxArgs : Library(n)

FormatSpec == FormatInit /\ [][FormatNext]_format_vars

-----------------------------------------------------------------------------
(* Properties *)

\* Every variable has its type.
FormatTypeOK ==
  /\ abi \in Abis /\ op \in {"printf", "scanf"}
  /\ phase \in {"count", "parse", "call", "copy", "done"}
  /\ stored \in 0 .. MaxArgs
  /\ pos \in 0 .. Len(format) /\ nr_vargs \in Nat /\ allocated \in Nat
  /\ args.next_arg \in Nat
  /\ object \in [1 .. MaxArgs -> {"old", "new", "garbage"}]

Entry(k) == args.vlist[k]
LongDoubles == \E i \in DOMAIN format : format[i].len = "L"

\* The list is the one the C library takes for the format, entry by entry: the
\* width, the place and the extension of each, taken from the argument that the
\* SPE program passed for it, whichever side of the caller's frame it lies on.
Passed ==
  /\ Len(args.vlist) = Len(Takes)
  /\ \A k \in DOMAIN Takes :
       /\ Entry(k).arg = k
       /\ Entry(k).size = Takes[k].size /\ Entry(k).as = Takes[k].as
       /\ Entry(k).off = Place(IF k = 1 THEN 0 ELSE Entry(k - 1).off + Entry(k - 1).size, Takes[k].size)

ArgumentsPassed == phase = "call" /\ ~LongDoubles => Passed

\* "Loosely estimate of the number of format arguments ... Multiply the return
\* value by 3 in order to account for variable format width or precision": what
\* the parser writes lies within what was allocated from that estimate.
FitsAllocated ==
  phase # "count" =>
    End(args.vlist) <= 8 * (allocated + 1) /\ Len(args.vtemps) <= allocated

\* What the library stored is in the SPE program's objects when the call
\* returns, through temporaries or not, and without temporaries nothing else.
ResultsStored ==
  phase = "done" /\ ~LongDoubles =>
    \A k \in Objects : IF k <= stored THEN object[k] = "new" ELSE abi = 32 => object[k] = "old"

\* ISO C: an object for which no input was converted keeps its value.
UnconvertedKept ==
  phase = "done" => \A k \in Objects : k > stored => object[k] = "old"

\* "%Lf" takes an argument as well.
LongDoublePassed == phase = "call" => Passed
=============================================================================
